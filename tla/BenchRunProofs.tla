---------------------------- MODULE BenchRunProofs ----------------------------
(***************************************************************************)
(* The driver and the runner for any kernels, types, command lines and     *)
(* Device Trees.  run_benchmark is straight-line code with an exit at      *)
(* every call, so its invariant says for each stage what is open, what has *)
(* been counted and what has been found; the loops of main() add which     *)
(* kernels are reported by the time a type is reached.  Of the argument    *)
(* loop the invariant says that what it has built so far is what the words *)
(* it has consumed ask for; that a reading of a prefix becomes one of the  *)
(* next prefix is shown for places, values and event lists apart, and      *)
(* that joining lists agrees with adding one list at the end by induction  *)
(* on their number.                                                        *)
(***************************************************************************)
EXTENDS BenchRun, FiniteSetTheorems, SequenceTheorems, WellFoundedInduction, TLAPS

Sizes == {"m", "n", "k", "warmup", "samples", "iterations", "threads"}

Contents == {"reset", "touched"}
Windows == [enabled : BOOLEAN, fresh : BOOLEAN, resets : Nat, runs : Nat]

Durations == [enabled : Nat, running : Nat]

TypeOK ==
    /\ stage \in {"arguments", "run", "exit"}
    /\ DOMAIN request = Sizes \cup {"verify", "perf_events"}
    /\ \A name \in Sizes : request[name] \in Nat
    /\ request.verify \in BOOLEAN
    /\ compatibles \in Seq(STRING)
    /\ type \in 0 .. Len(Types)
    /\ todo \subseteq Kernels
    /\ outcome \in [Kernels -> {"unseen", "skip", "fail", "pass"}]
    /\ failed \in BOOLEAN
    /\ kernel \in Kernels \cup {None}
    /\ at \in {"idle", "check", "prepare", "verify", "warm", "calibrate", "calibrate reset",
               "calibrate start", "calibrating", "open", "sample", "start", "counting", "read",
               "report", "return", "returned"}
    /\ state \in {"none", "live", "destroyed"}
    /\ open \subseteq {"calibration", "counters"}
    /\ content \in Contents
    /\ window \in Windows
    /\ times \in Durations
    /\ iterations \in Nat
    /\ taken \in Nat
    /\ output \in [Elements -> Deviations \cup {"exact"}]
    /\ result \in [skipped : BOOLEAN, failed : BOOLEAN, verified : BOOLEAN]

\* The stages of run_benchmark before the calibration, and those in which the
\* counters of the samples are open.
Early == {"idle", "check", "prepare", "verify"}
Calibrating == {"calibrate reset", "calibrate start", "calibrating"}
Sampling == {"sample", "start", "counting", "read", "report"}
Leaving == {"return", "returned"}

\* What is open, and whether the kernel has a state.
HeldInv ==
    /\ at \in Calibrating => open = {"calibration"}
    /\ at \in Sampling => open = {"counters"}
    /\ at = "return" => open \in {{}, {"calibration"}, {"counters"}}
    /\ at \in Early \cup {"warm", "calibrate", "open", "returned"} => open = {}
    /\ at = "returned" => state # "live"

\* What has been counted.
TimedInv ==
    /\ at \in Sampling \cup {"open"} => iterations > 0
    /\ at = "start" => content = "reset"
    /\ at = "counting" => window = [enabled |-> TRUE, fresh |-> TRUE, resets |-> 0, runs |-> 0]
    /\ at = "read" =>
         window = [enabled |-> TRUE, fresh |-> TRUE, resets |-> 0, runs |-> iterations]

Verified == result.verified = request.verify /\ \A e \in Elements : output[e] # "both"

Measured == taken = request.samples /\ taken > 0 /\ RanEnough(times)

\* What has been found.
FiguresInv ==
    /\ at \notin Leaving => ~ result.failed /\ ~ result.skipped
    /\ at \in Early => ~ result.verified /\ \A e \in Elements : output[e] # "both"
    /\ at = "verify" => request.verify
    /\ at \notin Early \cup Leaving => Verified
    /\ at \notin Sampling \cup Leaving => taken = 0
    /\ at \in Sampling \cup Calibrating \cup {"calibrate", "open"} => request.samples > 0
    /\ at \in Sampling /\ taken > 0 => RanEnough(times)
    /\ at = "report" => Measured
    /\ at \in Leaving /\ ~ result.skipped /\ ~ result.failed => Verified /\ Measured

\* A kernel is reported once the loops of main() are past it.
Passed(k) ==
    /\ k \in Chosen /\ k \notin todo /\ k # kernel
    /\ \E i \in 1 .. type : TypeOf[k] = Types[i]

\* A kernel the inner loop is at or will come to.
Current(k) == type > 0 /\ k \in KernelsOf(type)

LoopInv ==
    /\ at = "idle" <=> kernel = None
    /\ stage # "run" => at = "idle" /\ todo = {}
    /\ stage = "arguments" => type = 0 /\ \A k \in Kernels : outcome[k] = "unseen"
    /\ stage = "run" => /\ modes = {} /\ PlatformVerified /\ Chosen \subseteq Kernels
                        /\ \A k \in Kernels : outcome[k] # "unseen" <=> Passed(k)
    /\ \A k \in todo : Current(k)
    /\ kernel # None => Current(kernel) /\ kernel \notin todo
    /\ failed <=> \E k \in Kernels : outcome[k] = "fail"

ExitInv == Exited => exit \in 0 .. 3 /\ ExitTells(modes)

IInv == TypeOK /\ HeldInv /\ TimedInv /\ FiguresInv /\ LoopInv /\ ExitInv

----------------------------------------------------------------------------
LEMMA TypesLen == Len(Types) \in Nat /\ DOMAIN Types = 1 .. Len(Types)
BY BenchRunAssumption

LEMMA InitInv == Init => IInv
<1> SUFFICES ASSUME Init PROVE IInv
  OBVIOUS
<1> USE DEF Init
<1>1. TypeOK
  <2>1. /\ DOMAIN request = Sizes \cup {"verify", "perf_events"}
        /\ \A name \in Sizes : request[name] \in Nat
        /\ request.verify \in BOOLEAN
    BY DEF CommandInit, DefaultRequest, Sizes
  <2>2. compatibles \in Seq(STRING) /\ stage = "arguments"
    BY CommandLineAssumption DEF CommandInit
  <2>3. type \in 0 .. Len(Types)
    BY TypesLen
  <2>4. window \in Windows /\ times \in Durations
    BY DEF NoWindow, Windows, NoTimes, Durations
  <2>6. content \in Contents
    BY DEF Contents
  <2>5. result \in [skipped : BOOLEAN, failed : BOOLEAN, verified : BOOLEAN]
    OBVIOUS
  <2> QED BY <2>1, <2>2, <2>3, <2>4, <2>5, <2>6 DEF TypeOK
<1>2. HeldInv
  BY DEF HeldInv, Sampling, Calibrating, Early
<1>3. TimedInv
  BY DEF TimedInv, Sampling
<1>4. FiguresInv
  BY DEF FiguresInv, Sampling, Calibrating, Early, Leaving
<1>5. LoopInv /\ ExitInv
  BY DEF LoopInv, ExitInv, Exited, CommandInit
<1> QED BY <1>1, <1>2, <1>3, <1>4, <1>5 DEF IInv

----------------------------------------------------------------------------
LEMMA SizeOfType == \A option \in DOMAIN SizeOf : SizeOf[option] \in Sizes
BY DEF SizeOf, SizeOptions, Sizes

\* Reading an argument sets a number of the request, or none; what is done in
\* the end is one of these five things.
LEMMA CommandFacts ==
    ASSUME TypeOK, CommandNext
    PROVE  /\ stage = "arguments" /\ UNCHANGED compatibles
           /\ DOMAIN request' = Sizes \cup {"verify", "perf_events"}
           /\ \A name \in Sizes : request'[name] \in Nat
           /\ request'.verify \in BOOLEAN
           /\ \/ stage' = "arguments"
              \/ /\ stage' = "run" /\ UNCHANGED <<request, selected, modes>>
                 /\ modes = {} /\ PlatformVerified /\ IsRegistered
              \/ /\ stage' = "exit" /\ UNCHANGED <<request, selected, modes>>
                 /\ \/ exit' = 0 /\ modes # {} /\ (PlatformVerified \/ "--build-info" \in modes)
                    \/ exit' = 2
                    \/ exit' = 3 /\ ~ PlatformVerified
<1> USE DEF Reading, AllRead, Read, Leave
<1>1. CASE ReadFlag
  BY <1>1 DEF ReadFlag, TypeOK, Sizes
<1>2. CASE ReadKernel
  BY <1>2 DEF ReadKernel, TypeOK
<1>3. CASE ReadSize
  <2>1. PICK name \in Sizes : SizeOf[argument] = name
    BY <1>3, SizeOfType DEF ReadSize, IsSize
  <2>2. PICK number \in Nat : parse_size(value) = number
    BY CommandLineAssumption DEF parse_size
  <2>3. request' = [request EXCEPT ![name] = number]
    BY <1>3, <2>1, <2>2 DEF ReadSize
  <2> QED BY <1>3, <2>3 DEF ReadSize, TypeOK, Sizes
<1>4. CASE ReadEvents
  BY <1>4 DEF ReadEvents, TypeOK, Sizes
<1>5. CASE BadArgument
  BY <1>5 DEF BadArgument, TypeOK
<1>6. CASE BuildInfo
  BY <1>6 DEF BuildInfo, TypeOK
<1>7. CASE RejectPlatform
  BY <1>7 DEF RejectPlatform, TypeOK
<1>8. CASE Inform
  BY <1>8 DEF Inform, TypeOK
<1>9. CASE NoShape \/ UnknownKernel
  BY <1>9 DEF NoShape, UnknownKernel, TypeOK
<1>10. CASE StartRunning
  BY <1>10 DEF StartRunning, TypeOK
<1> QED BY <1>1, <1>2, <1>3, <1>4, <1>5, <1>6, <1>7, <1>8, <1>9, <1>10 DEF CommandNext

LEMMA CommandUnchanged ==
    ASSUME TypeOK, UNCHANGED command
    PROVE  /\ stage' \in {"arguments", "run", "exit"}
           /\ DOMAIN request' = Sizes \cup {"verify", "perf_events"}
           /\ \A name \in Sizes : request'[name] \in Nat
           /\ request'.verify \in BOOLEAN
           /\ compatibles' \in Seq(STRING)
BY DEF command, TypeOK

LEMMA TypeUnchanged ==
    ASSUME TypeOK, UNCHANGED vars
    PROVE  TypeOK'
<1>1. UNCHANGED <<type, todo, outcome, failed, kernel, at, state, open, content, window,
                  iterations, taken, times, output, result>>
  BY DEF vars, driver, trial
<1>2. UNCHANGED command
  BY DEF vars, driver
<1>3. /\ type' \in 0 .. Len(Types) /\ todo' \subseteq Kernels
      /\ outcome' \in [Kernels -> {"unseen", "skip", "fail", "pass"}]
      /\ failed' \in BOOLEAN /\ kernel' \in Kernels \cup {None}
      /\ state' \in {"none", "live", "destroyed"}
      /\ open' \subseteq {"calibration", "counters"}
  BY <1>1, Zenon DEF TypeOK
<1>4. /\ content' \in Contents /\ window' \in Windows /\ times' \in Durations
      /\ iterations' \in Nat /\ taken' \in Nat
      /\ output' \in [Elements -> Deviations \cup {"exact"}]
      /\ result' \in [skipped : BOOLEAN, failed : BOOLEAN, verified : BOOLEAN]
  BY <1>1, Zenon DEF TypeOK
<1> QED BY <1>1, <1>2, <1>3, <1>4, CommandUnchanged DEF TypeOK

\* What the messages of run_benchmark do to the result.
LEMMA ResultTypes ==
    ASSUME TypeOK
    PROVE  /\ [result EXCEPT !.failed = TRUE] \in [skipped : BOOLEAN, failed : BOOLEAN, verified : BOOLEAN]
           /\ \A bad \in BOOLEAN : [result EXCEPT !.verified = TRUE, !.failed = bad]
                 \in [skipped : BOOLEAN, failed : BOOLEAN, verified : BOOLEAN]
BY DEF TypeOK

\* A stage of run_benchmark changes nothing of main()'s.
LEMMA TrialTypes ==
    ASSUME TypeOK, UNCHANGED <<driver, kernel>>,
           at' \in {"verify", "warm", "calibrate", "calibrate reset", "calibrate start",
                    "calibrating", "open", "sample", "start", "counting", "read", "report",
                    "return", "returned"},
           UNCHANGED state \/ state' \in {"live", "destroyed"},
           open' \subseteq {"calibration", "counters"},
           content' \in Contents, window' \in Windows, times' \in Durations,
           iterations' \in Nat, taken' \in Nat,
           output' \in [Elements -> Deviations \cup {"exact"}],
           result' \in [skipped : BOOLEAN, failed : BOOLEAN, verified : BOOLEAN]
    PROVE  TypeOK'
BY CommandUnchanged DEF TypeOK, driver

\* What the reset of the output, start(), the repetitions of the kernel and
\* stop_and_read() make of what has been counted and of the times.
LEMMA WindowTypes ==
    ASSUME TypeOK
    PROVE  /\ Reset \/ Enable => content' \in Contents /\ window' \in Windows
           /\ \A repetitions \in Nat :
                Count(repetitions) => content' \in Contents /\ window' \in Windows
           /\ Disable => window' \in Windows /\ times' \in Durations
<1>1. ASSUME NEW w \in Windows, NEW n \in Nat
      PROVE  /\ [w EXCEPT !.resets = n] \in Windows /\ [w EXCEPT !.runs = n] \in Windows
             /\ [w EXCEPT !.enabled = FALSE] \in Windows
             /\ w.resets \in Nat /\ w.runs \in Nat
  BY <1>1 DEF Windows
<1>2. Reset \/ Enable => content' \in Contents /\ window' \in Windows
  <2>1. [window EXCEPT !.resets = window.resets + 1] \in Windows
    <3>1. window \in Windows /\ window.resets \in Nat
      BY <1>1 DEF TypeOK
    <3>2. window.resets + 1 \in Nat
      BY <3>1
    <3> QED BY <1>1, <3>1, <3>2
  <2>2. [NoWindow EXCEPT !.enabled = TRUE, !.fresh = (content = "reset")] \in Windows
    BY DEF Windows, NoWindow
  <2> QED BY <2>1, <2>2 DEF Reset, Enable, TypeOK, Contents
<1>3. ASSUME NEW repetitions \in Nat, Count(repetitions)
      PROVE  content' \in Contents /\ window' \in Windows
  <2>1. window \in Windows
    BY DEF TypeOK
  <2>2. window.runs + repetitions \in Nat
    <3>1. window.runs \in Nat
      BY <1>1, <2>1
    <3> QED BY <3>1
  <2>3. [window EXCEPT !.runs = window.runs + repetitions] \in Windows
    BY <1>1, <2>1, <2>2
  <2> QED BY <1>3, <2>3 DEF Count, TypeOK, Contents
<1>4. ASSUME Disable
      PROVE  window' \in Windows /\ times' \in Durations
  <2>1. [window EXCEPT !.enabled = FALSE] \in Windows
    BY <1>1 DEF TypeOK
  <2>2. PICK t \in Times : times' = [enabled |-> times.enabled + t.enabled,
                                     running |-> times.running + t.running]
    BY <1>4 DEF Disable
  <2>3. t.enabled \in Nat /\ t.running \in Nat /\ times.enabled \in Nat /\ times.running \in Nat
    BY BenchRunAssumption DEF TypeOK, Durations
  <2> QED BY <1>4, <2>1, <2>2, <2>3 DEF Disable, Durations
<1> QED BY <1>2, <1>3, <1>4

\* A calibrated run has at least one repetition.
LEMMA RepetitionsPositive ==
    ASSUME NEW elapsed \in Elapsed
    PROVE  Repetitions(elapsed) \in Nat /\ Repetitions(elapsed) > 0
BY BenchRunAssumption DEF Repetitions

LEMMA TypeNext == IInv /\ Next => TypeOK'
<1> SUFFICES ASSUME IInv, Next PROVE TypeOK'
  OBVIOUS
<1> USE DEF driver, trial, Proceed, Fail
<1>1. TypeOK
  BY DEF IInv
<1>2. CASE Command
  <2>1. CommandNext /\ UNCHANGED <<type, input, todo, outcome, failed, kernel, at, trial, result>>
    BY <1>2 DEF Command
  <2>2. stage' \in {"arguments", "run", "exit"}
    BY <1>1, <2>1, CommandFacts
  <2>3. /\ DOMAIN request' = Sizes \cup {"verify", "perf_events"}
        /\ \A name \in Sizes : request'[name] \in Nat
        /\ request'.verify \in BOOLEAN /\ compatibles' = compatibles
    BY <1>1, <2>1, CommandFacts
  <2> QED BY <1>1, <2>1, <2>2, <2>3 DEF TypeOK
<1>3. CASE Finish
  BY <1>1, <1>3 DEF Finish, Leave, TypeOK
<1>4. ASSUME UNCHANGED command,
             type' \in 0 .. Len(Types), todo' \subseteq Kernels,
             outcome' \in [Kernels -> {"unseen", "skip", "fail", "pass"}],
             failed' \in BOOLEAN, kernel' \in Kernels \cup {None},
             UNCHANGED at \/ at' = "check", UNCHANGED <<trial, result>>
      PROVE  TypeOK'
  BY <1>1, <1>4, CommandUnchanged DEF TypeOK
<1>5. CASE NextType
  <2>1. stage = "run" /\ Chosen \subseteq Kernels
    BY <1>5 DEF NextType, IInv, LoopInv
  <2>2. type' \in 0 .. Len(Types) /\ todo' \subseteq Kernels
    BY <1>1, <1>5, <2>1, TypesLen DEF NextType, TypeOK, KernelsOf
  <2> QED BY <1>1, <1>4, <1>5, <2>2 DEF NextType, TypeOK
<1>6. CASE NextKernel
  BY <1>1, <1>4, <1>6 DEF NextKernel, TypeOK
<1>7. CASE Validate
  BY <1>1, <1>7, CommandUnchanged DEF Validate, TypeOK
<1>8. CASE Prepare
  BY <1>1, <1>8, CommandUnchanged DEF Prepare, TypeOK
<1>9. CASE Verify
  <2>1. output' \in [Elements -> Deviations \cup {"exact"}]
    BY <1>1, <1>9 DEF Verify, TypeOK
  <2>2. PICK bad \in BOOLEAN : result' \in {[result EXCEPT !.failed = TRUE],
                                           [result EXCEPT !.verified = TRUE, !.failed = bad]}
    BY <1>9 DEF Verify
  <2> QED BY <1>1, <1>9, <2>1, <2>2, ResultTypes, TrialTypes DEF Verify, TypeOK, Contents
<1>10. CASE WarmUp
  BY <1>1, <1>10, ResultTypes, TrialTypes DEF WarmUp, TypeOK, Sizes, Contents
<1>11. CASE CalibrateOpen \/ CalibrateReset \/ CalibrateStart
  <2>1. open' \subseteq {"calibration", "counters"}
    BY <1>1, <1>11 DEF CalibrateOpen, CalibrateReset, CalibrateStart, TypeOK
  <2>2. content' \in Contents /\ window' \in Windows
    BY <1>1, <1>11, WindowTypes DEF CalibrateOpen, CalibrateReset, CalibrateStart, TypeOK
  <2> QED BY <1>1, <1>11, <2>1, <2>2, ResultTypes, TrialTypes
          DEF CalibrateOpen, CalibrateReset, CalibrateStart, TypeOK
<1>12. CASE Calibrate
  <2>1. open' \subseteq {"calibration", "counters"} /\ iterations' \in Nat
    BY <1>1, <1>12, RepetitionsPositive DEF Calibrate, close_all, TypeOK
  <2>2. window' \in Windows /\ content' \in Contents
    BY <1>12 DEF Calibrate, NoWindow, Windows, Contents
  <2> QED BY <1>1, <1>12, <2>1, <2>2, ResultTypes, TrialTypes DEF Calibrate, TypeOK
<1>13. CASE OpenCounters
  <2>1. open' \subseteq {"calibration", "counters"}
    BY <1>1, <1>13 DEF OpenCounters, TypeOK
  <2> QED BY <1>1, <1>13, <2>1, ResultTypes, TrialTypes DEF OpenCounters, TypeOK
<1>14. CASE SampleReset \/ SampleStart
  <2>1. content' \in Contents /\ window' \in Windows
    BY <1>1, <1>14, WindowTypes DEF SampleReset, SampleStart, TypeOK
  <2> QED BY <1>1, <1>14, <2>1, ResultTypes, TrialTypes DEF SampleReset, SampleStart, TypeOK
<1>15. CASE SampleRun
  <2>1. content' \in Contents /\ window' \in Windows
    BY <1>1, <1>15, WindowTypes DEF SampleRun, TypeOK
  <2> QED BY <1>1, <1>15, <2>1, TrialTypes DEF SampleRun, TypeOK
<1>16. CASE SampleRead
  <2>1. /\ at' \in {"return", "sample"} /\ taken' \in Nat
        /\ result' \in {result, [result EXCEPT !.failed = TRUE]}
    BY <1>1, <1>16 DEF SampleRead, TypeOK
  <2>2. window' \in Windows /\ times' \in Durations
    BY <1>1, <1>16, WindowTypes DEF SampleRead, TypeOK
  <2> QED BY <1>1, <1>16, <2>1, <2>2, ResultTypes, TrialTypes DEF SampleRead, TypeOK
<1>17. CASE Report
  BY <1>1, <1>17, CommandUnchanged DEF Report, TypeOK
<1>18. CASE Return
  BY <1>1, <1>18, CommandUnchanged DEF Return, close_all, TypeOK
<1>19. CASE PrintResult
  <2>1. window' \in Windows /\ times' \in Durations
    BY <1>19 DEF PrintResult, NoWindow, NoTimes, Windows, Durations
  <2>2. content' \in Contents
    BY <1>19 DEF PrintResult, Contents
  <2> QED BY <1>1, <1>19, <2>1, <2>2, CommandUnchanged DEF PrintResult, TypeOK, Verdict
<1>20. CASE Exited /\ UNCHANGED vars
  BY <1>1, <1>20, TypeUnchanged
<1> QED BY <1>2, <1>3, <1>5, <1>6, <1>7, <1>8, <1>9, <1>10, <1>11, <1>12, <1>13, <1>14,
           <1>15, <1>16, <1>17, <1>18, <1>19, <1>20 DEF Next

----------------------------------------------------------------------------
\* Outside run_benchmark main() is at its loops.
LEMMA AtLoops ==
    ASSUME IInv, Command \/ Finish \/ NextType
    PROVE  at = "idle" /\ UNCHANGED <<at, trial, result>>
<1>1. CASE Command
  <2>1. stage = "arguments"
    BY <1>1, CommandFacts DEF Command, IInv
  <2> QED BY <1>1, <2>1 DEF Command, IInv, LoopInv
<1>2. CASE Finish \/ NextType
  BY <1>2 DEF Finish, NextType
<1> QED BY <1>1, <1>2

LEMMA HeldNext == IInv /\ Next => HeldInv'
<1> SUFFICES ASSUME IInv, Next PROVE HeldInv'
  OBVIOUS
<1> USE DEF trial, Proceed, Fail, HeldInv, Sampling, Calibrating, Early
<1>1. HeldInv
  BY DEF IInv
<1>2. CASE Command \/ Finish \/ NextType
  BY <1>1, <1>2, AtLoops
<1>3. CASE NextKernel \/ Validate
  BY <1>1, <1>3 DEF NextKernel, Validate
<1>4. CASE Prepare
  BY <1>1, <1>4 DEF Prepare
<1>5. CASE Verify
  BY <1>1, <1>5 DEF Verify
<1>6. CASE WarmUp
  BY <1>1, <1>6 DEF WarmUp
<1>7. CASE CalibrateOpen \/ CalibrateReset \/ CalibrateStart
  BY <1>1, <1>7 DEF CalibrateOpen, CalibrateReset, CalibrateStart
<1>8. CASE Calibrate
  BY <1>1, <1>8 DEF Calibrate, close_all
<1>9. CASE OpenCounters
  BY <1>1, <1>9 DEF OpenCounters
<1>10. CASE SampleReset \/ SampleStart
  BY <1>1, <1>10 DEF SampleReset, SampleStart
<1>11. CASE SampleRun
  BY <1>1, <1>11 DEF SampleRun
<1>12. CASE SampleRead
  BY <1>1, <1>12 DEF SampleRead
<1>13. CASE Report
  BY <1>1, <1>13 DEF Report
<1>14. CASE Return \/ PrintResult
  BY <1>1, <1>14 DEF Return, close_all, PrintResult
<1>15. CASE Exited /\ UNCHANGED vars
  BY <1>1, <1>15 DEF vars
<1> QED BY <1>2, <1>3, <1>4, <1>5, <1>6, <1>7, <1>8, <1>9, <1>10, <1>11, <1>12, <1>13, <1>14,
           <1>15 DEF Next

LEMMA TimedNext == IInv /\ Next => TimedInv'
<1> SUFFICES ASSUME IInv, Next PROVE TimedInv'
  OBVIOUS
<1> USE DEF trial, Proceed, Fail, TimedInv, Sampling
<1>1. TimedInv /\ TypeOK
  BY DEF IInv
<1>2. CASE Command \/ Finish \/ NextType
  BY <1>1, <1>2, AtLoops
<1>3. CASE NextKernel \/ Validate \/ Prepare \/ Verify
  BY <1>1, <1>3 DEF NextKernel, Validate, Prepare, Verify
<1>4. CASE WarmUp
  <2>1. request.iterations \in Nat
    BY <1>1 DEF TypeOK, Sizes
  <2> QED BY <1>1, <1>4, <2>1 DEF WarmUp
<1>5. CASE \/ CalibrateOpen \/ CalibrateReset \/ CalibrateStart
           \/ OpenCounters \/ Report \/ Return \/ PrintResult
  BY <1>1, <1>5 DEF CalibrateOpen, CalibrateReset, CalibrateStart, OpenCounters, Report,
                    Return, PrintResult
<1>6. CASE Calibrate
  BY <1>1, <1>6, RepetitionsPositive DEF Calibrate
<1>7. CASE SampleReset \/ SampleStart
  BY <1>1, <1>7 DEF SampleReset, SampleStart, Reset, Enable, NoWindow, TypeOK
<1>8. CASE SampleRun
  <2>1. /\ window = [enabled |-> TRUE, fresh |-> TRUE, resets |-> 0, runs |-> 0]
        /\ iterations \in Nat
    BY <1>1, <1>8 DEF SampleRun, TypeOK
  <2>2. window.enabled /\ window.runs + iterations = iterations
    BY <2>1
  <2>3. window' = [[enabled |-> TRUE, fresh |-> TRUE, resets |-> 0, runs |-> 0]
                     EXCEPT !.runs = iterations]
    BY <1>8, <2>1, <2>2, Zenon DEF SampleRun, Count
  <2>4. window' = [enabled |-> TRUE, fresh |-> TRUE, resets |-> 0, runs |-> iterations]
    BY <2>3
  <2> QED BY <1>1, <1>8, <2>1, <2>4 DEF SampleRun
<1>9. CASE SampleRead
  BY <1>1, <1>9 DEF SampleRead
<1>10. CASE Exited /\ UNCHANGED vars
  BY <1>1, <1>10 DEF vars
<1> QED BY <1>2, <1>3, <1>4, <1>5, <1>6, <1>7, <1>8, <1>9, <1>10 DEF Next

LEMMA FiguresNext == IInv /\ Next => FiguresInv'
<1> SUFFICES ASSUME IInv, Next PROVE FiguresInv'
  OBVIOUS
<1> USE DEF trial, driver, command, Proceed, Fail, FiguresInv, Sampling, Calibrating, Early,
            Leaving, Verified
<1>0. /\ taken \in Nat /\ request.samples \in Nat /\ request.verify \in BOOLEAN
      /\ result \in [skipped : BOOLEAN, failed : BOOLEAN, verified : BOOLEAN]
  BY DEF IInv, TypeOK, Sizes
<1>1. FiguresInv
  BY DEF IInv
<1>2. CASE Command \/ Finish \/ NextType
  BY <1>1, <1>2, AtLoops
<1>3. CASE NextKernel
  BY <1>1, <1>3 DEF NextKernel
<1>4. CASE Validate
  BY <1>0, <1>1, <1>4 DEF Validate
<1>5. CASE Prepare
  BY <1>0, <1>1, <1>5 DEF Prepare
<1>6. CASE Verify
  BY <1>0, <1>1, <1>6 DEF Verify, Wrong
<1>7. CASE WarmUp
  <2>1. CASE at' = "return"
    BY <1>0, <1>1, <1>7, <2>1 DEF WarmUp
  <2>2. CASE at' # "return"
    <3>1. /\ at = "warm" /\ at' \in {"calibrate", "open"} /\ request.samples > 0
          /\ UNCHANGED <<request, taken, output, result>>
      BY <1>0, <1>7, <2>2 DEF WarmUp
    <3>2. ~ result.failed /\ ~ result.skipped /\ Verified /\ taken = 0 /\ request.samples > 0
      BY <1>1, <3>1
    <3> QED BY <3>1, <3>2
  <2> QED BY <2>1, <2>2
<1>8. CASE CalibrateOpen \/ CalibrateReset \/ CalibrateStart
  BY <1>0, <1>1, <1>8 DEF CalibrateOpen, CalibrateReset, CalibrateStart
<1>9. CASE Calibrate
  BY <1>0, <1>1, <1>9 DEF Calibrate
<1>10. CASE OpenCounters
  <2>1. CASE at' = "return"
    BY <1>0, <1>1, <1>10, <2>1 DEF OpenCounters
  <2>2. CASE at' # "return"
    <3>1. /\ at = "open" /\ at' = "sample"
          /\ UNCHANGED <<request, taken, output, result>>
      BY <1>0, <1>10, <2>2 DEF OpenCounters
    <3>2. ~ result.failed /\ ~ result.skipped /\ Verified /\ taken = 0 /\ request.samples > 0
      BY <1>1, <3>1
    <3> QED BY <3>1, <3>2
  <2> QED BY <2>1, <2>2
<1>11. CASE SampleReset \/ SampleStart
  BY <1>0, <1>1, <1>11 DEF SampleReset, SampleStart, Measured
<1>12. CASE SampleRun
  BY <1>0, <1>1, <1>12 DEF SampleRun
<1>13. CASE SampleRead
  <2>1. CASE at' = "return"
    BY <1>0, <1>1, <1>13, <2>1 DEF SampleRead
  <2>2. CASE at' = "sample"
    BY <1>0, <1>1, <1>13, <2>2 DEF SampleRead
  <2> QED BY <1>13, <2>1, <2>2 DEF SampleRead
<1>14. CASE Report
  BY <1>0, <1>1, <1>14 DEF Report, Measured
<1>15. CASE Return
  BY <1>1, <1>15 DEF Return, Measured
<1>16. CASE PrintResult
  BY <1>1, <1>16 DEF PrintResult
<1>17. CASE Exited /\ UNCHANGED vars
  BY <1>1, <1>17 DEF vars, Measured
<1> QED BY <1>2, <1>3, <1>4, <1>5, <1>6, <1>7, <1>8, <1>9, <1>10, <1>11, <1>12, <1>13, <1>14,
           <1>15, <1>16, <1>17 DEF Next

----------------------------------------------------------------------------
\* Within run_benchmark nothing of main() changes.
LEMMA LoopFrame ==
    ASSUME LoopInv, ExitInv, TypeOK, UNCHANGED <<driver, kernel>>, at # "idle", at' # "idle"
    PROVE  LoopInv' /\ ExitInv'
<1>1. stage = "run" /\ stage' = "run"
  BY DEF LoopInv, driver, command
<1>2. /\ Chosen' = Chosen /\ PlatformVerified' = PlatformVerified
      /\ \A k : Passed(k)' <=> Passed(k)
      /\ \A k : Current(k)' <=> Current(k)
  BY DEF Chosen, PlatformVerified, Passed, Current, KernelsOf, driver, command
<1>3. LoopInv'
  BY <1>1, <1>2 DEF LoopInv, driver, command
<1> QED BY <1>1, <1>3 DEF ExitInv, Exited

\* A type is one place of the loop only.
LEMMA TypesDiffer ==
    ASSUME NEW i \in 1 .. Len(Types), NEW j \in 1 .. Len(Types), Types[i] = Types[j]
    PROVE  i = j
BY BenchRunAssumption DEF IsInjective

LEMMA LoopNext == IInv /\ Next => LoopInv' /\ ExitInv'
<1> SUFFICES ASSUME IInv, Next PROVE LoopInv' /\ ExitInv'
  OBVIOUS
<1>1. TypeOK /\ LoopInv /\ ExitInv
  BY DEF IInv
<1>2. CASE Command
  <2>1. /\ CommandNext /\ stage = "arguments" /\ at = "idle" /\ kernel = None /\ todo = {} /\ type = 0
        /\ UNCHANGED <<type, todo, outcome, failed, kernel, at>>
        /\ \A k \in Kernels : outcome[k] = "unseen"
        /\ ~ failed /\ compatibles' = compatibles
    BY <1>1, <1>2, CommandFacts DEF Command, LoopInv
  <2>2. CASE stage' = "arguments"
    BY <1>1, <2>1, <2>2 DEF LoopInv, ExitInv, Exited
  <2>3. CASE stage' = "run"
    <3>1. /\ UNCHANGED <<request, selected, modes>> /\ modes = {} /\ PlatformVerified /\ IsRegistered
      BY <1>1, <2>1, <2>3, CommandFacts
    <3>2. Chosen' \subseteq Kernels /\ PlatformVerified' /\ modes' = {}
      BY <2>1, <3>1 DEF Chosen, IsRegistered, PlatformVerified
    <3>3. \A k : ~ Passed(k)'
      BY <2>1 DEF Passed
    <3> QED BY <1>1, <2>1, <2>3, <3>2, <3>3 DEF LoopInv, ExitInv, Exited
  <2>4. CASE stage' = "exit"
    <3>1. /\ UNCHANGED <<request, selected, modes>>
          /\ \/ exit' = 0 /\ modes # {} /\ (PlatformVerified \/ "--build-info" \in modes)
             \/ exit' = 2
             \/ exit' = 3 /\ ~ PlatformVerified
      BY <1>1, <2>1, <2>4, CommandFacts
    <3>2. PlatformVerified <=> ToSet(compatibles) \intersect BuildCompatibles # {}
      <4>1. compatibles \in Seq(STRING)
        BY <1>1 DEF TypeOK
      <4> QED BY <4>1 DEF PlatformVerified, Contains, ToSet
    <3>3. ExitTells(modes)'
      BY <2>1, <2>4, <3>1, <3>2 DEF ExitTells, Exited
    <3> QED BY <1>1, <2>1, <2>4, <3>1, <3>3 DEF LoopInv, ExitInv, Exited
  <2> QED BY <1>1, <2>1, <2>2, <2>3, <2>4, CommandFacts
<1>3. CASE Finish
  <2>1. /\ stage = "run" /\ at = "idle" /\ todo = {} /\ kernel = None /\ type = Len(Types)
        /\ stage' = "exit" /\ exit' = IF failed THEN 1 ELSE 0
        /\ UNCHANGED <<type, todo, outcome, failed, kernel, at, modes, selected, compatibles>>
    BY <1>1, <1>3 DEF Finish, Leave, LoopInv
  <2>2. \A k \in Kernels : outcome[k] # "unseen" <=> k \in Chosen
    <3>1. \A k \in Kernels : \E i \in 1 .. type : TypeOf[k] = Types[i]
      BY <2>1, BenchRunAssumption, TypesLen
    <3> QED BY <1>1, <2>1, <3>1, BenchRunAssumption DEF LoopInv, Passed
  <2>3. ToSet(compatibles) \intersect BuildCompatibles # {} /\ modes = {} /\ Chosen \subseteq Kernels
    BY <1>1, <2>1 DEF LoopInv, TypeOK, PlatformVerified, Contains, ToSet
  <2>4. ExitTells(modes)'
    BY <1>1, <2>1, <2>2, <2>3 DEF ExitTells, Exited, Chosen, LoopInv, TypeOK
  <2> QED BY <1>1, <2>1, <2>4 DEF LoopInv, ExitInv, Exited, TypeOK
<1>4. CASE NextType
  <2>1. /\ stage = "run" /\ at = "idle" /\ todo = {} /\ kernel = None
        /\ type \in Nat /\ type < Len(Types) /\ type' = type + 1 /\ todo' = KernelsOf(type + 1)
        /\ UNCHANGED <<command, outcome, failed, kernel, at>>
    BY <1>1, <1>4, TypesLen DEF NextType, LoopInv, TypeOK
  <2>2. Chosen' = Chosen /\ PlatformVerified' = PlatformVerified /\ UNCHANGED <<stage, modes>>
    BY <2>1 DEF Chosen, PlatformVerified, command
  <2>3. ASSUME NEW k \in Kernels
        PROVE  Passed(k)' <=> Passed(k)
    <3>1. \A i : i \in 1 .. type' <=> i \in 1 .. type \/ i = type + 1
      BY <2>1
    <3>2. k \in todo' <=> k \in Chosen /\ TypeOf[k] = Types[type + 1]
      BY <2>1 DEF KernelsOf
    <3>3. \A i \in 1 .. type : Types[i] # Types[type + 1]
      BY <2>1, TypesLen, TypesDiffer
    <3>4. kernel' = None /\ kernel = None /\ todo = {} /\ None \notin Kernels
      BY <2>1, BenchRunAssumption
    <3> QED BY <2>2, <3>1, <3>2, <3>3, <3>4 DEF Passed
  <2>4. \A k \in todo' : Current(k)'
    BY <2>1, <2>2 DEF Current, KernelsOf
  <2> QED BY <1>1, <2>1, <2>2, <2>3, <2>4 DEF LoopInv, ExitInv, Exited
<1>5. CASE NextKernel
  <2>1. PICK k \in todo : kernel' = k /\ todo' = todo \ {k}
    BY <1>5 DEF NextKernel
  <2>2. /\ at = "idle" /\ kernel = None /\ at' = "check" /\ stage = "run" /\ k \in Kernels
        /\ UNCHANGED <<command, type, outcome, failed>>
    BY <1>1, <1>5, <2>1 DEF NextKernel, LoopInv, TypeOK
  <2>3. Chosen' = Chosen /\ PlatformVerified' = PlatformVerified /\ UNCHANGED <<stage, modes>>
    BY <2>2 DEF Chosen, PlatformVerified, command
  <2>4. \A u \in Kernels : Passed(u)' <=> Passed(u)
    BY <2>1, <2>2, <2>3, BenchRunAssumption DEF Passed
  <2>5. \A u : Current(u)' <=> Current(u)
    BY <2>2, <2>3 DEF Current, KernelsOf
  <2> QED BY <1>1, <2>1, <2>2, <2>3, <2>4, <2>5, BenchRunAssumption DEF LoopInv, ExitInv, Exited
<1>6. CASE Validate \/ Prepare \/ Verify \/ WarmUp
  BY <1>1, <1>6, LoopFrame DEF Validate, Prepare, Verify, WarmUp, Fail, Proceed
<1>7. CASE CalibrateOpen \/ CalibrateReset \/ CalibrateStart \/ Calibrate \/ OpenCounters
  BY <1>1, <1>7, LoopFrame DEF CalibrateOpen, CalibrateReset, CalibrateStart, Calibrate,
                               OpenCounters, Fail, Proceed
<1>8. CASE SampleReset \/ SampleStart \/ SampleRun \/ SampleRead \/ Report \/ Return
  BY <1>1, <1>8, LoopFrame DEF SampleReset, SampleStart, SampleRun, SampleRead, Report, Return,
                               Fail, Proceed
<1>9. CASE PrintResult
  <2>1. /\ at = "returned" /\ at' = "idle" /\ kernel' = None /\ kernel \in Kernels
        /\ stage = "run" /\ UNCHANGED <<command, type, todo>>
        /\ outcome' = [outcome EXCEPT ![kernel] = Verdict(result)]
        /\ failed' = (failed \/ Verdict(result) = "fail")
        /\ Verdict(result) # "unseen"
    BY <1>1, <1>9 DEF PrintResult, LoopInv, TypeOK, Verdict
  <2>2. Chosen' = Chosen /\ PlatformVerified' = PlatformVerified /\ UNCHANGED <<stage, modes>>
    BY <2>1 DEF Chosen, PlatformVerified, command
  <2>3. ASSUME NEW u \in Kernels
        PROVE  outcome'[u] # "unseen" <=> Passed(u)'
    <3>1. CASE u = kernel
      <4>1. kernel # None /\ Current(kernel) /\ kernel \notin todo
        BY <1>1, <2>1, BenchRunAssumption DEF LoopInv
      <4>2. type \in 1 .. type /\ kernel \in Chosen /\ TypeOf[kernel] = Types[type]
        <5>1. type \in Nat
          <6>1. type \in 0 .. Len(Types)
            BY <1>1, Zenon DEF TypeOK
          <6> QED BY <6>1, TypesLen
        <5> QED BY <4>1, <5>1 DEF Current, KernelsOf
      <4> QED BY <1>1, <2>1, <2>2, <3>1, <4>1, <4>2 DEF Passed, TypeOK
    <3>2. CASE u # kernel
      <4>1. outcome'[u] = outcome[u]
        BY <1>1, <2>1, <3>2 DEF TypeOK
      <4>2. u # kernel' /\ (outcome[u] # "unseen" <=> Passed(u))
        BY <1>1, <2>1, BenchRunAssumption DEF LoopInv
      <4> QED BY <2>1, <2>2, <3>2, <4>1, <4>2 DEF Passed
    <3> QED BY <3>1, <3>2
  <2>4. failed' <=> \E u \in Kernels : outcome'[u] = "fail"
    <3>1. kernel # None /\ outcome[kernel] # "fail"
      <4>1. kernel # None /\ ~ Passed(kernel)
        BY <1>1, <2>1 DEF LoopInv, Passed
      <4> QED BY <1>1, <2>1, <4>1 DEF LoopInv, TypeOK
    <3> QED BY <1>1, <2>1, <3>1 DEF LoopInv, TypeOK
  <2>5. \A u \in todo' : Current(u)'
    BY <1>1, <2>1, <2>2 DEF LoopInv, Current, KernelsOf
  <2> QED BY <1>1, <2>1, <2>2, <2>3, <2>4, <2>5 DEF LoopInv, ExitInv, Exited
<1>10. CASE Exited /\ UNCHANGED vars
  <2>1. LoopInv'
    BY <1>1, <1>10 DEF LoopInv, vars, driver, command, Passed, Current, KernelsOf, Chosen,
        PlatformVerified
  <2>2. ExitTells(modes)' <=> ExitTells(modes)
    BY <1>10 DEF ExitTells, vars, driver, command, Exited, Chosen
  <2> QED BY <1>1, <1>10, <2>1, <2>2 DEF ExitInv, Exited, vars, driver, command
<1> QED BY <1>2, <1>3, <1>4, <1>5, <1>6, <1>7, <1>8, <1>9, <1>10 DEF Next

----------------------------------------------------------------------------
\* The invariant of BenchRun: where a run of the program is, what it holds, has
\* counted, has found and has reported.
THEOREM Invariance == Spec => []IInv
<1>1. ASSUME IInv, UNCHANGED vars
      PROVE  IInv'
  <2>1. TypeOK'
    BY <1>1, TypeUnchanged DEF IInv
  <2>2. HeldInv' /\ TimedInv'
    BY <1>1 DEF IInv, HeldInv, TimedInv, vars, trial
  <2>3. FiguresInv'
    BY <1>1 DEF IInv, FiguresInv, Verified, Measured, vars, trial, driver, command
  <2>4. LoopInv'
    BY <1>1 DEF IInv, LoopInv, Passed, Current, KernelsOf, Chosen, PlatformVerified, vars,
        driver, command
  <2>5. ExitInv'
    BY <1>1 DEF IInv, ExitInv, ExitTells, Exited, Chosen, vars, driver, command
  <2> QED BY <2>1, <2>2, <2>3, <2>4, <2>5 DEF IInv
<1>2. ASSUME IInv, Next
      PROVE  IInv'
  BY <1>2, TypeNext, HeldNext, TimedNext, FiguresNext, LoopNext DEF IInv
<1>3. IInv /\ [Next]_vars => IInv'
  BY <1>1, <1>2
<1> QED BY InitInv, <1>3, PTL DEF Spec

\* The request, the loops of main() and the stages of run_benchmark keep their
\* types.
THEOREM TypeCorrectness == Spec => []TypeOK
<1>1. IInv => TypeOK
  BY DEF IInv
<1> QED BY <1>1, Invariance, PTL

\* Between the reset of the output and the reading of the counters the kernel
\* runs exactly as often as the value is divided by, at least once.
THEOREM TimedRunIsPureAlways == Spec => []TimedRunIsPure
<1>1. IInv => TimedRunIsPure
  BY DEF IInv, TimedInv, TimedRunIsPure, Sampling
<1> QED BY <1>1, Invariance, PTL

\* Two groups are never open at once, and none is, nor is the kernel's state
\* live, when run_benchmark has returned.
THEOREM NothingHeldAlways == Spec => []NothingHeld
<1>1. ASSUME IInv PROVE NothingHeld
  <2>1. open \in {{}, {"calibration"}, {"counters"}}
    BY <1>1 DEF IInv, TypeOK, HeldInv, Sampling, Calibrating, Early
  <2>2. Cardinality(open) \in {0, 1}
    BY <2>1, FS_EmptySet, FS_Singleton, Zenon
  <2> QED BY <1>1, <2>2 DEF IInv, HeldInv, Early, NothingHeld
<1> QED BY <1>1, Invariance, PTL

\* Figures are printed only of a kernel that was verified if that was asked for,
\* from as many samples as were asked for; and with every sample that is kept the
\* events have run 99% of the time they were enabled since the group was opened.
THEOREM FiguresAreSoundAlways == Spec => []FiguresAreSound
<1>1. IInv => FiguresAreSound
  BY DEF IInv, FiguresInv, FiguresAreSound, Verdict, Verified, Measured, Leaving, Sampling
<1> QED BY <1>1, Invariance, PTL

\* The exit status tells what became of every kernel, given the modes that the
\* argument loop has set.
LEMMA ExitTellsModes == Spec => []ExitTells(modes)
<1>1. ASSUME IInv PROVE ExitTells(modes)
  <2>1. kernel # None => outcome[kernel] = "unseen"
    BY <1>1 DEF IInv, LoopInv, Passed, TypeOK
  <2> QED BY <1>1, <2>1 DEF IInv, ExitInv, ExitTells
<1> QED BY <1>1, Invariance, PTL

----------------------------------------------------------------------------
\* validate_shape<M, N, K> of every adapter asks for a K of whole blocks.
AsksForWholeBlocks == \A k \in Kernels : MultipleOf[k][3] % BlockOf[TypeOf[k]] = 0

\* The input is that of the type the loop is at, and a kernel that is prepared
\* takes the shape.
InputInv ==
    /\ todo # {} \/ at # "idle" => input = CreatedInput(Types[type])
    /\ at \notin {"idle", "check"} /\ ~ result.skipped => Supported(kernel)

LEMMA InputNext == IInv /\ InputInv /\ [Next]_vars => InputInv'
<1> SUFFICES ASSUME IInv, InputInv, [Next]_vars PROVE InputInv'
  OBVIOUS
<1> USE DEF InputInv
<1>1. TypeOK /\ LoopInv
  BY DEF IInv
<1>2. CASE Command \/ Finish
  <2>1. at' = "idle" /\ todo' = {}
    BY <1>1, <1>2, AtLoops, CommandFacts DEF Command, Finish, LoopInv
  <2> QED BY <2>1
<1>3. CASE NextType
  BY <1>1, <1>3 DEF NextType, command, CreatedInput
<1>4. CASE NextKernel
  BY <1>1, <1>4 DEF NextKernel, command, CreatedInput
<1>5. ASSUME UNCHANGED <<driver, kernel>>, at # "idle",
             at = "check" => (result'.skipped \/ Supported(kernel)),
             at # "check" => result'.skipped = result.skipped
      PROVE  InputInv'
  <2>1. input' = CreatedInput(Types[type])' /\ (Supported(kernel)' <=> Supported(kernel))
    BY <1>5 DEF driver, command, CreatedInput, Supported
  <2> QED BY <1>5, <2>1
<1>6. CASE Validate
  BY <1>1, <1>5, <1>6, BenchRunAssumption
     DEF Validate, kernel_supports_platform, PlatformOf, Proceed, TypeOK
<1>7. CASE Prepare \/ Verify \/ WarmUp
  BY <1>1, <1>5, <1>7 DEF Prepare, Verify, WarmUp, Fail, Proceed, TypeOK
<1>8. CASE CalibrateOpen \/ CalibrateReset \/ CalibrateStart \/ Calibrate \/ OpenCounters
  BY <1>1, <1>5, <1>8 DEF CalibrateOpen, CalibrateReset, CalibrateStart, Calibrate,
                          OpenCounters, Fail, Proceed, TypeOK
<1>9. CASE SampleReset \/ SampleStart \/ SampleRun \/ SampleRead
  BY <1>1, <1>5, <1>9 DEF SampleReset, SampleStart, SampleRun, SampleRead, Fail, Proceed, TypeOK
<1>10. CASE Report \/ Return
  BY <1>1, <1>5, <1>10 DEF Report, Return, Fail, Proceed, TypeOK
<1>11. CASE PrintResult
  BY <1>1, <1>11 DEF PrintResult, command, CreatedInput
<1>12. CASE UNCHANGED vars
  BY <1>1, <1>12 DEF vars, driver, command, CreatedInput, Supported
<1> QED BY <1>2, <1>3, <1>4, <1>6, <1>7, <1>8, <1>9, <1>10, <1>11, <1>12 DEF Next

\* A multiple of a multiple of a block is a number of whole blocks.
LEMMA WholeBlocks ==
    ASSUME NEW k \in Nat, NEW n \in Nat, NEW block \in Nat \ {0}, NEW multiple \in Nat \ {0},
           k % multiple = 0, multiple % block = 0
    PROVE  n * (k \div block) * block = n * k
<1> DEFINE c == multiple \div block
           q == k \div multiple
<1>1. c \in Nat /\ multiple = c * block
  BY multiple = block * c + (multiple % block)
<1>2. q \in Nat /\ k = q * multiple
  BY k = multiple * q + (k % multiple)
<1> HIDE DEF c, q
<1>3. k = (q * c) * block /\ q * c \in Nat
  BY <1>1, <1>2
<1>4. k \div block = q * c
  BY <1>3
<1> QED BY <1>3, <1>4

\* A kernel that is prepared gets operands of its own type and all of them.
THEOREM InputIsCompleteAlways ==
    ASSUME AsksForWholeBlocks PROVE Spec => []InputIsComplete
<1>1. ASSUME IInv, InputInv PROVE InputIsComplete
  <2> SUFFICES ASSUME at \notin {"idle", "check"}, ~ result.skipped
               PROVE  /\ input.type = TypeOf[kernel]
                      /\ input.blocks * BlockOf[input.type] = request.n * request.k
    BY DEF InputIsComplete
  <2>1. /\ kernel \in Kernels /\ TypeOf[kernel] = Types[type]
        /\ input = CreatedInput(TypeOf[kernel]) /\ Supported(kernel)
    BY <1>1 DEF IInv, LoopInv, InputInv, TypeOK, Current, KernelsOf
  <2>2. /\ request.k \in Nat /\ request.n \in Nat
        /\ BlockOf[TypeOf[kernel]] \in Nat \ {0} /\ MultipleOf[kernel][3] \in Nat \ {0}
    BY <1>1, <2>1, BenchRunAssumption DEF IInv, TypeOK, Sizes
  <2>3. request.k % MultipleOf[kernel][3] = 0 /\ MultipleOf[kernel][3] % BlockOf[TypeOf[kernel]] = 0
    BY <2>1 DEF Supported, AsksForWholeBlocks
  <2> QED BY <2>1, <2>2, <2>3, WholeBlocks DEF CreatedInput
<1>2. Init => InputInv
  BY DEF Init, InputInv
<1> QED BY <1>1, <1>2, InputNext, Invariance, PTL DEF Spec

----------------------------------------------------------------------------
LEMMA LeastOf ==
    ASSUME NEW T \in SUBSET Nat, T # {}
    PROVE  \E m \in T : \A x \in T : m <= x
<1>1. PICK m \in T : \A y \in T : ~ (<<y, m>> \in OpToRel(<, Nat))
  BY NatLessThanWellFounded, WFMin
<1>2. \A y \in T : m <= y
  <2>1. SUFFICES ASSUME NEW y \in T, y < m  PROVE  FALSE
    OBVIOUS
  <2>2. <<y, m>> \in Nat \X Nat /\ <<y, m>>[1] < <<y, m>>[2]
    BY <2>1
  <2>3. <<y, m>> \in OpToRel(<, Nat)
    BY <2>2, Zenon DEF OpToRel
  <2> QED BY <1>1, <2>3
<1> QED BY <1>2

\* The running concatenations of a sequence of sequences.
Runs(s, g) == \A i \in 1 .. Len(s) : g[i] = IF i = 1 THEN s[1] ELSE g[i - 1] \o s[i]

LEMMA RunsExist ==
    ASSUME NEW S, NEW s \in Seq(Seq(S))
    PROVE  \E g \in [1 .. Len(s) -> Seq(S)] : Runs(s, g)
<1> DEFINE Has(m) == \E g \in [1 .. m -> Seq(S)] :
                       \A i \in 1 .. m : g[i] = IF i = 1 THEN s[1] ELSE g[i - 1] \o s[i]
           T == { m \in 0 .. Len(s) : ~ Has(m) }
<1>1. Len(s) \in Nat /\ \A i \in 1 .. Len(s) : s[i] \in Seq(S)
  OBVIOUS
<1>2. Has(0)
  <2>1. [i \in 1 .. 0 |-> <<>>] \in [1 .. 0 -> Seq(S)] /\ \A i \in 1 .. 0 : FALSE
    OBVIOUS
  <2> QED BY <2>1, Zenon
<1>3. ASSUME NEW m \in 0 .. Len(s) - 1, Has(m)
      PROVE  Has(m + 1)
  <2>1. PICK g \in [1 .. m -> Seq(S)] :
               \A i \in 1 .. m : g[i] = IF i = 1 THEN s[1] ELSE g[i - 1] \o s[i]
    BY <1>3
  <2> DEFINE last == IF m = 0 THEN s[1] ELSE g[m] \o s[m + 1]
             h == [i \in 1 .. m + 1 |-> IF i = m + 1 THEN last ELSE g[i]]
  <2>2. last \in Seq(S)
    <3>1. s[m + 1] \in Seq(S)
      BY <1>1
    <3>2. CASE m = 0
      BY <3>1, <3>2
    <3>3. CASE m # 0
      <4>1. g[m] \in Seq(S)
        BY <3>3, <2>1
      <4> QED BY <4>1, <3>1, <3>3, ConcatProperties
    <3> QED BY <3>2, <3>3
  <2> HIDE DEF last
  <2>3. h \in [1 .. m + 1 -> Seq(S)]
    BY <2>1, <2>2
  <2>4. ASSUME NEW i \in 1 .. m + 1
        PROVE  h[i] = IF i = 1 THEN s[1] ELSE h[i - 1] \o s[i]
    <3>1. CASE i = m + 1
      BY <3>1 DEF last
    <3>2. CASE i # m + 1
      <4>1. i \in 1 .. m /\ h[i] = g[i]
        BY <3>2
      <4>2. i # 1 => i - 1 \in 1 .. m /\ i - 1 \in 1 .. m + 1 /\ i - 1 # m + 1
        BY <4>1
      <4>3. i # 1 => h[i - 1] = g[i - 1]
        BY <4>2
      <4> HIDE DEF h
      <4> QED BY <4>1, <4>3, <2>1
    <3> QED BY <3>1, <3>2
  <2> QED BY <2>3, <2>4
<1>4. T = {}
  <2> SUFFICES ASSUME T # {} PROVE FALSE
    OBVIOUS
  <2>1. T \in SUBSET Nat
    BY <1>1
  <2> HIDE DEF Has
  <2>2. PICK m \in T : \A x \in T : m <= x
    BY <2>1, LeastOf
  <2>3. m # 0 /\ m \in 1 .. Len(s)
    BY <1>1, <1>2, <2>2
  <2>4. Has(m - 1)
    BY <1>1, <2>2, <2>3
  <2> QED BY <1>3, <1>1, <2>2, <2>3, <2>4
<1> HIDE DEF Has
<1>5. Has(Len(s))
  BY <1>1, <1>4
<1> QED BY <1>5 DEF Has, Runs

LEMMA RunsUnique ==
    ASSUME NEW s, Len(s) \in Nat, NEW f, NEW g, Runs(s, f), Runs(s, g)
    PROVE  \A i \in 1 .. Len(s) : f[i] = g[i]
<1> DEFINE T == { i \in 1 .. Len(s) : f[i] # g[i] }
<1>1. T = {}
  <2> SUFFICES ASSUME T # {} PROVE FALSE
    OBVIOUS
  <2>1. T \in SUBSET Nat
    OBVIOUS
  <2>2. PICK m \in T : \A x \in T : m <= x
    BY <2>1, LeastOf
  <2>3. m # 1 => f[m - 1] = g[m - 1]
    BY <2>2
  <2> QED BY <2>2, <2>3 DEF Runs
<1> QED BY <1>1

LEMMA FlattenRuns ==
    ASSUME NEW S, NEW s \in Seq(Seq(S)), s # <<>>
    PROVE  \E g \in [1 .. Len(s) -> Seq(S)] : Runs(s, g) /\ FlattenSeq(s) = g[Len(s)]
<1> DEFINE Body(f) == [i \in 1 .. Len(s) |-> IF i = 1 THEN s[i] ELSE f[i - 1] \o s[i]]
           g == CHOOSE f : f = Body(f)
<1>1. Len(s) \in Nat \ {0}
  BY EmptySeq
<1>2. PICK f \in [1 .. Len(s) -> Seq(S)] : Runs(s, f)
  BY RunsExist
<1>3. f = Body(f)
  BY <1>2 DEF Runs
<1>4. g = Body(g)
  BY <1>3
<1>5. FlattenSeq(s) = g[Len(s)]
  BY <1>1 DEF FlattenSeq
<1> HIDE DEF g
<1>6. Runs(s, g)
  <2>1. \A i \in 1 .. Len(s) : Body(g)[i] = IF i = 1 THEN s[1] ELSE g[i - 1] \o s[i]
    OBVIOUS
  <2> HIDE DEF Body
  <2> QED BY <1>4, <2>1 DEF Runs
<1>7. \A i \in 1 .. Len(s) : f[i] = g[i]
  BY <1>2, <1>6, RunsUnique
<1>8. g = [i \in 1 .. Len(s) |-> g[i]]
  <2>1. Body(g) = [i \in 1 .. Len(s) |-> Body(g)[i]]
    OBVIOUS
  <2> HIDE DEF Body
  <2> QED BY <1>4, <2>1
<1>9. g = f
  BY <1>7, <1>8
<1> QED BY <1>1, <1>2, <1>5, <1>9
LEMMA FlattenAppend ==
    ASSUME NEW S, NEW s \in Seq(Seq(S)), NEW e \in Seq(S)
    PROVE  /\ FlattenSeq(s) \in Seq(S)
           /\ FlattenSeq(Append(s, e)) = FlattenSeq(s) \o e
<1> DEFINE a == Append(s, e)
<1>1. /\ Len(s) \in Nat /\ a \in Seq(Seq(S)) /\ a # <<>> /\ Len(a) = Len(s) + 1
      /\ a[Len(s) + 1] = e /\ \A i \in 1 .. Len(s) : a[i] = s[i]
  <2>1. Len(s) \in Nat
    BY LenProperties
  <2>2. /\ a \in Seq(Seq(S)) /\ a # <<>> /\ Len(a) = Len(s) + 1
        /\ \A i \in 1 .. Len(s) : a[i] = s[i]
        /\ a[Len(s) + 1] = e
    <3>1. a \in Seq(Seq(S)) /\ a # <<>>
      BY AppendProperties
    <3>2. Len(a) = Len(s) + 1 /\ a[Len(s) + 1] = e
      OBVIOUS
    <3>3. \A i \in 1 .. Len(s) : a[i] = s[i]
      OBVIOUS
    <3> QED BY <3>1, <3>2, <3>3
  <2> QED BY <2>1, <2>2
<1> HIDE DEF a
<1>2. PICK h : /\ h \in [1 .. Len(s) + 1 -> Seq(S)]
               /\ Runs(a, h) /\ FlattenSeq(a) = h[Len(s) + 1]
  BY <1>1, FlattenRuns
<1> SUFFICES FlattenSeq(s) \in Seq(S) /\ FlattenSeq(a) = FlattenSeq(s) \o e
  BY DEF a
<1>3. CASE s = <<>>
  <2>1. FlattenSeq(s) = <<>> /\ Len(s) = 0
    BY <1>3 DEF FlattenSeq
  <2>2. FlattenSeq(a) = e
    BY <1>1, <1>2, <2>1 DEF Runs
  <2> QED BY <2>1, <2>2, ConcatEmptySeq
<1>4. CASE s # <<>>
  <2>1. Len(s) # 0
    BY <1>4, EmptySeq
  <2>2. PICK g : g \in [1 .. Len(s) -> Seq(S)] /\ Runs(s, g) /\ FlattenSeq(s) = g[Len(s)]
    BY <1>4, FlattenRuns
  <2>3. Runs(s, h)
    <3>1. \A i \in 1 .. Len(s) : i \in 1 .. Len(s) + 1
      BY <1>1
    <3> QED BY <1>1, <1>2, <2>1, <3>1 DEF Runs
  <2>4. g[Len(s)] = h[Len(s)]
    <3>1. \A i \in 1 .. Len(s) : g[i] = h[i]
      <4>1. Len(s) \in Nat
        BY <1>1
      <4>2. Runs(s, g)
        BY <2>2
      <4> QED BY <2>3, <4>1, <4>2, RunsUnique, Zenon
    <3> QED BY <1>1, <2>1, <3>1
  <2>5. h[Len(s) + 1] = h[Len(s)] \o e
    <3>1. Len(s) + 1 \in 1 .. Len(s) + 1 /\ Len(s) + 1 # 1 /\ Len(s) + 1 - 1 = Len(s)
      BY <1>1, <2>1
    <3>2. h[Len(s) + 1] = IF Len(s) + 1 = 1 THEN a[1] ELSE h[Len(s) + 1 - 1] \o a[Len(s) + 1]
      <4>1. Len(s) + 1 \in 1 .. Len(a)
        BY <1>1
      <4> HIDE DEF Runs
      <4>2. \A i \in 1 .. Len(a) : h[i] = IF i = 1 THEN a[1] ELSE h[i - 1] \o a[i]
        BY <1>2 DEF Runs
      <4> QED BY <4>1, <4>2
    <3> QED BY <1>1, <3>1, <3>2
  <2> QED BY <1>1, <1>2, <2>1, <2>2, <2>4, <2>5
<1> QED BY <1>3, <1>4

\* What follows the first options of a line: the next one, and others.
LEMMA FlattenPrefix ==
    ASSUME NEW S, NEW s \in Seq(Seq(S)), NEW n \in 0 .. Len(s)
    PROVE  \E t \in Seq(S) : FlattenSeq(s) = FlattenSeq(SubSeq(s, 1, n)) \o t
<1> DEFINE F(m) == FlattenSeq(SubSeq(s, 1, m))
           Rest(d) == \E t \in Seq(S) : F(Len(s)) = F(Len(s) - d) \o t
           T == { d \in 0 .. Len(s) : ~ Rest(d) }
<1>1. Len(s) \in Nat /\ \A m \in 1 .. Len(s) : s[m] \in Seq(S)
  OBVIOUS
<1>2. \A m \in 0 .. Len(s) : SubSeq(s, 1, m) \in Seq(Seq(S))
  OBVIOUS
<1>3. \A m \in 0 .. Len(s) : F(m) \in Seq(S)
  <2>1. <<>> \in Seq(S)
    OBVIOUS
  <2> QED BY <1>2, <2>1, FlattenAppend
<1>4. ASSUME NEW m \in 0 .. Len(s) - 1
      PROVE  F(m + 1) = F(m) \o s[m + 1]
  <2>1. SubSeq(s, 1, m + 1) = Append(SubSeq(s, 1, m), s[m + 1])
    BY <1>1
  <2>2. SubSeq(s, 1, m) \in Seq(Seq(S)) /\ s[m + 1] \in Seq(S)
    BY <1>1, <1>2
  <2> QED BY <2>1, <2>2, FlattenAppend
<1> HIDE DEF F
<1>5. Rest(0)
  <2>1. <<>> \in Seq(S) /\ F(Len(s)) \in Seq(S) /\ Len(s) - 0 = Len(s)
    BY <1>1, <1>3
  <2>2. F(Len(s)) = F(Len(s)) \o <<>>
    BY <2>1, ConcatEmptySeq, Zenon
  <2> QED BY <2>1, <2>2
<1>6. ASSUME NEW d \in 0 .. Len(s) - 1, Rest(d)
      PROVE  Rest(d + 1)
  <2>1. PICK t \in Seq(S) : F(Len(s)) = F(Len(s) - d) \o t
    BY <1>6
  <2> DEFINE m == Len(s) - (d + 1)
  <2>2. m \in 0 .. Len(s) - 1 /\ m + 1 = Len(s) - d
    BY <1>1
  <2> HIDE DEF m
  <2>3. F(m + 1) = F(m) \o s[m + 1] /\ F(m) \in Seq(S) /\ s[m + 1] \in Seq(S)
    <3>1. m \in 0 .. Len(s) /\ m + 1 \in 1 .. Len(s)
      BY <1>1, <2>2
    <3> QED BY <1>1, <1>3, <1>4, <2>2, <3>1
  <2>4. (F(m) \o s[m + 1]) \o t = F(m) \o (s[m + 1] \o t) /\ s[m + 1] \o t \in Seq(S)
    <3>1. (F(m) \o s[m + 1]) \o t = F(m) \o (s[m + 1] \o t)
      <4> DEFINE p == F(m)
                 q == s[m + 1]
      <4>1. p \in Seq(S) /\ q \in Seq(S)
        BY <2>3
      <4> HIDE DEF p, q
      <4>2. (p \o q) \o t = p \o (q \o t)
        BY <4>1, ConcatAssociative
      <4> QED BY <4>2 DEF p, q
    <3>2. s[m + 1] \o t \in Seq(S)
      BY <2>3, ConcatProperties, Zenon
    <3> QED BY <3>1, <3>2
  <2>5. F(Len(s)) = F(m) \o (s[m + 1] \o t)
    BY <2>1, <2>2, <2>3, <2>4
  <2> QED BY <2>4, <2>5 DEF m
<1> HIDE DEF Rest
<1>7. T = {}
  <2> SUFFICES ASSUME T # {} PROVE FALSE
    OBVIOUS
  <2>1. T \in SUBSET Nat
    BY <1>1
  <2>2. PICK d \in T : \A x \in T : d <= x
    BY <2>1, LeastOf
  <2>3. d # 0 /\ d \in 1 .. Len(s) /\ d - 1 \in 0 .. Len(s) - 1
    BY <1>1, <1>5, <2>2
  <2>4. Rest(d - 1)
    BY <1>1, <2>2, <2>3
  <2>5. Rest((d - 1) + 1)
    BY <1>6, <2>3, <2>4
  <2> QED BY <1>1, <2>2, <2>3, <2>5
<1>8. Rest(Len(s) - n)
  BY <1>1, <1>7
<1>9. SubSeq(s, 1, Len(s)) = s /\ Len(s) - (Len(s) - n) = n
  BY <1>1, SubSeqFull
<1> QED BY <1>8, <1>9 DEF Rest, F

----------------------------------------------------------------------------
LEMMA GreatestOf ==
    ASSUME NEW n \in Nat, NEW T \in SUBSET (1 .. n), T # {}
    PROVE  Max(T) \in T /\ \A x \in T : x <= Max(T)
<1> DEFINE D == { n - x : x \in T }
<1>1. D \in SUBSET Nat /\ D # {}
  <2>1. ASSUME NEW x \in T  PROVE n - x \in Nat
    OBVIOUS
  <2>2. D \subseteq Nat
    BY <2>1
  <2>3. PICK x \in T : TRUE
    OBVIOUS
  <2>4. n - x \in D
    BY <2>3
  <2> QED BY <2>2, <2>4
<1>2. \E d \in D : \A x \in D : d <= x
  <2> HIDE DEF D
  <2> QED BY <1>1, LeastOf
<1>3. PICK m \in T : \A x \in D : n - m <= x
  BY <1>2
<1>4. \A x \in T : m >= x
  <2> TAKE x \in T
  <2>1. n - x \in D
    OBVIOUS
  <2> HIDE DEF D
  <2>2. n - m <= n - x /\ m \in Int /\ x \in Int
    BY <1>3, <2>1
  <2> QED BY <2>2
<1> HIDE DEF D
<1>5. Max(T) \in T /\ \A x \in T : Max(T) >= x
  BY <1>4 DEF Max
<1> QED BY <1>5

LEMMA GreatestIs ==
    ASSUME NEW n \in Nat, NEW T \in SUBSET (1 .. n), NEW m \in T, \A x \in T : x <= m
    PROVE  Max(T) = m
<1> DEFINE M == Max(T)
<1>1. M \in T /\ \A x \in T : x <= M
  BY GreatestOf
<1> HIDE DEF M
<1>2. M = m
  BY <1>1
<1> QED BY <1>2 DEF M

LEMMA NextIsGreatest ==
    ASSUME NEW n \in Nat, NEW T \in SUBSET (1 .. n)
    PROVE  Max(T \cup {n + 1}) = n + 1 /\ T \cup {n + 1} # {}
<1> DEFINE Q == T \cup {n + 1}
<1>1. Q \in SUBSET (1 .. n + 1) /\ n + 1 \in Q /\ n + 1 \in Nat /\ \A x \in Q : x <= n + 1
  OBVIOUS
<1> HIDE DEF Q
<1>2. Max(Q) = n + 1
  BY <1>1, GreatestIs
<1> QED BY <1>1, <1>2 DEF Q

\* What one more option changes.
LEMMA PlacesAppend ==
    ASSUME NEW line \in Seq(Seq(STRING)), NEW e \in Seq(STRING), NEW names
    PROVE  /\ Places(line, names) \subseteq 1 .. Len(line)
           /\ Places(Append(line, e), names) =
                Places(line, names) \cup (IF e[1] \in names THEN {Len(line) + 1} ELSE {})
<1>1. Len(line) \in Nat /\ DOMAIN line = 1 .. Len(line)
  OBVIOUS
<1>2. /\ DOMAIN Append(line, e) = 1 .. Len(line) + 1
      /\ Append(line, e)[Len(line) + 1] = e
      /\ \A i \in 1 .. Len(line) : Append(line, e)[i] = line[i]
  OBVIOUS
<1>3. 1 .. Len(line) + 1 = (1 .. Len(line)) \cup {Len(line) + 1}
  BY <1>1
<1> QED BY <1>1, <1>2, <1>3 DEF Places

LEMMA SaidAppend ==
    ASSUME NEW line \in Seq(Seq(STRING)), NEW e \in Seq(STRING), NEW name, NEW default
    PROVE  Said(Append(line, e), name, default) =
             IF e[1] = name THEN e[2] ELSE Said(line, name, default)
<1> DEFINE P == Places(line, {name})
<1>1. /\ Len(line) \in Nat /\ P \in SUBSET (1 .. Len(line))
      /\ Places(Append(line, e), {name}) = P \cup (IF e[1] = name THEN {Len(line) + 1} ELSE {})
  BY PlacesAppend
<1>2. /\ Append(line, e)[Len(line) + 1] = e
      /\ \A i \in 1 .. Len(line) : Append(line, e)[i] = line[i]
  OBVIOUS
<1> HIDE DEF P
<1>3. CASE e[1] = name
  <2> DEFINE Q == P \cup {Len(line) + 1}
  <2>1. Max(Q) = Len(line) + 1 /\ Q # {}
    BY <1>1, NextIsGreatest, Zenon
  <2>2. Places(Append(line, e), {name}) = Q
    BY <1>1, <1>3, Zenon
  <2> HIDE DEF Q
  <2> QED BY <1>2, <1>3, <2>1, <2>2 DEF Said
<1>4. CASE e[1] # name
  <2>1. Places(Append(line, e), {name}) = P
    BY <1>1, <1>4
  <2>2. CASE P = {}
    BY <1>4, <2>1, <2>2 DEF Said, P
  <2>3. CASE P # {}
    <3>1. Max(P) \in P
      BY <1>1, <2>3, GreatestOf
    <3>2. Append(line, e)[Max(P)] = line[Max(P)]
      BY <1>1, <1>2, <3>1
    <3> QED BY <1>4, <2>1, <2>3, <3>2 DEF Said, P
  <2> QED BY <2>2, <2>3
<1> QED BY <1>3, <1>4

LEMMA NumberSaidAppend ==
    ASSUME NEW line \in Seq(Seq(STRING)), NEW e \in Seq(STRING), NEW name
    PROVE  NumberSaid(Append(line, e), name) =
             IF e[1] = name THEN NumberOf[e[2]] ELSE NumberSaid(line, name)
<1> DEFINE none == ""
<1>1. Said(Append(line, e), name, none) = IF e[1] = name THEN e[2] ELSE Said(line, name, none)
  <2> HIDE DEF none
  <2> QED BY SaidAppend
<1>2. Places(Append(line, e), {name}) =
        Places(line, {name}) \cup (IF e[1] = name THEN {Len(line) + 1} ELSE {})
  BY PlacesAppend
<1>3. CASE e[1] = name
  BY <1>1, <1>2, <1>3 DEF NumberSaid
<1>4. CASE e[1] # name
  BY <1>1, <1>2, <1>4 DEF NumberSaid
<1> QED BY <1>3, <1>4

Events == { parse_perf_event(text) : text \in STRING }

LEMMA ParsedType ==
    ASSUME NEW list \in DOMAIN TokensOf
    PROVE  Parsed(list) \in Seq(Events)
<1>1. TokensOf[list] \in Seq(STRING) /\ TokensOf[list] # <<>>
  BY CommandLineAssumption
<1>2. Tokens(list) \in Seq(STRING)
  <2>1. Front(TokensOf[list]) \in Seq(STRING)
    BY <1>1 DEF Front
  <2> QED BY <1>1, <2>1 DEF Tokens
<1>3. DOMAIN Tokens(list) = 1 .. Len(Tokens(list)) /\ Len(Tokens(list)) \in Nat
  BY <1>2
<1>4. \A i \in DOMAIN Tokens(list) : parse_perf_event(Tokens(list)[i]) \in Events
  BY <1>2, <1>3 DEF Events
<1> QED BY <1>3, <1>4 DEF Parsed

LEMMA AppendIs ==
    ASSUME NEW S, NEW s \in Seq(S), NEW e \in S, NEW r,
           r = [i \in 1 .. Len(s) + 1 |-> r[i]],
           r[Len(s) + 1] = e, \A i \in 1 .. Len(s) : r[i] = s[i]
    PROVE  r = Append(s, e)
<1> DEFINE a == Append(s, e)
<1>1. Len(s) \in Nat
  OBVIOUS
<1>2. a \in Seq(S) /\ Len(a) = Len(s) + 1 /\ a[Len(s) + 1] = e
  BY AppendProperties
<1>3. \A i \in 1 .. Len(s) : a[i] = s[i]
  BY AppendProperties
<1> HIDE DEF a
<1>4. ASSUME NEW i \in 1 .. Len(s) + 1  PROVE r[i] = a[i] /\ a[i] \in S
  <2>1. a[i] \in S
    BY <1>1, <1>2, ElementOfSeq
  <2>2. CASE i = Len(s) + 1
    BY <1>2, <2>1, <2>2
  <2>3. CASE i # Len(s) + 1
    <3>1. i \in 1 .. Len(s)
      BY <1>1, <2>3
    <3> QED BY <1>3, <2>1, <3>1
  <2> QED BY <2>2, <2>3
<1>5. r \in Seq(S) /\ Len(r) = Len(a)
  BY <1>1, <1>2, <1>4
<1>6. r = a
  BY <1>2, <1>4, <1>5, SeqEqual
<1> QED BY <1>6 DEF a

\* The lists of a line can all be split.
Listable(line) == \A i \in DOMAIN line : line[i][1] \in EventOptions => line[i][2] \in DOMAIN TokensOf

ListOf(e) == IF e[1] \in EventOptions THEN Parsed(e[2]) ELSE <<>>

LEMMA ListedAppend ==
    ASSUME NEW line \in Seq(Seq(STRING)), NEW e \in Seq(STRING), Listable(line),
           e[1] \in EventOptions => e[2] \in DOMAIN TokensOf
    PROVE  /\ Listed(line) \in Seq(Events)
           /\ Listed(Append(line, e)) = Listed(line) \o ListOf(e)
<1> DEFINE lists(l) == [i \in DOMAIN l |-> ListOf(l[i])]
<1>1. /\ Len(line) \in Nat /\ DOMAIN line = 1 .. Len(line)
      /\ DOMAIN Append(line, e) = 1 .. Len(line) + 1
      /\ Append(line, e)[Len(line) + 1] = e
      /\ \A i \in 1 .. Len(line) : Append(line, e)[i] = line[i]
  OBVIOUS
<1>2. <<>> \in Seq(Events)
  OBVIOUS
<1>3. ListOf(e) \in Seq(Events)
  BY <1>2, ParsedType DEF ListOf
<1>4. \A i \in DOMAIN line : ListOf(line[i]) \in Seq(Events)
  BY <1>2, ParsedType DEF ListOf, Listable
<1>5. lists(line) \in Seq(Seq(Events)) /\ Len(lists(line)) = Len(line)
  BY <1>1, <1>4
<1>6. lists(Append(line, e)) = Append(lists(line), ListOf(e))
  <2>1. /\ lists(Append(line, e)) = [i \in 1 .. Len(line) + 1 |-> lists(Append(line, e))[i]]
        /\ lists(Append(line, e))[Len(line) + 1] = ListOf(e)
        /\ \A i \in 1 .. Len(line) : lists(Append(line, e))[i] = lists(line)[i]
    BY <1>1
  <2> HIDE DEF lists
  <2> QED BY <1>3, <1>5, <2>1, AppendIs
<1>7. Listed(line) = FlattenSeq(lists(line)) /\ Listed(Append(line, e)) = FlattenSeq(lists(Append(line, e)))
  BY DEF Listed, ListOf
<1> HIDE DEF lists
<1> QED BY <1>3, <1>5, <1>6, <1>7, FlattenAppend

----------------------------------------------------------------------------
(* The argument loop.                                                       *)

Words(n) == FlattenSeq(SubSeq(given, 1, n))

\* What lies behind the words w, if the words of one option come next.
LEMMA OptionAt ==
    ASSUME NEW w \in Seq(STRING), NEW e \in Seq(STRING), NEW t \in Seq(STRING), Len(e) \in {1, 2}
    PROVE  /\ Len((w \o e) \o t) = Len(w) + Len(e) + Len(t)
           /\ ((w \o e) \o t)[Len(w) + 1] = e[1]
           /\ Len(e) = 2 => ((w \o e) \o t)[Len(w) + 2] = e[2]
<1> DEFINE u == w \o e
           a == u \o t
<1>1. PICK k, l, m : k = Len(w) /\ l = Len(e) /\ m = Len(t)
  OBVIOUS
<1>2. k \in Nat /\ l \in {1, 2} /\ m \in Nat
  BY <1>1
<1>3. /\ u \in Seq(STRING) /\ Len(u) = k + l
      /\ \A i \in 1 .. k + l : u[i] = IF i <= k THEN w[i] ELSE e[i - k]
  BY <1>1, ConcatProperties
<1> HIDE DEF u
<1>4. /\ Len(a) = k + l + m
      /\ \A i \in 1 .. k + l + m : a[i] = IF i <= k + l THEN u[i] ELSE t[i - (k + l)]
  BY <1>1, <1>3, ConcatProperties
<1> HIDE DEF a
<1>5. u[k + 1] = e[1] /\ (l = 2 => u[k + 2] = e[2])
  <2>1. PICK i, j : /\ i = k + 1 /\ i \in 1 .. k + l /\ ~ (i <= k) /\ i - k = 1
                    /\ j = k + 2 /\ (l = 2 => j \in 1 .. k + l) /\ ~ (j <= k) /\ j - k = 2
    BY ONLY <1>2
  <2>2. u[i] = e[1] /\ (l = 2 => u[j] = e[2])
    BY ONLY <1>3, <2>1, Zenon
  <2> QED BY ONLY <2>1, <2>2, Zenon
<1>6. a[k + 1] = u[k + 1] /\ (l = 2 => a[k + 2] = u[k + 2])
  <2>1. k + 1 \in 1 .. k + l + m /\ k + 1 <= k + l
    BY ONLY <1>2
  <2>2. l = 2 => k + 2 \in 1 .. k + l + m /\ k + 2 <= k + l
    BY ONLY <1>2
  <2> QED BY ONLY <1>4, <2>1, <2>2
<1> QED BY <1>1, <1>4, <1>5, <1>6, Zenon DEF a, u

\* The loop finds every option where the words before it end.
LEMMA WordsAt ==
    ASSUME given \in CommandLines, NEW n \in 0 .. Len(given), position = Len(Words(n)) + 1
    PROVE  /\ given \in Seq(Seq(STRING)) /\ Len(given) \in Nat
           /\ n = Len(given) => position > Len(argv)
           /\ n < Len(given) =>
                LET e == given[n + 1]
                IN  /\ e \in Seq(STRING) /\ Len(e) \in {1, 2}
                    /\ position <= Len(argv) /\ argument = e[1]
                    /\ Len(e) = 2 => HasValue /\ value = e[2]
                    /\ e[1] \in ValueOptions /\ HasValue => Len(e) = 2
                    /\ e[1] \notin ValueOptions => Len(e) = 1
                    /\ position + Len(e) = Len(Words(n + 1)) + 1
                    /\ SubSeq(given, 1, n + 1) = Append(SubSeq(given, 1, n), e)
                    /\ SubSeq(given, 1, n) \in Seq(Seq(STRING))
                    /\ e[1] \in EventOptions /\ Len(e) = 2 => e[2] \in DOMAIN TokensOf
<1>1. /\ given \in Seq(Seq(STRING)) /\ IsCut(given)
      /\ \A i \in DOMAIN given :
            given[i][1] \in EventOptions /\ Len(given[i]) = 2 => given[i][2] \in DOMAIN TokensOf
  BY CommandLineAssumption
<1>2. DOMAIN given = 1 .. Len(given) /\ SubSeq(given, 1, n) \in Seq(Seq(STRING))
  BY <1>1
<1>0. Len(given) \in Nat /\ n \in 0 .. Len(given)
  BY <1>1
<1>3. CASE n = Len(given)
  <2>1. SubSeq(given, 1, n) = given
    BY <1>1, <1>3, SubSeqFull
  <2>2. argv \in Seq(STRING)
    <3>1. <<>> \in Seq(STRING)
      OBVIOUS
    <3> QED BY <1>1, <3>1, FlattenAppend DEF argv
  <2>3. Words(n) = argv
    BY <2>1 DEF Words, argv
  <2>4. Len(argv) \in Nat /\ position = Len(argv) + 1
    BY <2>2, <2>3
  <2>5. n = Len(given) /\ ~ (n < Len(given)) /\ position > Len(argv)
    BY <1>2, <1>0, <1>3, <2>4
  <2> QED BY <1>1, <1>2, <1>0, <2>5
<1>4. CASE n < Len(given)
  <2> DEFINE e == given[n + 1]
  <2>1. n + 1 \in 1 .. Len(given) /\ n + 1 \in 0 .. Len(given) /\ n \in Nat
    BY <1>2, <1>0, <1>4
  <2>2. e \in Seq(STRING)
    BY <1>1, <1>2, <1>0, <2>1
  <2>3. /\ e[1] \in ValueOptions => Len(e) = 2 \/ (Len(e) = 1 /\ n + 1 = Len(given))
        /\ e[1] \notin ValueOptions => Len(e) = 1
        /\ e[1] \in EventOptions /\ Len(e) = 2 => e[2] \in DOMAIN TokensOf
    BY <1>1, <1>2, <1>0, <2>1 DEF IsCut
  <2>4. SubSeq(given, 1, n + 1) = Append(SubSeq(given, 1, n), e)
    BY <1>1, <1>2, <1>0, <2>1
  <2> HIDE DEF e
  <2>5. Words(n) \in Seq(STRING) /\ Words(n + 1) = Words(n) \o e
    BY <1>2, <1>0, <2>2, <2>4, FlattenAppend DEF Words
  <2>6. PICK t \in Seq(STRING) : argv = Words(n + 1) \o t
    BY <1>1, <2>1, FlattenPrefix DEF Words, argv
  <2>7. n + 1 = Len(given) => argv = Words(n + 1)
    BY <1>1, SubSeqFull DEF Words, argv
  <2>8. Len(e) \in {1, 2}
    BY <2>3
  <2>9. Len(Words(n + 1)) = Len(Words(n)) + Len(e)
    BY <2>2, <2>5
  <2>10. Len(Words(n)) \in Nat /\ Len(t) \in Nat
    BY <2>5
  <2>11. /\ Len(argv) = Len(Words(n)) + Len(e) + Len(t)
         /\ argv[Len(Words(n)) + 1] = e[1]
         /\ Len(e) = 2 => argv[Len(Words(n)) + 2] = e[2]
    <3>1. argv = (Words(n) \o e) \o t
      BY <2>5, <2>6, Zenon
    <3> QED BY <2>2, <2>5, <2>8, <3>1, OptionAt, Zenon
  <2>12. PICK k, l, m : /\ k = Len(Words(n)) /\ l = Len(e) /\ m = Len(t) /\ position = k + 1
                        /\ k \in Nat /\ l \in {1, 2} /\ m \in Nat
    BY <2>8, <2>10, Zenon
  <2>13. Len(argv) = k + l + m /\ argv[k + 1] = e[1] /\ (l = 2 => argv[k + 2] = e[2])
    BY <2>11, <2>12, Zenon
  <2>14. position <= Len(argv) /\ argument = e[1]
    BY ONLY <2>12, <2>13 DEF argument
  <2>15. Len(e) = 2 => HasValue /\ value = e[2]
    BY ONLY <2>12, <2>13 DEF HasValue, value
  <2>16. e[1] \in ValueOptions /\ HasValue => Len(e) = 2
    <3>1. n + 1 = Len(given) => Len(argv) = k + l
      BY <2>7, <2>9, <2>12, Zenon
    <3>2. n + 1 = Len(given) => ~ (position < Len(argv)) \/ l = 2
      BY ONLY <2>12, <3>1
    <3> QED BY <2>3, <2>12, <3>2, Zenon DEF HasValue
  <2>17. position + Len(e) = Len(Words(n + 1)) + 1
    <3>1. Len(Words(n + 1)) = k + l
      BY <2>9, <2>12, Zenon
    <3>2. position + l = (k + l) + 1
      BY ONLY <2>12
    <3> QED BY <2>12, <3>1, <3>2, Zenon
  <2>18. n # Len(given)
    BY ONLY <1>0, <1>4
  <2> QED BY <1>1, <1>2, <1>0, <2>2, <2>3, <2>4, <2>8, <2>14, <2>15, <2>16, <2>17, <2>18, Zenon DEF e
<1>5. n = Len(given) \/ n < Len(given)
  BY ONLY <1>0
<1> QED BY <1>3, <1>4, <1>5, Zenon

\* What has been read says what these options say.
Heard(line) ==
    /\ Listable(line)
    /\ modes = { m \in ModeOptions : Places(line, {m}) # {} }
    /\ selected = Said(line, "--kernel", "all")
    /\ \A name \in SizeOptions : request[SizeOf[name]] = NumberSaid(line, name)
    /\ request.samples > 0 /\ request.threads > 0 /\ request.threads <= kBuildMaxThreads
    /\ request.verify <=> Places(line, {"--no-verify"}) = {}
    /\ perf_events_explicit \in BOOLEAN
    /\ perf_events_explicit <=> Places(line, EventOptions) # {}
    /\ EventsSoFar = Listed(line)
    /\ ~ perf_events_explicit => request.perf_events = << cycles_event >>
    /\ IsInjective(Names(request.perf_events))

HeardTo(n) == position = Len(Words(n)) + 1 /\ Heard(SubSeq(given, 1, n))

\* Some options have been read; all of them, if the program goes on.
ReadInv ==
    /\ given \in CommandLines
    /\ stage = "arguments" => exit = -1 /\ \E n \in 0 .. Len(given) : HeardTo(n)
    /\ stage = "run" => Heard(given) /\ HasShape /\ IsRegistered
    /\ exit \in {0, 1} => Heard(given)

\* One more option, in the terms of Heard.
LEMMA LineAppend ==
    ASSUME NEW line \in Seq(Seq(STRING)), NEW e \in Seq(STRING), Listable(line),
           e[1] \in EventOptions => e[2] \in DOMAIN TokensOf
    PROVE  /\ Listable(Append(line, e))
           /\ \A names : Places(Append(line, e), names) = {} <=>
                          Places(line, names) = {} /\ e[1] \notin names
           /\ \A name : NumberSaid(Append(line, e), name) =
                           IF e[1] = name THEN NumberOf[e[2]] ELSE NumberSaid(line, name)
           /\ Said(Append(line, e), "--kernel", "all") =
                 IF e[1] = "--kernel" THEN e[2] ELSE Said(line, "--kernel", "all")
           /\ Listed(Append(line, e)) =
                 IF e[1] \in EventOptions THEN Listed(line) \o Parsed(e[2]) ELSE Listed(line)
<1>1. Listable(Append(line, e))
  <2>1. /\ Len(line) \in Nat /\ DOMAIN line = 1 .. Len(line)
        /\ DOMAIN Append(line, e) = 1 .. Len(line) + 1
        /\ Append(line, e)[Len(line) + 1] = e
        /\ \A i \in 1 .. Len(line) : Append(line, e)[i] = line[i]
    OBVIOUS
  <2>2. \A i \in 1 .. Len(line) + 1 : i \in 1 .. Len(line) \/ i = Len(line) + 1
    BY <2>1
  <2> QED BY <2>1, <2>2 DEF Listable
<1>2. ASSUME NEW names
      PROVE  Places(Append(line, e), names) = {} <=> Places(line, names) = {} /\ e[1] \notin names
  <2>1. Places(Append(line, e), names) =
          Places(line, names) \cup (IF e[1] \in names THEN {Len(line) + 1} ELSE {})
    BY PlacesAppend, Zenon
  <2>2. CASE e[1] \in names
    BY <2>1, <2>2, Zenon
  <2>3. CASE e[1] \notin names
    BY <2>1, <2>3, Zenon
  <2> QED BY <2>2, <2>3
<1>3. ASSUME NEW name
      PROVE  NumberSaid(Append(line, e), name) =
               IF e[1] = name THEN NumberOf[e[2]] ELSE NumberSaid(line, name)
  BY NumberSaidAppend
<1>4. Said(Append(line, e), "--kernel", "all") =
        IF e[1] = "--kernel" THEN e[2] ELSE Said(line, "--kernel", "all")
  BY SaidAppend
<1>5. Listed(Append(line, e)) =
        IF e[1] \in EventOptions THEN Listed(line) \o Parsed(e[2]) ELSE Listed(line)
  <2>1. Listed(line) \in Seq(Events) /\ Listed(Append(line, e)) = Listed(line) \o ListOf(e)
    BY ListedAppend
  <2>2. Listed(line) \o <<>> = Listed(line)
    BY <2>1, ConcatEmptySeq
  <2> QED BY <2>1, <2>2 DEF ListOf
<1> QED BY <1>1, <1>2, <1>3, <1>4, <1>5

LEMMA SizeOfInjective ==
    /\ DOMAIN SizeOf = SizeOptions
    /\ \A o, p \in SizeOptions : SizeOf[o] = SizeOf[p] => o = p
    /\ \A o \in SizeOptions : /\ SizeOf[o] \in Sizes
                              /\ SizeOf[o] = "samples" <=> o = "--samples"
                              /\ SizeOf[o] = "threads" <=> o = "--threads"
BY DEF SizeOf, SizeOptions, Sizes

LEMMA HeardFlag ==
    ASSUME TypeOK, NEW line \in Seq(Seq(STRING)), NEW e \in Seq(STRING), Heard(line),
           argument = e[1], ReadFlag
    PROVE  Heard(Append(line, e))'
<1>1. e[1] \in FlagOptions /\ e[1] \notin SizeOptions /\ e[1] \notin EventOptions /\ e[1] # "--kernel"
  BY DEF ReadFlag, IsFlag, FlagOptions, ModeOptions, SizeOptions, EventOptions
<1>2. /\ Listable(Append(line, e))
      /\ \A names : Places(Append(line, e), names) = {} <=>
                     Places(line, names) = {} /\ e[1] \notin names
      /\ \A name \in SizeOptions : NumberSaid(Append(line, e), name) = NumberSaid(line, name)
      /\ Said(Append(line, e), "--kernel", "all") = Said(line, "--kernel", "all")
      /\ Listed(Append(line, e)) = Listed(line)
  BY <1>1, LineAppend DEF Heard
<1>3. modes' = { m \in ModeOptions : Places(Append(line, e), {m}) # {} }
  BY <1>1, <1>2 DEF Heard, ReadFlag, FlagOptions, ModeOptions
<1>4. request'.verify <=> Places(Append(line, e), {"--no-verify"}) = {}
  BY <1>1, <1>2 DEF Heard, ReadFlag, FlagOptions, ModeOptions, TypeOK
<1>5. /\ \A name \in Sizes : request'[name] = request[name]
      /\ request'.perf_events = request.perf_events
  BY DEF ReadFlag, TypeOK, Sizes
<1>6. Places(Append(line, e), EventOptions) = {} <=> Places(line, EventOptions) = {}
  BY <1>1, <1>2
<1>7. \A name \in SizeOptions : request'[SizeOf[name]] = NumberSaid(Append(line, e), name)
  BY <1>2, <1>5, SizeOfInjective DEF Heard
<1>8. request'.samples > 0 /\ request'.threads > 0 /\ request'.threads <= kBuildMaxThreads
  BY <1>5 DEF Heard, Sizes
<1> QED BY <1>2, <1>3, <1>4, <1>5, <1>6, <1>7, <1>8 DEF Heard, ReadFlag, EventsSoFar

LEMMA HeardKernel ==
    ASSUME TypeOK, NEW line \in Seq(Seq(STRING)), NEW e \in Seq(STRING), Heard(line),
           argument = e[1], value = e[2], ReadKernel
    PROVE  Heard(Append(line, e))'
<1>1. e[1] = "--kernel"
  BY DEF ReadKernel, IsKernel
<1>2. /\ Listable(Append(line, e))
      /\ \A names : Places(Append(line, e), names) = {} <=>
                     Places(line, names) = {} /\ e[1] \notin names
      /\ \A name \in SizeOptions : NumberSaid(Append(line, e), name) = NumberSaid(line, name)
      /\ Said(Append(line, e), "--kernel", "all") = e[2]
      /\ Listed(Append(line, e)) = Listed(line)
  <2>1. Listable(line)
    BY DEF Heard
  <2>2. e[1] \notin EventOptions /\ \A name \in SizeOptions : e[1] # name
    BY <1>1 DEF EventOptions, SizeOptions
  <2> QED BY <1>1, <2>1, <2>2, LineAppend, Zenon
<1>3. \A m \in ModeOptions : Places(Append(line, e), {m}) = {} <=> Places(line, {m}) = {}
  <2>1. \A m \in ModeOptions : e[1] \notin {m}
    BY <1>1 DEF ModeOptions
  <2> QED BY <1>2, <2>1, Zenon
<1>4. /\ Places(Append(line, e), {"--no-verify"}) = {} <=> Places(line, {"--no-verify"}) = {}
      /\ Places(Append(line, e), EventOptions) = {} <=> Places(line, EventOptions) = {}
  <2>1. e[1] \notin {"--no-verify"} /\ e[1] \notin EventOptions
    BY <1>1 DEF EventOptions
  <2> QED BY <1>2, <2>1, Zenon
<1> QED BY <1>2, <1>3, <1>4 DEF Heard, ReadKernel, EventsSoFar

LEMMA HeardSize ==
    ASSUME TypeOK, NEW line \in Seq(Seq(STRING)), NEW e \in Seq(STRING), Heard(line),
           argument = e[1], value = e[2], ReadSize
    PROVE  Heard(Append(line, e))'
<1>1. /\ e[1] \in SizeOptions /\ e[1] \notin EventOptions /\ e[1] # "--kernel"
      /\ e[1] \notin ModeOptions /\ e[1] # "--no-verify"
  BY SizeOfInjective DEF ReadSize, IsSize, ModeOptions, SizeOptions, EventOptions
<1>2. parse_size(value) = NumberOf[e[2]] /\ NumberOf[e[2]] > 0
  BY DEF ReadSize, IsSize, parse_size
<1>3. /\ Listable(Append(line, e))
      /\ \A names : Places(Append(line, e), names) = {} <=>
                     Places(line, names) = {} /\ e[1] \notin names
      /\ \A name \in SizeOptions : NumberSaid(Append(line, e), name) =
                IF e[1] = name THEN NumberOf[e[2]] ELSE NumberSaid(line, name)
      /\ Said(Append(line, e), "--kernel", "all") = Said(line, "--kernel", "all")
      /\ Listed(Append(line, e)) = Listed(line)
  BY <1>1, LineAppend DEF Heard
<1>4. /\ \A m \in ModeOptions : Places(Append(line, e), {m}) = {} <=> Places(line, {m}) = {}
      /\ Places(Append(line, e), {"--no-verify"}) = {} <=> Places(line, {"--no-verify"}) = {}
      /\ Places(Append(line, e), EventOptions) = {} <=> Places(line, EventOptions) = {}
  BY <1>1, <1>3
<1>5. /\ \A name \in Sizes : request'[name] =
               IF name = SizeOf[e[1]] THEN NumberOf[e[2]] ELSE request[name]
      /\ request'.perf_events = request.perf_events /\ request'.verify = request.verify
  BY <1>1, <1>2, SizeOfInjective DEF ReadSize, TypeOK, Sizes
<1>6. \A name \in SizeOptions : request'[SizeOf[name]] = NumberSaid(Append(line, e), name)
  BY <1>1, <1>3, <1>5, SizeOfInjective DEF Heard
<1>7. request'.samples > 0 /\ request'.threads > 0 /\ request'.threads <= kBuildMaxThreads
  <2>1. e[1] = "--threads" => NumberOf[e[2]] <= kBuildMaxThreads
    BY <1>2 DEF ReadSize, IsSize
  <2>2. /\ request'.samples = IF e[1] = "--samples" THEN NumberOf[e[2]] ELSE request.samples
        /\ request'.threads = IF e[1] = "--threads" THEN NumberOf[e[2]] ELSE request.threads
    BY <1>1, <1>5, SizeOfInjective DEF Sizes
  <2> QED BY <1>2, <2>1, <2>2 DEF Heard
<1> QED BY <1>3, <1>4, <1>5, <1>6, <1>7 DEF Heard, ReadSize, EventsSoFar

LEMMA HeardEvents ==
    ASSUME TypeOK, NEW line \in Seq(Seq(STRING)), NEW e \in Seq(STRING), Heard(line),
           argument = e[1], value = e[2], e[2] \in DOMAIN TokensOf, ReadEvents
    PROVE  Heard(Append(line, e))'
<1>1. /\ e[1] \in EventOptions /\ e[1] \notin SizeOptions /\ e[1] # "--kernel"
      /\ e[1] \notin ModeOptions /\ e[1] # "--no-verify"
  BY DEF ReadEvents, IsEvents, ModeOptions, SizeOptions, EventOptions
<1>2. /\ Listable(Append(line, e))
      /\ \A names : Places(Append(line, e), names) = {} <=>
                     Places(line, names) = {} /\ e[1] \notin names
      /\ \A name \in SizeOptions : NumberSaid(Append(line, e), name) = NumberSaid(line, name)
      /\ Said(Append(line, e), "--kernel", "all") = Said(line, "--kernel", "all")
      /\ Listed(Append(line, e)) = Listed(line) \o Parsed(e[2])
  BY <1>1, LineAppend DEF Heard
<1>3. /\ \A m \in ModeOptions : Places(Append(line, e), {m}) = {} <=> Places(line, {m}) = {}
      /\ Places(Append(line, e), {"--no-verify"}) = {} <=> Places(line, {"--no-verify"}) = {}
      /\ Places(Append(line, e), EventOptions) # {}
  BY <1>1, <1>2
<1>4. /\ \A name \in Sizes : request'[name] = request[name]
      /\ request'.perf_events = EventsSoFar \o Parsed(e[2]) /\ request'.verify = request.verify
      /\ perf_events_explicit' = TRUE
  BY DEF ReadEvents, TypeOK, Sizes
<1>5. EventsSoFar' = Listed(Append(line, e))
  BY <1>2, <1>4 DEF EventsSoFar, Heard
<1>6. IsInjective(Names(request'.perf_events))
  BY <1>4 DEF ReadEvents, IsEvents, Appendable
<1>7. \A name \in SizeOptions : request'[SizeOf[name]] = NumberSaid(Append(line, e), name)
  BY <1>2, <1>4, SizeOfInjective DEF Heard
<1>8. request'.samples > 0 /\ request'.threads > 0 /\ request'.threads <= kBuildMaxThreads
  BY <1>4 DEF Heard, Sizes
<1> QED BY <1>2, <1>3, <1>4, <1>5, <1>6, <1>7, <1>8 DEF Heard, ReadEvents

\* An option that is dealt with is one more that has been heard.
LEMMA ReadOption ==
    ASSUME TypeOK, given \in CommandLines, NEW n \in 0 .. Len(given), HeardTo(n),
           ReadFlag \/ ReadKernel \/ ReadSize \/ ReadEvents
    PROVE  /\ UNCHANGED <<given, stage, exit>>
           /\ n + 1 \in 0 .. Len(given)
           /\ HeardTo(n + 1)'
<1>0. PICK line, e : line = SubSeq(given, 1, n) /\ e = given[n + 1]
  OBVIOUS
<1>1. Len(given) \in Nat /\ (n = Len(given) => position > Len(argv)) /\ position = Len(Words(n)) + 1
  BY WordsAt DEF HeardTo
<1>2. Reading
  BY DEF ReadFlag, ReadKernel, ReadSize, ReadEvents
<1>3. n < Len(given) /\ n + 1 \in 0 .. Len(given)
  <2>1. n # Len(given)
    <3>1. argv \in Seq(STRING)
      <4>1. <<>> \in Seq(STRING) /\ given \in Seq(Seq(STRING))
        BY CommandLineAssumption
      <4> QED BY <4>1, FlattenAppend DEF argv
    <3>2. Len(argv) \in Nat
      BY <3>1
    <3>3. position \in Nat
      <4>1. <<>> \in Seq(STRING) /\ given \in Seq(Seq(STRING))
        BY CommandLineAssumption
      <4>2. SubSeq(given, 1, n) \in Seq(Seq(STRING))
        BY <4>1
      <4>3. Words(n) \in Seq(STRING)
        BY <4>1, <4>2, FlattenAppend DEF Words
      <4> QED BY <1>1, <4>3
    <3> QED BY <1>1, <1>2, <3>2, <3>3 DEF Reading
  <2> QED BY <1>1, <2>1
<1>4. /\ line \in Seq(Seq(STRING)) /\ e \in Seq(STRING) /\ argument = e[1]
      /\ Len(e) = 2 => HasValue /\ value = e[2]
      /\ e[1] \in ValueOptions /\ HasValue => Len(e) = 2
      /\ e[1] \notin ValueOptions => Len(e) = 1
      /\ position + Len(e) = Len(Words(n + 1)) + 1
      /\ SubSeq(given, 1, n + 1) = Append(line, e)
      /\ e[1] \in EventOptions /\ Len(e) = 2 => e[2] \in DOMAIN TokensOf
  BY <1>0, <1>1, <1>3, WordsAt
<1>5. Heard(line)
  BY <1>0 DEF HeardTo
<1>6. UNCHANGED <<given, stage, exit>>
  BY DEF ReadFlag, ReadKernel, ReadSize, ReadEvents, Read
<1>7. Heard(Append(line, e))' /\ position' = position + Len(e)
  <2>1. CASE ReadFlag
    <3>1. Heard(Append(line, e))'
      BY <1>4, <1>5, <2>1, HeardFlag
    <3>2. e[1] \notin ValueOptions
      BY <1>4, <2>1 DEF ReadFlag, IsFlag, FlagOptions, ModeOptions, ValueOptions, SizeOptions,
         EventOptions
    <3> QED BY <1>4, <2>1, <3>1, <3>2 DEF ReadFlag, Read
  <2>2. CASE ReadKernel
    <3>1. e[1] \in ValueOptions /\ HasValue
      BY <1>4, <2>2 DEF ReadKernel, IsKernel, ValueOptions
    <3>2. Heard(Append(line, e))'
      BY <1>4, <1>5, <2>2, <3>1, HeardKernel
    <3> QED BY <1>4, <2>2, <3>1, <3>2 DEF ReadKernel, Read
  <2>3. CASE ReadSize
    <3>1. e[1] \in ValueOptions /\ HasValue
      BY <1>4, <2>3, SizeOfInjective DEF ReadSize, IsSize, ValueOptions
    <3>2. Heard(Append(line, e))'
      BY <1>4, <1>5, <2>3, <3>1, HeardSize
    <3> QED BY <1>4, <2>3, <3>1, <3>2 DEF ReadSize, Read
  <2>4. CASE ReadEvents
    <3>1. e[1] \in ValueOptions /\ e[1] \in EventOptions /\ HasValue
      BY <1>4, <2>4 DEF ReadEvents, IsEvents, ValueOptions
    <3>2. Heard(Append(line, e))'
      BY <1>4, <1>5, <2>4, <3>1, HeardEvents
    <3> QED BY <1>4, <2>4, <3>1, <3>2 DEF ReadEvents, Read
  <2> QED BY <2>1, <2>2, <2>3, <2>4
<1>8. HeardTo(n + 1)'
  <2>1. SubSeq(given', 1, n + 1) = Append(line, e)
    BY <1>4, <1>6
  <2>2. position' = Len(FlattenSeq(SubSeq(given', 1, n + 1))) + 1
    BY <1>4, <1>6, <1>7 DEF Words
  <2> QED BY <1>7, <2>1, <2>2 DEF HeardTo, Words
<1> QED BY <1>3, <1>6, <1>8

\* At the end of the words every option has been read.
LEMMA AllHeard ==
    ASSUME given \in CommandLines, NEW n \in 0 .. Len(given), HeardTo(n), AllRead
    PROVE  Heard(given)
<1>1. /\ given \in Seq(Seq(STRING)) /\ Len(given) \in Nat
      /\ n < Len(given) => position <= Len(argv)
  BY WordsAt DEF HeardTo
<1>2. Len(argv) \in Nat /\ position \in Nat
  <2>1. <<>> \in Seq(STRING) /\ SubSeq(given, 1, n) \in Seq(Seq(STRING))
    BY <1>1
  <2>2. argv \in Seq(STRING) /\ Words(n) \in Seq(STRING)
    BY <1>1, <2>1, FlattenAppend DEF argv, Words
  <2> QED BY <2>2 DEF HeardTo
<1>3. n = Len(given)
  BY <1>1, <1>2 DEF AllRead
<1> QED BY <1>1, <1>3, SubSeqFull DEF HeardTo

LEMMA HeardUnchanged ==
    ASSUME NEW line, Heard(line), UNCHANGED <<request, selected, modes, perf_events_explicit>>
    PROVE  Heard(line)'
BY DEF Heard, EventsSoFar

LEMMA ReadInit == Init => ReadInv
<1> SUFFICES ASSUME Init PROVE ReadInv
  OBVIOUS
<1>1. /\ given \in CommandLines /\ position = 1 /\ request = DefaultRequest /\ selected = "all"
      /\ modes = {} /\ perf_events_explicit = FALSE /\ stage = "arguments" /\ exit = -1
  BY DEF Init, CommandInit
<1>2. given \in Seq(Seq(STRING)) /\ Len(given) \in Nat /\ SubSeq(given, 1, 0) = <<>>
  BY <1>1, CommandLineAssumption
<1>3. FlattenSeq(<<>>) = <<>> /\ Len(<<>>) = 0 /\ DOMAIN <<>> = {}
  BY DEF FlattenSeq
<1>4. \A names : Places(<<>>, names) = {}
  BY <1>3 DEF Places
<1>5. Listed(<<>>) = <<>>
  <2>1. [i \in DOMAIN <<>> |-> IF <<>>[i][1] \in EventOptions THEN Parsed(<<>>[i][2]) ELSE <<>>] = <<>>
    BY <1>3
  <2> QED BY <1>3, <2>1 DEF Listed
<1>6. IsInjective(Names(<< cycles_event >>))
  BY DEF Names, IsInjective
<1>7. Heard(<<>>)
  <2>1. \A name \in SizeOptions : request[SizeOf[name]] = NumberSaid(<<>>, name)
    BY <1>1, <1>4 DEF NumberSaid
  <2>2. /\ request.samples > 0 /\ request.threads > 0 /\ request.threads <= kBuildMaxThreads
        /\ request.verify /\ request.perf_events = << cycles_event >>
    BY <1>1, CommandLineAssumption DEF DefaultRequest
  <2> QED BY <1>1, <1>3, <1>4, <1>5, <1>6, <2>1, <2>2 DEF Heard, Listable, Said, EventsSoFar
<1>8. HeardTo(0)
  <2>1. Words(0) = <<>>
    BY <1>2, <1>3, Zenon DEF Words
  <2>2. position = Len(Words(0)) + 1
    BY ONLY <1>1, <1>3, <2>1
  <2> QED BY <1>2, <1>7, <2>2, Zenon DEF HeardTo
<1> QED BY <1>1, <1>2, <1>8 DEF ReadInv

LEMMA ReadNext == IInv /\ ReadInv /\ [Next]_vars => ReadInv'
<1> SUFFICES ASSUME IInv, ReadInv, [Next]_vars PROVE ReadInv'
  OBVIOUS
<1>1. TypeOK
  BY DEF IInv
<1>2. CASE UNCHANGED command
  <2>1. ASSUME NEW n \in 0 .. Len(given), HeardTo(n) PROVE HeardTo(n)'
    <3>1. PICK line : line = SubSeq(given, 1, n)
      OBVIOUS
    <3>2. Heard(line)'
      BY <1>2, <2>1, <3>1, HeardUnchanged DEF HeardTo, command
    <3>3. SubSeq(given', 1, n) = line /\ position' = position
      BY <1>2, <3>1 DEF command
    <3> QED BY <2>1, <3>1, <3>2, <3>3 DEF HeardTo, Words
  <2>2. Heard(given) => Heard(given)'
    BY <1>2 DEF command, Heard, EventsSoFar
  <2> QED BY <1>2, <2>1, <2>2 DEF ReadInv, command, HasShape, IsRegistered
<1>3. CASE Finish
  <2>1. Heard(given)
    BY <1>3 DEF Finish, ReadInv
  <2>2. Heard(given)'
    BY <1>3, <2>1 DEF Finish, Leave, Heard, EventsSoFar
  <2> QED BY <1>3, <2>2 DEF Finish, Leave, ReadInv
<1>4. CASE Command
  <2>1. CommandNext /\ stage = "arguments"
    BY <1>1, <1>4, CommandFacts DEF Command
  <2>2. PICK n \in 0 .. Len(given) : HeardTo(n)
    BY <2>1 DEF ReadInv
  <2>3. given \in CommandLines /\ exit = -1
    BY <2>1 DEF ReadInv
  <2>4. CASE ReadFlag \/ ReadKernel \/ ReadSize \/ ReadEvents
    BY <1>1, <2>1, <2>2, <2>3, <2>4, ReadOption DEF ReadInv
  <2>5. CASE BadArgument \/ RejectPlatform \/ NoShape \/ UnknownKernel
    BY <2>3, <2>5 DEF BadArgument, RejectPlatform, NoShape, UnknownKernel, Leave, ReadInv
  <2>6. CASE BuildInfo \/ Inform \/ StartRunning
    <3>1. Heard(given)
      BY <2>2, <2>3, <2>6, AllHeard DEF BuildInfo, Inform, StartRunning
    <3>2. Heard(given)' /\ given' = given
      <4>1. UNCHANGED <<given, request, selected, modes, perf_events_explicit>>
        BY <2>6 DEF BuildInfo, Inform, StartRunning, Leave
      <4> QED BY <3>1, <4>1, Zenon DEF Heard, EventsSoFar
    <3>3. stage' = "run" => (HasShape /\ IsRegistered)'
      BY <2>6 DEF BuildInfo, Inform, StartRunning, Leave, HasShape, IsRegistered
    <3>4. stage' # "arguments"
      BY <2>6 DEF BuildInfo, Inform, StartRunning, Leave
    <3> QED BY <2>3, <3>2, <3>3, <3>4 DEF ReadInv
  <2> QED BY <2>1, <2>4, <2>5, <2>6 DEF CommandNext
<1>5. Next => Command \/ Finish \/ UNCHANGED command
  BY DEF Next, NextType, NextKernel, Validate, Prepare, Verify, WarmUp, CalibrateOpen,
     CalibrateReset, CalibrateStart, Calibrate, OpenCounters, SampleReset, SampleStart,
     SampleRun, SampleRead, Report, Return, PrintResult, vars, driver
<1>6. UNCHANGED vars => UNCHANGED command
  BY DEF vars, driver
<1> QED BY <1>2, <1>3, <1>4, <1>5, <1>6

\* Whatever the order and number of the options, what is known of the request when
\* the loops begin is what the whole command line says.
THEOREM RunsAsAskedAlways == Spec => []RunsAsAsked
<1>1. ASSUME IInv, ReadInv PROVE RunsAsAsked
  <2> SUFFICES ASSUME stage = "run" PROVE RunsAsAsked
    BY DEF RunsAsAsked
  <2>1. Heard(given) /\ HasShape /\ IsRegistered
    BY <1>1 DEF ReadInv
  <2>2. modes = {} /\ PlatformVerified /\ Chosen \subseteq Kernels
    BY <1>1 DEF IInv, LoopInv
  <2>3. Places(given, ModeOptions) = {}
    <3>1. \A m \in ModeOptions : Places(given, {m}) = {}
      BY <2>1, <2>2 DEF Heard
    <3> QED BY <3>1 DEF Places
  <2>4. \A name \in DOMAIN SizeOf :
          /\ request[SizeOf[name]] = NumberSaid(given, name)
          /\ name # "--warmup" /\ name # "--iterations" => request[SizeOf[name]] > 0
    <3>1. \A name \in SizeOptions : request[SizeOf[name]] = NumberSaid(given, name)
      BY <2>1 DEF Heard
    <3>2. /\ request.m > 0 /\ request.n > 0 /\ request.k > 0
          /\ request.samples > 0 /\ request.threads > 0
      BY <2>1 DEF Heard, HasShape
    <3>3. /\ SizeOf["--m"] = "m" /\ SizeOf["--n"] = "n" /\ SizeOf["--k"] = "k"
          /\ SizeOf["--samples"] = "samples" /\ SizeOf["--threads"] = "threads"
      BY DEF SizeOf, SizeOptions
    <3>4. \A name \in SizeOptions : \/ name \in {"--warmup", "--iterations", "--m", "--n"}
                                    \/ name \in {"--k", "--samples", "--threads"}
      BY DEF SizeOptions
    <3> QED BY <3>1, <3>2, <3>3, <3>4, SizeOfInjective
  <2>5. /\ request.threads <= kBuildMaxThreads
        /\ request.verify = (Places(given, {"--no-verify"}) = {})
        /\ IsInjective(Names(request.perf_events))
    BY <1>1, <2>1 DEF Heard, IInv, TypeOK
  <2>6. request.perf_events =
          IF Places(given, EventOptions) = {} THEN << cycles_event >> ELSE Listed(given)
    BY <2>1 DEF Heard, EventsSoFar
  <2>7. LET name == Said(given, "--kernel", "all")
        IN  Chosen = (IF name = "all" THEN Kernels ELSE {name})
    BY <2>1 DEF Heard, Chosen
  <2> QED BY <2>2, <2>3, <2>4, <2>5, <2>6, <2>7 DEF RunsAsAsked, PlatformVerified
<1> QED BY <1>1, ReadInit, ReadNext, Invariance, PTL DEF Spec

\* The exit status tells what became of every kernel, given what the command line
\* asks for.
THEOREM ExitTellsAllAlways == Spec => []ExitTellsAll
<1>1. ASSUME IInv, ReadInv, ExitTells(modes) PROVE ExitTellsAll
  <2> DEFINE asked == { option[1] : option \in ToSet(given) } \intersect ModeOptions
  <2>1. exit \in {0, 1} => modes = asked
    <3> SUFFICES ASSUME exit \in {0, 1} PROVE modes = asked
      OBVIOUS
    <3>1. Heard(given)
      BY <1>1 DEF ReadInv
    <3>2. \A m \in ModeOptions : m \in asked <=> Places(given, {m}) # {}
      BY DEF Places, ToSet
    <3> HIDE DEF asked
    <3>3. modes = { m \in ModeOptions : Places(given, {m}) # {} }
      BY <3>1 DEF Heard
    <3>4. asked \subseteq ModeOptions
      BY DEF asked
    <3> QED BY <3>2, <3>3, <3>4
  <2> HIDE DEF asked
  <2>2. ExitTells(asked)
    BY <1>1, <2>1 DEF ExitTells
  <2> QED BY <2>2 DEF ExitTellsAll, asked
<1> QED BY <1>1, ReadInit, ReadNext, Invariance, ExitTellsModes, PTL DEF Spec
=============================================================================
