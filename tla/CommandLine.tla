----------------------------- MODULE CommandLine -----------------------------
(***************************************************************************)
(* main() of the benchmark up to its loops (bench/main.cpp): the arguments *)
(* are read one by one, each overwriting what an earlier one said; then    *)
(* the runtime platform is verified (bench/framework/platform.cpp) and one *)
(* of five things is done.                                                 *)
(*                                                                         *)
(* A text is a string; what strtoull, the split at commas and the parts of *)
(* raw:NAME:CONFIG make of the texts in use is given by three functions.   *)
(***************************************************************************)
EXTENDS Integers, Sequences, SequencesExt, Functions

CONSTANTS
    Kernels,             \* the ids of the registered kernels
    CommandLines,        \* what may be asked: sequences of options, <<name>> or <<name, value>>
    DeviceTrees,         \* what the Device Tree may list as compatible; <<>> if it cannot be read
    BuildCompatibles,    \* kBuildDeviceTreeCompatibles
    kBuildMaxThreads,
    NumberOf,            \* texts that are a decimal number to the last character
    RawNumbers,          \* those that are a number in base 8, 10 or 16, by their prefix
    TokensOf,            \* texts split at commas
    RawOf                \* tokens raw:NAME:CONFIG, as [name, config]

\* The options, and those that take a value.
ModeOptions == {"--list", "--build-info", "--platform-info", "--check-platform"}
FlagOptions == ModeOptions \union {"--no-verify"}
SizeOptions == {"--m", "--n", "--k", "--warmup", "--samples", "--iterations", "--threads"}
EventOptions == {"--perf-events", "--perf-event"}
ValueOptions == SizeOptions \union EventOptions \union {"--kernel"}

\* The words of a command line, cut into options: one that takes a value stands
\* with the next word, whatever that is, unless there is none.  Every sequence of
\* words can be cut in this way, and in no other.
IsCut(line) ==
    \A i \in DOMAIN line :
        IF line[i][1] \in ValueOptions
        THEN Len(line[i]) = 2 \/ (Len(line[i]) = 1 /\ i = Len(line))
        ELSE Len(line[i]) = 1

ASSUME CommandLineAssumption ==
    /\ CommandLines \subseteq Seq(Seq(STRING))
    /\ \A line \in CommandLines : IsCut(line)
    /\ DeviceTrees \subseteq Seq(STRING)
    /\ kBuildMaxThreads \in Nat \ {0}
    /\ \A text \in DOMAIN NumberOf : NumberOf[text] \in Nat
    /\ \A text \in DOMAIN TokensOf : TokensOf[text] \in Seq(STRING) \ {<<>>}
    /\ \A line \in CommandLines : \A i \in DOMAIN line :
          line[i][1] \in EventOptions /\ Len(line[i]) = 2 => line[i][2] \in DOMAIN TokensOf

VARIABLES
    given,               \* the command line
    compatibles,         \* the Device Tree
    position,            \* the index of the argument loop
    request,             \* BenchmarkRequest
    selected,            \* what --kernel names
    modes,               \* which of list, build_info, platform_info, check_platform are set
    perf_events_explicit,
    stage,               \* "arguments", "run" or "exit"
    exit                 \* the exit status

command == <<given, compatibles, position, request, selected, modes, perf_events_explicit, stage, exit>>

argv == FlattenSeq(given)
argument == argv[position]
HasValue == position < Len(argv)
value == argv[position + 1]

----------------------------------------------------------------------------
(* The parsers.                                                             *)

\* parse_size: zero, rubbish and what does not fit are refused.
parse_size(text) == IF text \in DOMAIN NumberOf THEN NumberOf[text] ELSE 0

HardwareEvents == {"cycles", "instructions"}
SoftwareEvents == {"task-clock", "page-faults"}
CacheEvents == {"dtlb-access", "dtlb-miss", "l1d-access", "l1d-miss", "llc-access", "llc-miss"}

Event(name, type) == [name |-> name, type |-> type]
cycles_event == Event("cycles", "hardware")
NoEvent == Event("none", "none")

parse_perf_event(text) ==
    CASE text \in HardwareEvents -> Event(text, "hardware")
      [] text \in SoftwareEvents -> Event(text, "software")
      [] text \in CacheEvents -> Event(text, "cache")
      [] text \in DOMAIN RawOf /\ RawOf[text].name # "" /\ RawOf[text].config \in RawNumbers
           -> Event(RawOf[text].name, "raw")
      [] OTHER -> NoEvent

\* One comma may end a list; nothing stands for an empty one.
Tokens(list) == IF Last(TokensOf[list]) = "" THEN Front(TokensOf[list]) ELSE TokensOf[list]

Parsed(list) == [i \in DOMAIN Tokens(list) |-> parse_perf_event(Tokens(list)[i])]

Names(events) == [i \in DOMAIN events |-> events[i].name]

\* Fault: only the events of one list are compared with each other.
AppendableWithinList(list, events) ==
    /\ NoEvent \notin ToSet(Parsed(list))
    /\ IsInjective(Names(Parsed(list)))

\* append_perf_events: every token is an event, and no two have one name.
Appendable(list, events) ==
    /\ NoEvent \notin ToSet(Parsed(list))
    /\ IsInjective(Names(events \o Parsed(list)))

----------------------------------------------------------------------------
(* The argument loop.                                                       *)

DefaultRequest ==
    [m |-> 0, n |-> 0, k |-> 0, warmup |-> 3, samples |-> 10, iterations |-> 0, threads |-> 1,
     verify |-> TRUE, perf_events |-> << cycles_event >>]

\* The number of the request that an option sets.
SizeOf == [option \in SizeOptions |->
    CASE option = "--m" -> "m" [] option = "--n" -> "n" [] option = "--k" -> "k"
      [] option = "--warmup" -> "warmup" [] option = "--samples" -> "samples"
      [] option = "--iterations" -> "iterations" [] option = "--threads" -> "threads"]

CommandInit ==
    /\ given \in CommandLines /\ compatibles \in DeviceTrees
    /\ position = 1 /\ request = DefaultRequest /\ selected = "all"
    /\ modes = {} /\ perf_events_explicit = FALSE
    /\ stage = "arguments" /\ exit = -1

Reading == stage = "arguments" /\ position <= Len(argv)

\* The argument, or it and the next one, are dealt with.
Read(count) == position' = position + count /\ UNCHANGED <<given, compatibles, stage, exit>>

Leave(status) ==
    /\ stage' = "exit" /\ exit' = status
    /\ UNCHANGED <<given, compatibles, position, request, selected, modes, perf_events_explicit>>

IsFlag == argument \in FlagOptions

ReadFlag ==
    /\ Reading /\ IsFlag
    /\ IF argument = "--no-verify"
       THEN request' = [request EXCEPT !.verify = FALSE] /\ UNCHANGED modes
       ELSE modes' = modes \union {argument} /\ UNCHANGED request
    /\ Read(1)
    /\ UNCHANGED <<selected, perf_events_explicit>>

IsKernel == argument = "--kernel" /\ HasValue

ReadKernel ==
    /\ Reading /\ IsKernel
    /\ selected' = value
    /\ Read(2)
    /\ UNCHANGED <<request, modes, perf_events_explicit>>

IsSize ==
    /\ argument \in DOMAIN SizeOf /\ HasValue /\ parse_size(value) > 0
    /\ argument = "--threads" => parse_size(value) <= kBuildMaxThreads

ReadSize ==
    /\ Reading /\ IsSize
    /\ request' = [request EXCEPT ![SizeOf[argument]] = parse_size(value)]
    /\ Read(2)
    /\ UNCHANGED <<selected, modes, perf_events_explicit>>

\* The first list takes the place of the default, the others are appended.
EventsSoFar == IF perf_events_explicit THEN request.perf_events ELSE <<>>

IsEvents == argument \in EventOptions /\ HasValue /\ Appendable(value, EventsSoFar)

\* Fault: every list starts over.
ReadEventsAfresh ==
    /\ Reading /\ IsEvents
    /\ request' = [request EXCEPT !.perf_events = Parsed(value)]
    /\ perf_events_explicit' = TRUE
    /\ Read(2)
    /\ UNCHANGED <<selected, modes>>

ReadEvents ==
    /\ Reading /\ IsEvents
    /\ request' = [request EXCEPT !.perf_events = EventsSoFar \o Parsed(value)]
    /\ perf_events_explicit' = TRUE
    /\ Read(2)
    /\ UNCHANGED <<selected, modes>>

\* Anything else: an unknown argument, one without its value or with a wrong one.
BadArgument ==
    /\ Reading /\ ~ (IsFlag \/ IsKernel \/ IsSize \/ IsEvents)
    /\ Leave(2)

----------------------------------------------------------------------------
(* What is done.                                                            *)

\* detect_runtime_platform and verify_runtime_platform: one of the compatible
\* strings is one that the target was built for.
PlatformVerified == \E c \in BuildCompatibles : Contains(compatibles, c)

AllRead == stage = "arguments" /\ position > Len(argv)

BuildInfo ==
    /\ AllRead /\ "--build-info" \in modes
    /\ Leave(0)

RejectPlatform ==
    /\ AllRead /\ "--build-info" \notin modes /\ ~ PlatformVerified
    /\ Leave(3)

\* Fault: the list comes before the platform is looked at.
InformBeforeCheck ==
    /\ AllRead /\ "--build-info" \notin modes
    /\ modes # {}
    /\ Leave(0)

\* --platform-info, --check-platform and --list, on the right platform.
Inform ==
    /\ AllRead /\ "--build-info" \notin modes /\ PlatformVerified
    /\ modes # {}
    /\ Leave(0)

HasShape == request.m > 0 /\ request.n > 0 /\ request.k > 0

\* find_kernel
IsRegistered == selected = "all" \/ selected \in Kernels

Chosen == IF selected = "all" THEN Kernels ELSE {selected}

NoShape ==
    /\ AllRead /\ modes = {} /\ PlatformVerified /\ ~ HasShape
    /\ Leave(2)

UnknownKernel ==
    /\ AllRead /\ modes = {} /\ PlatformVerified /\ HasShape /\ ~ IsRegistered
    /\ Leave(2)

StartRunning ==
    /\ AllRead /\ modes = {} /\ PlatformVerified /\ HasShape /\ IsRegistered
    /\ stage' = "run"
    /\ UNCHANGED <<given, compatibles, position, request, selected, modes, perf_events_explicit, exit>>

CommandNext ==
    \/ ReadFlag \/ ReadKernel \/ ReadSize \/ ReadEvents \/ BadArgument
    \/ BuildInfo \/ RejectPlatform \/ Inform \/ NoShape \/ UnknownKernel \/ StartRunning

----------------------------------------------------------------------------
\* Where a line has an option of these names.
Places(line, names) == { i \in DOMAIN line : line[i][1] \in names }

\* What it says of one; the last word counts.
Said(line, name, default) ==
    IF Places(line, {name}) = {} THEN default ELSE line[Max(Places(line, {name}))][2]

\* The number it sets.
NumberSaid(line, name) ==
    IF Places(line, {name}) = {} THEN DefaultRequest[SizeOf[name]] ELSE NumberOf[Said(line, name, "")]

\* The events of all its lists, in order.
Listed(line) ==
    FlattenSeq([i \in DOMAIN line |->
                  IF line[i][1] \in EventOptions THEN Parsed(line[i][2]) ELSE <<>>])

\* Kernels run only if no information was asked for, on a verified platform; and
\* what they run with is what the command line says in the order it says it:
\* the last value of each option, and the events of all lists, none twice, the
\* default only if there is no list.
RunsAsAsked ==
    stage = "run" =>
        /\ Places(given, ModeOptions) = {}
        /\ \E c \in BuildCompatibles : Contains(compatibles, c)
        /\ \A name \in DOMAIN SizeOf :
             /\ request[SizeOf[name]] = NumberSaid(given, name)
             /\ name # "--warmup" /\ name # "--iterations" => request[SizeOf[name]] > 0
        /\ request.threads <= kBuildMaxThreads
        /\ request.verify = (Places(given, {"--no-verify"}) = {})
        /\ request.perf_events =
             IF Places(given, EventOptions) = {} THEN << cycles_event >> ELSE Listed(given)
        /\ IsInjective(Names(request.perf_events))
        /\ LET name == Said(given, "--kernel", "all")
           IN  Chosen = (IF name = "all" THEN Kernels ELSE {name})
        /\ Chosen \subseteq Kernels
==============================================================================
