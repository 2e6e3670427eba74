----------------------------- MODULE WorkerProofs -----------------------------
(***************************************************************************)
(* What a worker of the benchmark does between its barriers, and what the  *)
(* vector kernels compute that it measures.                                *)
(*                                                                         *)
(* First one measured point for any number of workers and samples.  Where  *)
(* a worker is tells how many waits it has begun and finished; nobody is   *)
(* through a wait that somebody has not reached, so workers in different   *)
(* phases never meet.  That windows which overlap pairwise have a moment   *)
(* in common rests on the one clock all workers read.                      *)
(*                                                                         *)
(* Then the vector kernels for any shape, panel length and number of       *)
(* iterations: that what each of them reads is what its prepare() put      *)
(* there, for every row, lane and index; and that its loops add every      *)
(* block of a tile once.                                                   *)
(***************************************************************************)
EXTENDS MeasureRun, RvvTile, SequenceTheorems, TLAPS


Stages == {"pin", "map", "open", "warm", "ready", "begin", "start", "measuring", "uncounted",
           "stopped", "done", "release", "gone"}

ReadingValues == {"none", "bad", "empty", "multiplexed", "good"}

TypeOK ==
    /\ program \in Programs
    /\ stage \in [Cpus -> Stages]
    /\ prepared \in [Cpus -> BOOLEAN]
    /\ mapped \in [Cpus -> BOOLEAN]
    /\ counters \in [Cpus -> Descriptors]
    /\ arrived \in [Cpus -> 0 .. 2]
    /\ passed \in [Cpus -> 0 .. 2]
    /\ begin \in [Cpus -> Nat]
    /\ end \in [Cpus -> Nat]
    /\ clock \in Nat
    /\ reading \in [Cpus -> ReadingValues]
    /\ ok \in [Cpus -> BOOLEAN]
    /\ together \in BOOLEAN
    /\ sample \in 1 .. Samples
    /\ verdict \in {"none", "accepted", "rejected"}

\* The waits a worker has begun and finished, by where it is.
WaitsInv(w) ==
    /\ stage[w] \in SettingUp => arrived[w] = 0 /\ passed[w] = 0
    /\ stage[w] = "ready" => arrived[w] \in {0, 1} /\ passed[w] = 0
    /\ stage[w] \in {"begin"} \cup Window => arrived[w] = 1 /\ passed[w] = 1
    /\ stage[w] = "done" => arrived[w] \in {1, 2} /\ passed[w] = 1 /\ WaitsTwice
    /\ stage[w] \in {"release", "gone"} =>
         arrived[w] = passed[w] /\ passed[w] = IF WaitsTwice THEN 2 ELSE 1

\* What a worker has measured and holds, by where it is.
ResultInv(w) ==
    /\ stage[w] \in {"begin"} \cup Window => prepared[w]
    /\ stage[w] # "gone" => ~ ok[w]
    /\ ok[w] => prepared[w] /\ Fine(reading[w])
    /\ stage[w] = "gone" => counters[w] = {} /\ (mapped[w] => ~ Tidy /\ ~ prepared[w])
    /\ end[w] < clock

\* Nobody is through a wait that somebody has not reached.
BarrierInv == \A w, u \in Cpus : passed[w] <= arrived[u]

\* The window of a worker is open or was; it was and is closed.
Closed(w) == prepared[w] /\ stage[w] \in {"done", "release", "gone"}
Opened(w) == stage[w] \in Window \/ Closed(w)

\* Windows that all overlap have a moment in common.
TogetherInv ==
    /\ AsksOverlap
    /\ \A w \in Cpus : Opened(w)
    /\ \A w, u \in Cpus : Closed(w) => begin[u] < end[w]
    => together

VerdictInv ==
    /\ verdict # "none" => \A w \in Cpus : stage[w] = "gone"
    /\ verdict = "accepted" => AllOk /\ (AsksOverlap => Overlap)

IInv ==
    /\ TypeOK
    /\ \A w \in Cpus : WaitsInv(w) /\ ResultInv(w)
    /\ BarrierInv
    /\ TogetherInv
    /\ VerdictInv

----------------------------------------------------------------------------
LEMMA InitInv == Init => IInv
<1> SUFFICES ASSUME Init PROVE IInv
  OBVIOUS
<1>1. Samples \in Nat /\ Samples > 0 /\ Cpus # {}
  BY MeasureRunAssumption
<1>2. TypeOK
  <2>1. counters \in [Cpus -> Descriptors]
    BY DEF Init, Fresh, Descriptors
  <2>2. stage \in [Cpus -> Stages]
    BY DEF Init, Fresh, Stages
  <2>3. arrived \in [Cpus -> 0 .. 2] /\ passed \in [Cpus -> 0 .. 2]
    BY DEF Init, Barrier!Init
  <2>4. reading \in [Cpus -> ReadingValues]
    BY DEF Init, Fresh, ReadingValues
  <2>5. prepared \in [Cpus -> BOOLEAN] /\ mapped \in [Cpus -> BOOLEAN] /\ ok \in [Cpus -> BOOLEAN]
    BY Zenon DEF Init, Fresh
  <2>6. begin \in [Cpus -> Nat] /\ end \in [Cpus -> Nat] /\ clock \in Nat
    BY DEF Init, Fresh
  <2>7. sample \in 1 .. Samples
    BY <1>1 DEF Init
  <2>8. program \in Programs /\ together \in BOOLEAN /\ verdict \in {"none", "accepted", "rejected"}
    BY Zenon DEF Init
  <2> QED BY ONLY <2>1, <2>2, <2>3, <2>4, <2>5, <2>6, <2>7, <2>8, Zenon DEF TypeOK
<1>3. \A w \in Cpus : WaitsInv(w) /\ ResultInv(w)
  BY DEF Init, Fresh, Barrier!Init, WaitsInv, ResultInv, SettingUp, Window
<1>4. BarrierInv
  BY DEF Init, Barrier!Init, BarrierInv
<1>5. TogetherInv
  BY <1>1 DEF Init, Fresh, TogetherInv, Opened, Closed, Window
<1>6. VerdictInv
  BY DEF Init, VerdictInv
<1> QED BY <1>2, <1>3, <1>4, <1>5, <1>6 DEF IInv

\* A step of worker w: its own entries change, nobody else's do.
LEMMA WorkFrame ==
    ASSUME TypeOK, NEW w \in Cpus, Work(w), UNCHANGED program
    PROVE  /\ TypeOK'
           /\ UNCHANGED <<program, sample, verdict>>
           /\ clock' >= clock
           /\ \A u \in Cpus : u # w =>
                /\ stage'[u] = stage[u] /\ prepared'[u] = prepared[u]
                /\ mapped'[u] = mapped[u] /\ counters'[u] = counters[u]
                /\ arrived'[u] = arrived[u] /\ passed'[u] = passed[u]
                /\ begin'[u] = begin[u] /\ end'[u] = end[u]
                /\ reading'[u] = reading[u] /\ ok'[u] = ok[u]
<1> USE DEF TypeOK, Stages, ReadingValues
<1>1. ASSUME NEW here, NEW next \in Stages, SetUp(w, here, next),
             mapped' \in [Cpus -> BOOLEAN], counters' \in [Cpus -> Descriptors],
             \A u \in Cpus : u # w => mapped'[u] = mapped[u] /\ counters'[u] = counters[u]
      PROVE  /\ TypeOK'
             /\ UNCHANGED <<program, sample, verdict>> /\ clock' >= clock
             /\ \A u \in Cpus : u # w =>
                  /\ stage'[u] = stage[u] /\ prepared'[u] = prepared[u]
                  /\ mapped'[u] = mapped[u] /\ counters'[u] = counters[u]
                  /\ arrived'[u] = arrived[u] /\ passed'[u] = passed[u]
                  /\ begin'[u] = begin[u] /\ end'[u] = end[u]
                  /\ reading'[u] = reading[u] /\ ok'[u] = ok[u]
  <2>1. PICK good \in BOOLEAN :
          /\ prepared' = [prepared EXCEPT ![w] = good]
          /\ Go(w, IF good THEN next ELSE "ready")
    BY <1>1 DEF SetUp
  <2>2. stage' \in [Cpus -> Stages] /\ \A u \in Cpus : u # w => stage'[u] = stage[u]
    BY <1>1, <2>1 DEF Go
  <2>3. prepared' \in [Cpus -> BOOLEAN] /\ \A u \in Cpus : u # w => prepared'[u] = prepared[u]
    BY <2>1
  <2> QED BY <1>1, <2>2, <2>3 DEF SetUp
<1>2. CASE Pin(w)
  BY <1>1, <1>2 DEF Pin
<1>3. CASE Map(w)
  <2>1. PICK buffer \in Buffers : mapped' = [mapped EXCEPT ![w] = buffer.held]
    BY <1>3 DEF Map
  <2>2. buffer.held \in BOOLEAN
    <3>1. buffer \in { [held |-> TRUE, usable |-> TRUE], [held |-> FALSE, usable |-> FALSE],
                       [held |-> TRUE, usable |-> FALSE] }
      BY DEF Buffers
    <3>2. CASE buffer = [held |-> TRUE, usable |-> TRUE]
      BY <3>2
    <3>3. CASE buffer = [held |-> FALSE, usable |-> FALSE]
      BY <3>3
    <3>4. CASE buffer = [held |-> TRUE, usable |-> FALSE]
      BY <3>4
    <3> QED BY <3>1, <3>2, <3>3, <3>4
  <2> QED BY <1>1, <1>3, <2>1, <2>2 DEF Map
<1>4. CASE OpenCounters(w)
  BY <1>1, <1>4 DEF OpenCounters
<1>5. CASE WarmUp(w)
  BY <1>5 DEF WarmUp, Go
<1>6. CASE Arrive(w)
  BY <1>6 DEF Arrive, Barrier!Arrive, worker
<1>7. CASE LeaveReady(w) \/ GiveUp(w) \/ LeaveDone(w)
  <2>1. PICK here, next \in Stages : Leave(w, here, next)
    BY <1>7 DEF LeaveReady, GiveUp, LeaveDone
  <2> QED BY <2>1 DEF Leave, Barrier!Leave, Go
<1>8. CASE ReadBegin(w)
  BY <1>8 DEF ReadBegin, Read, Tick, Go
<1>9. CASE Start(w)
  BY <1>9 DEF Start, StartOutcomes, Go
<1>10. CASE Stop(w)
  BY <1>10 DEF Stop, Readings, Go
<1>11. CASE ReadEnd(w)
  BY <1>11 DEF ReadEnd, Read, Tick, Go
<1>12. CASE Release(w)
  <2>1. PICK stayed \in BOOLEAN :
          /\ reading' = [reading EXCEPT ![w] = IF prepared[w] /\ ~ stayed THEN "bad" ELSE @]
          /\ ok' = [ok EXCEPT ![w] = IF prepared[w] THEN stayed /\ Fine(reading[w]) ELSE @]
    BY <1>12 DEF Release, Result
  <2>2. ok' \in [Cpus -> BOOLEAN] /\ \A u \in Cpus : u # w => ok'[u] = ok[u]
    BY <2>1 DEF Fine
  <2>3. reading' \in [Cpus -> ReadingValues] /\ \A u \in Cpus : u # w => reading'[u] = reading[u]
    BY <2>1
  <2>4. mapped' \in [Cpus -> BOOLEAN] /\ \A u \in Cpus : u # w => mapped'[u] = mapped[u]
    BY <1>12 DEF Release
  <2>5. /\ counters' \in [Cpus -> Descriptors]
        /\ \A u \in Cpus : u # w => counters'[u] = counters[u]
    BY <1>12 DEF Release, CloseCounters, Descriptors
  <2>6. stage' \in [Cpus -> Stages] /\ \A u \in Cpus : u # w => stage'[u] = stage[u]
    BY <1>12 DEF Release, Go
  <2> QED BY <1>12, <2>2, <2>3, <2>4, <2>5, <2>6 DEF Release
<1> QED BY <1>2, <1>3, <1>4, <1>5, <1>6, <1>7, <1>8, <1>9, <1>10, <1>11, <1>12 DEF Work

\* What the other workers rely on is still so.
LEMMA OtherWorkers ==
    ASSUME IInv, NEW w \in Cpus, Work(w), UNCHANGED program, NEW u \in Cpus, u # w
    PROVE  WaitsInv(u)' /\ ResultInv(u)'
<1>1. TypeOK /\ WaitsInv(u) /\ ResultInv(u)
  BY DEF IInv
<1>2. /\ stage'[u] = stage[u] /\ prepared'[u] = prepared[u]
      /\ mapped'[u] = mapped[u] /\ counters'[u] = counters[u]
      /\ arrived'[u] = arrived[u] /\ passed'[u] = passed[u]
      /\ end'[u] = end[u] /\ reading'[u] = reading[u] /\ ok'[u] = ok[u]
      /\ clock' >= clock /\ program' = program
  BY <1>1, WorkFrame
<1>3. WaitsInv(u)'
  BY <1>1, <1>2 DEF WaitsInv, WaitsTwice
<1>4. end'[u] < clock'
  <2>1. end[u] \in Nat /\ clock \in Nat /\ clock' \in Nat /\ end[u] < clock
    BY <1>1, WorkFrame DEF TypeOK, ResultInv
  <2> QED BY <1>2, <2>1
<1>5. ResultInv(u)'
  BY <1>1, <1>2, <1>4 DEF ResultInv, Fine, Tidy
<1> QED BY <1>3, <1>5

\* The waits of the worker that took the step.
LEMMA OwnWaits ==
    ASSUME IInv, NEW w \in Cpus, Work(w), UNCHANGED program
    PROVE  WaitsInv(w)'
<1>1. TypeOK /\ WaitsInv(w) /\ WaitsTwice' = WaitsTwice
  BY DEF IInv, WaitsTwice
<1>2. ASSUME NEW here, NEW next, SetUp(w, here, next)
      PROVE  /\ stage[w] = here /\ stage'[w] \in {next, "ready"}
             /\ arrived'[w] = arrived[w] /\ passed'[w] = passed[w]
  BY <1>1, <1>2 DEF SetUp, Go, TypeOK
<1>3. CASE Pin(w) \/ Map(w) \/ OpenCounters(w) \/ WarmUp(w)
  <2>1. /\ stage[w] \in SettingUp /\ stage'[w] \in SettingUp \cup {"ready"}
        /\ arrived'[w] = arrived[w] /\ passed'[w] = passed[w]
    BY <1>1, <1>2, <1>3 DEF Pin, Map, OpenCounters, WarmUp, Go, SettingUp, TypeOK
  <2> QED BY <1>1, <2>1 DEF WaitsInv, SettingUp, Window
<1>4. CASE Arrive(w)
  <2>1. /\ stage' = stage /\ passed' = passed /\ arrived'[w] = arrived[w] + 1
        /\ \/ stage[w] = "ready" /\ arrived[w] = 0
           \/ stage[w] = "done" /\ arrived[w] = 1
    BY <1>1, <1>4 DEF Arrive, Barrier!Arrive, worker, TypeOK
  <2> QED BY <1>1, <2>1 DEF WaitsInv, SettingUp, Window
<1>5. ASSUME NEW here, NEW next, Leave(w, here, next)
      PROVE  /\ stage[w] = here /\ stage'[w] = next /\ passed[w] < arrived[w]
             /\ arrived'[w] = arrived[w] /\ passed'[w] = passed[w] + 1
  BY <1>1, <1>5 DEF Leave, Barrier!Leave, Go, TypeOK
<1>6. CASE LeaveReady(w) \/ GiveUp(w)
  <2>1. /\ stage[w] = "ready" /\ arrived'[w] = arrived[w] /\ passed'[w] = passed[w] + 1
        /\ passed[w] < arrived[w]
        /\ \/ stage'[w] = "begin"
           \/ stage'[w] = "done" /\ WaitsTwice
           \/ stage'[w] = "release" /\ ~ WaitsTwice
    BY <1>5, <1>6 DEF LeaveReady, GiveUp
  <2>2. arrived'[w] = 1 /\ passed'[w] = 1
    BY <1>1, <2>1 DEF WaitsInv
  <2> QED BY <1>1, <2>1, <2>2 DEF WaitsInv, SettingUp, Window
<1>7. CASE ReadBegin(w) \/ Start(w) \/ Stop(w)
  <2>1. /\ stage[w] \in {"begin"} \cup Window /\ stage'[w] \in Window
        /\ arrived'[w] = arrived[w] /\ passed'[w] = passed[w]
    BY <1>1, <1>7 DEF ReadBegin, Start, StartOutcomes, Stop, Go, Window, TypeOK
  <2> QED BY <1>1, <2>1 DEF WaitsInv, SettingUp, Window
<1>8. CASE ReadEnd(w)
  <2>1. /\ stage[w] = "stopped"
        /\ stage'[w] = IF WaitsTwice THEN "done" ELSE "release"
        /\ arrived'[w] = arrived[w] /\ passed'[w] = passed[w]
    BY <1>1, <1>8 DEF ReadEnd, Go, TypeOK
  <2> QED BY <1>1, <2>1 DEF WaitsInv, SettingUp, Window
<1>9. CASE LeaveDone(w)
  <2>1. /\ stage[w] = "done" /\ stage'[w] = "release" /\ passed[w] < arrived[w]
        /\ arrived'[w] = arrived[w] /\ passed'[w] = passed[w] + 1
    BY <1>5, <1>9 DEF LeaveDone
  <2>2. arrived'[w] = 2 /\ passed'[w] = 2 /\ WaitsTwice
    BY <1>1, <2>1 DEF WaitsInv
  <2> QED BY <1>1, <2>1, <2>2 DEF WaitsInv, SettingUp, Window
<1>10. CASE Release(w)
  <2>1. /\ stage[w] = "release" /\ stage'[w] = "gone"
        /\ arrived'[w] = arrived[w] /\ passed'[w] = passed[w]
    BY <1>1, <1>10 DEF Release, Go, TypeOK
  <2> QED BY <1>1, <2>1 DEF WaitsInv, SettingUp, Window
<1> QED BY <1>3, <1>4, <1>6, <1>7, <1>8, <1>9, <1>10 DEF Work

\* What it has measured and holds.
LEMMA OwnResult ==
    ASSUME IInv, NEW w \in Cpus, Work(w), UNCHANGED program
    PROVE  ResultInv(w)'
<1>1. TypeOK /\ ResultInv(w) /\ Tidy' = Tidy /\ \A r : Fine(r)' <=> Fine(r)
  BY DEF IInv, Tidy, Fine
<1>2. clock \in Nat /\ end[w] \in Nat /\ end[w] < clock
  BY <1>1 DEF TypeOK, ResultInv
<1> USE DEF SettingUp, Window
<1>3. ASSUME NEW here \in SettingUp, NEW next \in SettingUp, SetUp(w, here, next)
      PROVE  ResultInv(w)'
  <2>1. /\ stage[w] = here /\ stage'[w] \in {next, "ready"}
        /\ UNCHANGED <<end, clock, ok>>
    BY <1>1, <1>3 DEF SetUp, Go, TypeOK
  <2> QED BY <1>1, <2>1 DEF ResultInv
<1>4. CASE Pin(w) \/ Map(w) \/ OpenCounters(w)
  BY <1>3, <1>4 DEF Pin, Map, OpenCounters
<1>5. CASE WarmUp(w)
  <2>1. /\ stage[w] = "warm" /\ stage'[w] = "ready"
        /\ UNCHANGED <<end, clock, ok>>
    BY <1>1, <1>5 DEF WarmUp, Go, TypeOK
  <2> QED BY <1>1, <2>1 DEF ResultInv
<1>6. CASE Arrive(w)
  BY <1>1, <1>6 DEF Arrive, worker, ResultInv
<1>7. ASSUME NEW here \in Stages \ {"gone"}, NEW next \in Stages \ {"gone"}, Leave(w, here, next),
             next \in {"begin"} \cup Window => prepared[w]
      PROVE  ResultInv(w)'
  <2>1. /\ stage[w] = here /\ stage'[w] = next
        /\ UNCHANGED <<prepared, mapped, counters, end, clock, reading, ok>>
    BY <1>1, <1>7 DEF Leave, Go, TypeOK
  <2> QED BY <1>1, <1>7, <2>1 DEF ResultInv
<1>8. CASE LeaveReady(w) \/ GiveUp(w) \/ LeaveDone(w)
  BY <1>7, <1>8 DEF LeaveReady, GiveUp, LeaveDone, Stages
<1>9. CASE ReadBegin(w)
  <2>1. /\ stage[w] = "begin" /\ stage'[w] = "start"
        /\ UNCHANGED <<prepared, mapped, counters, end, reading, ok>>
    BY <1>1, <1>9 DEF ReadBegin, Go, TypeOK
  <2>2. clock' >= clock /\ clock' \in Nat
    BY <1>1, WorkFrame DEF TypeOK
  <2> QED BY <1>1, <1>2, <2>1, <2>2 DEF ResultInv
<1>10. CASE Start(w)
  <2>1. /\ stage[w] = "start" /\ stage'[w] \in {"measuring", "uncounted"}
        /\ UNCHANGED <<prepared, mapped, counters, end, clock, reading, ok>>
    BY <1>1, <1>10 DEF Start, StartOutcomes, Go, TypeOK
  <2> QED BY <1>1, <2>1 DEF ResultInv
<1>11. CASE Stop(w)
  <2>1. /\ stage[w] \in {"measuring", "uncounted"} /\ stage'[w] = "stopped"
        /\ UNCHANGED <<prepared, mapped, counters, end, clock, ok>>
    BY <1>1, <1>11 DEF Stop, Go, TypeOK
  <2> QED BY <1>1, <2>1 DEF ResultInv
<1>12. CASE ReadEnd(w)
  <2>1. /\ stage[w] = "stopped" /\ stage'[w] \in {"done", "release"}
        /\ UNCHANGED <<prepared, mapped, counters, reading, ok>>
    BY <1>1, <1>12 DEF ReadEnd, Go, TypeOK
  <2>2. end'[w] < clock'
    BY <1>1, <1>2, <1>12 DEF ReadEnd, Read, Tick, TypeOK
  <2> QED BY <1>1, <2>1, <2>2 DEF ResultInv
<1>13. CASE Release(w)
  <2>1. /\ stage[w] = "release" /\ stage'[w] = "gone" /\ counters'[w] = {}
        /\ UNCHANGED <<prepared, end, clock>>
    BY <1>1, <1>13 DEF Release, CloseCounters, Go, TypeOK
  <2>2. PICK stayed \in BOOLEAN :
          /\ reading' = [reading EXCEPT ![w] = IF prepared[w] /\ ~ stayed THEN "bad" ELSE @]
          /\ ok' = [ok EXCEPT ![w] = IF prepared[w] THEN stayed /\ Fine(reading[w]) ELSE @]
    BY <1>13 DEF Release, Result
  <2>3. ~ ok[w]
    BY <1>1, <2>1 DEF ResultInv
  <2>4. ok'[w] => prepared[w] /\ stayed /\ Fine(reading[w])
    BY <1>1, <2>2, <2>3 DEF TypeOK
  <2>5. stayed => reading'[w] = reading[w]
    BY <1>1, <2>2 DEF TypeOK
  <2>6. ok'[w] => prepared[w] /\ Fine(reading'[w])
    BY <2>4, <2>5
  <2>7. mapped'[w] => ~ Tidy /\ ~ prepared[w]
    BY <1>1, <1>13 DEF Release, TypeOK
  <2>8. ok'[w] => prepared'[w] /\ Fine(reading[w])'
    BY <1>1, <2>1, <2>6 DEF Fine
  <2> QED BY <1>1, <2>1, <2>7, <2>8 DEF ResultInv
<1> QED BY <1>4, <1>5, <1>6, <1>8, <1>9, <1>10, <1>11, <1>12, <1>13 DEF Work

LEMMA BarrierNext ==
    ASSUME IInv, NEW w \in Cpus, Work(w), UNCHANGED program
    PROVE  BarrierInv'
<1>1. TypeOK /\ BarrierInv /\ WaitsInv(w) /\ TypeOK'
  BY WorkFrame DEF IInv
<1>2. \A u \in Cpus : arrived[u] \in Nat /\ passed[u] \in Nat
  BY <1>1 DEF TypeOK
<1>3. CASE Arrive(w)
  <2>1. passed' = passed /\ \A u \in Cpus : arrived'[u] \in Nat /\ arrived'[u] >= arrived[u]
    BY <1>1, <1>3 DEF Arrive, Barrier!Arrive, TypeOK
  <2> QED BY <1>1, <1>2, <2>1 DEF BarrierInv
<1>4. CASE LeaveReady(w) \/ GiveUp(w) \/ LeaveDone(w)
  <2>1. /\ passed[w] < arrived[w] /\ \A u \in Cpus : arrived[u] >= arrived[w]
        /\ passed' = [passed EXCEPT ![w] = @ + 1] /\ arrived' = arrived
    BY <1>4 DEF LeaveReady, GiveUp, LeaveDone, Leave, Barrier!Leave
  <2>2. \A u \in Cpus : passed'[w] <= arrived[u]
    BY <1>1, <1>2, <2>1 DEF TypeOK
  <2>3. \A v \in Cpus : v # w => passed'[v] = passed[v]
    BY <1>1, <2>1 DEF TypeOK
  <2> QED BY <1>1, <2>1, <2>2, <2>3 DEF BarrierInv
<1>5. CASE ~ (Arrive(w) \/ LeaveReady(w) \/ GiveUp(w) \/ LeaveDone(w))
  <2>1. UNCHANGED <<arrived, passed>>
    BY <1>5 DEF Work, Pin, Map, OpenCounters, SetUp, WarmUp, ReadBegin, Start, Stop, ReadEnd, Release
  <2> QED BY <1>1, <2>1 DEF BarrierInv
<1> QED BY <1>3, <1>4, <1>5

\* The last window to open while those of all the others are open is the moment
\* they have in common: a window that was closed before ended before this one
\* began, on the clock they share.
LEMMA TogetherNext ==
    ASSUME IInv, NEW w \in Cpus, Work(w), UNCHANGED program
    PROVE  TogetherInv'
<1>1. /\ TypeOK /\ TogetherInv /\ ResultInv(w) /\ AsksOverlap' = AsksOverlap
      /\ \A u \in Cpus : end[u] < clock /\ end[u] \in Nat /\ clock \in Nat
  BY DEF IInv, AsksOverlap, ResultInv, TypeOK
<1>2. SUFFICES ASSUME AsksOverlap, \A u \in Cpus : Opened(u)',
                      \A u, v \in Cpus : Closed(u)' => begin'[v] < end'[u]
               PROVE  together'
  BY <1>1 DEF TogetherInv
<1>3. \A u \in Cpus : u # w =>
        /\ stage'[u] = stage[u] /\ begin'[u] = begin[u] /\ end'[u] = end[u]
        /\ (Opened(u)' <=> Opened(u)) /\ (Closed(u)' <=> Closed(u))
  BY <1>1, WorkFrame DEF Opened, Closed
<1>4. CASE ReadBegin(w)
  <2>1. /\ begin'[w] = clock /\ end' = end /\ stage'[w] = "start"
        /\ UNCHANGED prepared
    BY <1>1, <1>2, <1>4 DEF ReadBegin, Read, Go, TypeOK
  <2>2. \A u \in Cpus : ~ Closed(u)'
    <3>1. SUFFICES ASSUME NEW u \in Cpus, Closed(u)'  PROVE FALSE
      OBVIOUS
    <3>2. clock < end[u]
      BY <1>2, <2>1, <3>1
    <3> QED BY <1>1, <3>2
  <2>3. \A u \in Cpus : stage'[u] \in Window
    BY <1>2, <2>2 DEF Opened
  <2> QED BY <1>4, <2>3 DEF ReadBegin
<1>5. CASE ReadEnd(w)
  <2>1. stage[w] = "stopped" /\ begin' = begin /\ together' = together
    BY <1>5 DEF ReadEnd
  <2>2. ~ Closed(w) /\ Opened(w)
    BY <2>1 DEF Closed, Opened, Window
  <2>3. \A u \in Cpus : Opened(u)
    BY <1>2, <1>3, <2>2
  <2>4. \A u, v \in Cpus : Closed(u) => begin[v] < end[u]
    BY <1>2, <1>3, <2>1, <2>2
  <2> QED BY <1>1, <1>2, <2>1, <2>3, <2>4 DEF TogetherInv
<1>6. CASE ~ (ReadBegin(w) \/ ReadEnd(w))
  <2>1. UNCHANGED <<begin, end, together>>
    BY <1>6 DEF Work, Pin, Map, OpenCounters, SetUp, WarmUp, Arrive, LeaveReady, GiveUp, Leave,
                Start, Stop, LeaveDone, Release, worker
  <2>2. Opened(w)' => Opened(w) /\ (Closed(w)' <=> Closed(w))
    <3>1. CASE Arrive(w)
      BY <3>1 DEF Arrive, worker, Opened, Closed
    <3>2. CASE LeaveReady(w)
      <4>1. stage'[w] = "begin"
        BY <1>1, <3>2 DEF LeaveReady, Leave, Go, TypeOK
      <4> QED BY <4>1 DEF Opened, Closed, Window
    <3>3. CASE GiveUp(w)
      <4>1. stage'[w] \in {"done", "release"} /\ ~ prepared'[w]
        BY <1>1, <3>3 DEF GiveUp, Leave, Go, TypeOK
      <4> QED BY <4>1 DEF Opened, Closed, Window
    <3>4. CASE Start(w) \/ Stop(w)
      <4>1. stage[w] \in Window /\ stage'[w] \in Window
        BY <1>1, <3>4 DEF Start, StartOutcomes, Stop, Go, Window, TypeOK
      <4> QED BY <4>1 DEF Opened, Closed, Window
    <3>5. CASE LeaveDone(w) \/ Release(w)
      <4>1. /\ stage[w] \in {"done", "release"} /\ stage'[w] \in {"release", "gone"}
            /\ UNCHANGED prepared
        BY <1>1, <3>5 DEF LeaveDone, Leave, Release, Go, TypeOK
      <4> QED BY <4>1 DEF Opened, Closed, Window
    <3>6. CASE Pin(w) \/ Map(w) \/ OpenCounters(w) \/ WarmUp(w)
      <4>1. stage'[w] \in SettingUp \cup {"ready"}
        BY <1>1, <3>6 DEF Pin, Map, OpenCounters, WarmUp, SetUp, Go, SettingUp, TypeOK
      <4> QED BY <4>1 DEF Opened, Closed, Window, SettingUp
    <3> QED BY <1>6, <3>1, <3>2, <3>3, <3>4, <3>5, <3>6 DEF Work
  <2>3. \A u \in Cpus : Opened(u) /\ (Closed(u)' <=> Closed(u))
    BY <1>2, <1>3, <2>2
  <2> QED BY <1>1, <1>2, <2>1, <2>3 DEF TogetherInv
<1> QED BY <1>4, <1>5, <1>6

\* A worker that takes a step is not gone, so there is no verdict yet.
LEMMA NoVerdictYet ==
    ASSUME IInv, NEW w \in Cpus, Work(w)
    PROVE  verdict = "none"
<1>1. stage[w] # "gone"
  BY DEF Work, Pin, Map, OpenCounters, SetUp, WarmUp, Arrive, LeaveReady, GiveUp, Leave,
         ReadBegin, Start, Stop, ReadEnd, Window, LeaveDone, Release
<1> QED BY <1>1 DEF IInv, VerdictInv, TypeOK

LEMMA WorkInv ==
    ASSUME IInv, NEW w \in Cpus, Work(w), UNCHANGED program
    PROVE  IInv'
<1>1. TypeOK' /\ verdict' = "none"
  BY WorkFrame, NoVerdictYet DEF IInv
<1>2. ASSUME NEW u \in Cpus  PROVE WaitsInv(u)' /\ ResultInv(u)'
  BY OtherWorkers, OwnWaits, OwnResult
<1>3. VerdictInv'
  BY <1>1 DEF VerdictInv
<1> QED BY <1>1, <1>2, <1>3, BarrierNext, TogetherNext DEF IInv

LEMMA JudgeInv ==
    ASSUME IInv, Judge, UNCHANGED program
    PROVE  IInv'
<1>1. /\ UNCHANGED <<worker, arrived, passed, sample, program>>
      /\ \A w \in Cpus : stage[w] = "gone"
      /\ verdict' = "accepted" \/ verdict' = "rejected"
      /\ verdict' = "accepted" => AllOk /\ (AsksOverlap => Overlap)
  BY DEF Judge
<1>2. TypeOK'
  BY <1>1 DEF IInv, TypeOK, worker
<1>3. ASSUME NEW w \in Cpus  PROVE WaitsInv(w)' /\ ResultInv(w)'
  BY <1>1 DEF IInv, WaitsInv, ResultInv, worker, WaitsTwice, Tidy, Fine
<1>4. BarrierInv' /\ TogetherInv'
  BY <1>1 DEF IInv, BarrierInv, TogetherInv, Opened, Closed, AsksOverlap, worker
<1>5. VerdictInv'
  BY <1>1 DEF VerdictInv, AllOk, AsksOverlap, Overlap, worker
<1> QED BY <1>2, <1>3, <1>4, <1>5 DEF IInv

\* The next sample starts from fresh threads and results.
LEMMA NextSampleInv ==
    ASSUME IInv, NextSample, UNCHANGED program
    PROVE  IInv'
<1>1. TypeOK /\ Cpus # {} /\ Samples \in Nat
  BY MeasureRunAssumption DEF IInv
<1>2. TypeOK'
  <2>1. counters' \in [Cpus -> Descriptors]
    BY DEF NextSample, Fresh, Descriptors
  <2>2. stage' \in [Cpus -> Stages]
    BY DEF NextSample, Fresh, Stages
  <2>3. arrived' \in [Cpus -> 0 .. 2] /\ passed' \in [Cpus -> 0 .. 2]
    BY DEF NextSample, Fresh
  <2>4. reading' \in [Cpus -> ReadingValues]
    BY DEF NextSample, Fresh, ReadingValues
  <2>5. /\ prepared' \in [Cpus -> BOOLEAN] /\ mapped' \in [Cpus -> BOOLEAN]
        /\ ok' \in [Cpus -> BOOLEAN]
    BY Zenon DEF NextSample, Fresh
  <2>6. begin' \in [Cpus -> Nat] /\ end' \in [Cpus -> Nat] /\ clock' \in Nat
    BY DEF NextSample, Fresh
  <2>7. sample' \in 1 .. Samples
    BY <1>1 DEF NextSample, TypeOK
  <2>8. /\ program' \in Programs /\ together' \in BOOLEAN
        /\ verdict' \in {"none", "accepted", "rejected"}
    BY <1>1, Zenon DEF NextSample, TypeOK
  <2> QED BY ONLY <2>1, <2>2, <2>3, <2>4, <2>5, <2>6, <2>7, <2>8, Zenon DEF TypeOK
<1>3. ASSUME NEW w \in Cpus  PROVE WaitsInv(w)' /\ ResultInv(w)'
  BY DEF NextSample, Fresh, WaitsInv, ResultInv, SettingUp, Window
<1>4. BarrierInv'
  BY DEF NextSample, Fresh, BarrierInv
<1>5. TogetherInv'
  BY <1>1 DEF NextSample, Fresh, TogetherInv, Opened, Closed, Window
<1>6. VerdictInv'
  BY DEF NextSample, VerdictInv
<1> QED BY <1>2, <1>3, <1>4, <1>5, <1>6 DEF IInv

LEMMA StutterInv == IInv /\ UNCHANGED vars => IInv'
BY DEF IInv, vars, worker, TypeOK, WaitsInv, ResultInv, BarrierInv, TogetherInv, VerdictInv,
       Opened, Closed, AsksOverlap, WaitsTwice, Tidy, Fine, AllOk, Overlap

\* Inductiveness, whichever of the programs runs.
THEOREM Invariance == Spec => []IInv
<1>1. IInv /\ [Next]_vars => IInv'
  BY WorkInv, JudgeInv, NextSampleInv, StutterInv DEF Next
<1> QED BY <1>1, InitInv, PTL DEF Spec

\* While the window of anybody is open nobody sets up and, where they meet again,
\* nobody tidies up.
THEOREM QuietMeasurementAlways == Spec => []QuietMeasurement
<1>1. IInv => QuietMeasurement
  <2>1. SUFFICES ASSUME IInv, NEW w \in Cpus, NEW u \in Cpus, stage[w] \in Window
                 PROVE  /\ stage[u] \notin SettingUp
                        /\ WaitsTwice => stage[u] \notin {"release", "gone"}
    BY DEF QuietMeasurement
  <2>2. /\ WaitsInv(w) /\ WaitsInv(u) /\ passed[w] <= arrived[u] /\ passed[u] <= arrived[w]
    BY <2>1 DEF IInv, BarrierInv
  <2>3. arrived[w] = 1 /\ passed[w] = 1
    BY <2>1, <2>2 DEF WaitsInv
  <2> QED BY <2>2, <2>3 DEF WaitsInv
<1> QED BY <1>1, Invariance, PTL

\* A sample is accepted only if every worker was set up and has a reading that
\* its program takes and, where that is asked, one moment lay in all the windows.
THEOREM AcceptedMeansTogetherAlways == Spec => []AcceptedMeansTogether
<1>1. IInv => AcceptedMeansTogether
  <2>1. SUFFICES ASSUME IInv, verdict = "accepted"
                 PROVE  /\ AsksOverlap => together
                        /\ \A w \in Cpus : prepared[w] /\ Fine(reading[w])
    BY DEF AcceptedMeansTogether, Fine
  <2>2. /\ AllOk /\ (AsksOverlap => Overlap)
        /\ \A w \in Cpus : stage[w] = "gone"
    BY <2>1 DEF IInv, VerdictInv
  <2>3. \A w \in Cpus : prepared[w] /\ Fine(reading[w])
    BY <2>1, <2>2 DEF IInv, ResultInv, AllOk
  <2>4. \A w \in Cpus : Opened(w)
    BY <2>2, <2>3 DEF Opened, Closed
  <2>5. AsksOverlap => together
    <3>1. \A w, u \in Cpus : begin[u] \in Nat /\ end[w] \in Nat
      BY <2>1 DEF IInv, TypeOK
    <3> QED BY <2>1, <2>2, <2>4, <3>1 DEF IInv, TogetherInv, Overlap
  <2> QED BY <2>3, <2>5
<1> QED BY <1>1, Invariance, PTL

\* Past the joins nobody uses the barrier, no counter is open, and a tidy
\* program holds no buffer.
THEOREM NobodyLeftBehindAlways == Spec => []NobodyLeftBehind
<1>1. IInv => NobodyLeftBehind
  BY DEF IInv, VerdictInv, WaitsInv, ResultInv, NobodyLeftBehind
<1> QED BY <1>1, Invariance, PTL


----------------------------------------------------------------------------
(* The kernels.                                                             *)

\* Who has minima, who unpacks panels, how many products a lane adds in 16 bits,
\* and which row and lane are followed.
Followed == kernel \in KernelNames /\ row \in 0 .. K.mr - 1 /\ lane \in 0 .. K.nr - 1

LEMMA KernelFacts ==
    ASSUME kernel \in KernelNames
    PROVE  /\ K.format = IF kernel \in {"q4_0_my", "q4_0_group", "q4_0_upstream", "q4_0_ime2"} THEN "q4_0"
                         ELSE IF kernel \in {"iq2_br", "iq2_ir", "iq2_upstream"} THEN "iq2_xxs" ELSE "q4_K"
           /\ K.pass = IF kernel = "q4_K_my" THEN "second"
                       ELSE IF kernel \in {"q4_0_ime2", "q4_K_group", "q4_K_upstream", "q4_K_upstream_128"}
                            THEN "with the block" ELSE "none"
           /\ K.depth = IF kernel = "iq2_br" THEN KcBlocks ELSE 0
           /\ K.narrow = IF kernel \in {"q4_0_upstream", "q4_K_upstream_128"} THEN 2
                         ELSE IF kernel \in {"q4_0_ime2", "iq2_upstream"} THEN 1 ELSE 32
           /\ K.mr = IF kernel = "q4_0_my" THEN 8
                     ELSE IF kernel \in {"q4_0_ime2", "q4_K_group"} THEN 4
                     ELSE IF kernel \in {"q4_0_group", "q4_K_my", "iq2_br", "iq2_ir"} THEN 12 ELSE 1
           /\ K.nr \in {1, 32}
BY DEF KernelNames, K, KernelQ4_0My, KernelQ4_0Group, KernelQ4_0Upstream, KernelQ4_0Ime2,
       KernelQ4_KMy, KernelQ4_KGroup, KernelQ4_KUpstream, KernelQ4_KUpstream128,
       KernelIq2Ir, KernelIq2Br, KernelIq2Upstream

LEMMA LaneFacts ==
    ASSUME Followed
    PROVE  row \in 0 .. 11 /\ lane \in 0 .. 31
<1>1. K.mr \in {1, 4, 8, 12} /\ K.nr \in {1, 32}
  BY KernelFacts DEF Followed
<1>2. row \in 0 .. K.mr - 1 /\ lane \in 0 .. K.nr - 1
  BY DEF Followed
<1> QED BY ONLY <1>1, <1>2

LEMMA SubblockFacts ==
    Followed => Subblocks = IF kernel \in {"q4_0_my", "q4_0_group", "q4_0_upstream", "q4_0_ime2"} THEN 1 ELSE 8
BY KernelFacts DEF Followed, Subblocks

----------------------------------------------------------------------------
(* The products.                                                            *)

LEMMA RangeIs ==
    ASSUME NEW f, NEW T, DOMAIN f = 1 .. 32, \A i \in 1 .. 32 : f[i] \in T,
           \A t \in T : \E i \in 1 .. 32 : f[i] = t
    PROVE  Range(f) = T
BY DEF Range

\* The kernels that take the indices of a subblock in order.
InOrder == {"q4_0_ime2", "q4_K_my", "q4_K_group", "q4_K_upstream", "q4_K_upstream_128",
            "iq2_br", "iq2_ir", "iq2_upstream"}

\* The index of the i-th product that a lane adds.
IndexOf(s, i) == IF kernel \in InOrder THEN 32 * s + i - 1
                 ELSE IF i % 2 = 1 THEN i \div 2 ELSE 16 + (i \div 2 - 1)

\* An index of a block, by its subblock and its place there.
LEMMA IndexSplit ==
    ASSUME NEW s \in 0 .. 7, NEW l \in 0 .. 31, NEW k, k = 32 * s + l
    PROVE  /\ k \div 32 = s /\ k % 32 = l
           /\ k % 16 = l % 16
           /\ k \div 64 = s \div 2
           /\ k % 64 = 32 * (s % 2) + l
           /\ k % 8 = l % 8
           /\ k % 2 = l % 2
           /\ s = 2 * (s \div 2) + (s % 2)
           /\ s % 2 \in {0, 1} /\ s \div 2 \in 0 .. 3
<1>1. PICK h \in 0 .. 3, b \in 0 .. 1 : s = 2 * h + b
  <2>1. s \div 2 \in 0 .. 3 /\ s % 2 \in 0 .. 1 /\ s = 2 * (s \div 2) + (s % 2)
    OBVIOUS
  <2> QED BY <2>1
<1>2. s \div 2 = h /\ s % 2 = b
  BY <1>1
<1>3. k = 64 * h + 32 * b + l
  BY <1>1
<1>4. k \div 32 = s /\ k % 32 = l /\ k \div 64 = h /\ k % 64 = 32 * b + l
  BY <1>1, <1>3
<1>5. k % 16 = l % 16 /\ k % 8 = l % 8 /\ k % 2 = l % 2
  BY <1>3
<1> QED BY <1>1, <1>2, <1>4, <1>5

\* A product of an activation and a weight, by their places.
Pairs(product, activation, weight) == product = << activation, weight >>

LEMMA Odd ==
    ASSUME NEW i \in 1 .. 32
    PROVE  /\ i \div 2 \in 0 .. 16
           /\ i % 2 = 1 => i = 2 * (i \div 2) + 1 /\ i \div 2 \in 0 .. 15
           /\ i % 2 # 1 => i = 2 * (i \div 2) /\ i \div 2 - 1 \in 0 .. 15 /\ i % 2 = 0
OBVIOUS

LEMMA ReadsIme2Pairs ==
    ASSUME NEW r \in 0 .. 11, NEW c \in 0 .. 31, NEW s \in 0 .. 7, s = 0, NEW i \in 1 .. 32, NEW k, k = 32 * s + (i - 1)
    PROVE  Pairs(ReadsIme2(r, c, s)[i], PlaceA4Ime2(r, k), PlaceB32Ime2(c, k))
<1>l. PICK l \in 0 .. 31 : i = l + 1
  <2>1. i - 1 \in 0 .. 31 /\ i = (i - 1) + 1
    OBVIOUS
  <2> QED BY <2>1
<1>k. k = 32 * s + l
  BY <1>l
<1>1. /\ k \in Int
      /\ k \div 32 = s /\ k % 32 = l
      /\ k % 16 = l % 16
      /\ k \div 64 = s \div 2
      /\ k % 64 = 32 * (s % 2) + l
      /\ k % 8 = l % 8
      /\ k % 2 = l % 2
      /\ s = 2 * (s \div 2) + (s % 2)
      /\ s % 2 \in {0, 1} /\ s \div 2 \in 0 .. 3
  BY <1>k, IndexSplit
<1>2. k = l /\ (l + 1) - 1 = l
  BY <1>k
<1>3. (IF k < 16 THEN (k % 16) \div 2 ELSE 8 + ((k % 16) \div 2)) = l \div 2
  <2>1. CASE l < 16
    BY <2>1, <1>2
  <2>2. CASE l >= 16
    <3>1. l % 16 = l - 16 /\ (l - 16) \div 2 = (l \div 2) - 8
      BY <2>2
    <3> QED BY <2>2, <3>1, <1>2
  <2> QED BY <2>1, <2>2
<1>4. l + 1 \in 1 .. 32
  OBVIOUS
<1>5. ReadsIme2(r, c, s)[l + 1] = << 16 + 8 + r * 32 + l, << 64 + c * 16 + (l \div 2), l % 2 >> >>
  BY <1>2, <1>4 DEF ReadsIme2
<1>6. PlaceA4Ime2(r, k) = 16 + 8 + r * 32 + l
  BY <1>2 DEF PlaceA4Ime2
<1>7. PlaceB32Ime2(c, k) = << 64 + c * 16 + (l \div 2), l % 2 >>
  BY <1>2, <1>3 DEF PlaceB32Ime2
<1> QED BY <1>l, <1>k, <1>5, <1>6, <1>7 DEF Pairs

LEMMA ReadsQ4_KPairs ==
    ASSUME NEW r \in 0 .. 11, NEW c \in 0 .. 31, NEW s \in 0 .. 7, NEW i \in 1 .. 32, NEW k, k = 32 * s + (i - 1)
    PROVE  Pairs(ReadsQ4_K(r, c, s)[i], PlaceA12(r, k), PlaceWPairs(c, k))
<1>l. PICK l \in 0 .. 31 : i = l + 1
  <2>1. i - 1 \in 0 .. 31 /\ i = (i - 1) + 1
    OBVIOUS
  <2> QED BY <2>1
<1>k. k = 32 * s + l
  BY <1>l
<1>1. /\ k \in Int
      /\ k \div 32 = s /\ k % 32 = l
      /\ k % 16 = l % 16
      /\ k \div 64 = s \div 2
      /\ k % 64 = 32 * (s % 2) + l
      /\ k % 8 = l % 8
      /\ k % 2 = l % 2
      /\ s = 2 * (s \div 2) + (s % 2)
      /\ s % 2 \in {0, 1} /\ s \div 2 \in 0 .. 3
  BY <1>k, IndexSplit
<1>2. l + 1 \in 1 .. 32
  OBVIOUS
<1>3. CASE l % 2 = 0
  <2>1. PICK j \in 0 .. 15 : l = 2 * j
    <3>1. l \div 2 \in 0 .. 15 /\ l = 2 * (l \div 2)
      BY <1>3
    <3> QED BY <3>1
  <2>2. (l + 1) % 2 = 1 /\ (l + 1) \div 2 = j /\ l \div 2 = j
    BY <2>1
  <2>3. ReadsQ4_K(r, c, s)[l + 1] = << (s * 32 + 2 * j) * 12 + r, <<(s * 16 + j) * 32 + c, 0>> >>
    BY <1>2, <2>2 DEF ReadsQ4_K, Both
  <2>4. PlaceWPairs(c, k) = <<(s * 16 + j) * 32 + c, 0>>
    BY <1>1, <1>3, <2>2 DEF PlaceWPairs
  <2> QED BY <1>l, <1>k, <2>1, <2>3, <2>4 DEF PlaceA12, Pairs
<1>4. CASE l % 2 = 1
  <2>1. PICK j \in 0 .. 15 : l = 2 * j + 1
    <3>1. l \div 2 \in 0 .. 15 /\ l = 2 * (l \div 2) + 1
      BY <1>4
    <3> QED BY <3>1
  <2>2. (l + 1) % 2 = 0 /\ (l + 1) \div 2 - 1 = j /\ l \div 2 = j
    BY <2>1
  <2>3. ReadsQ4_K(r, c, s)[l + 1] = << (s * 32 + 2 * j + 1) * 12 + r, <<(s * 16 + j) * 32 + c, 1>> >>
    BY <1>2, <2>2 DEF ReadsQ4_K, Both
  <2>4. PlaceWPairs(c, k) = <<(s * 16 + j) * 32 + c, 1>>
    BY <1>1, <1>4, <2>2 DEF PlaceWPairs
  <2> QED BY <1>l, <1>k, <2>1, <2>3, <2>4 DEF PlaceA12, Pairs
<1> QED BY <1>l, <1>k, <1>3, <1>4

LEMMA ReadsQ4_KGroupPairs ==
    ASSUME NEW r \in 0 .. 11, NEW c \in 0 .. 31, NEW s \in 0 .. 7, NEW i \in 1 .. 32, NEW k, k = 32 * s + (i - 1)
    PROVE  Pairs(ReadsQ4_KGroup(r, c, s)[i], PlaceA4(r, k), PlaceWGroups(c, k))
<1>l. PICK l \in 0 .. 31 : i = l + 1
  <2>1. i - 1 \in 0 .. 31 /\ i = (i - 1) + 1
    OBVIOUS
  <2> QED BY <2>1
<1>k. k = 32 * s + l
  BY <1>l
<1>1. /\ k \in Int
      /\ k \div 32 = s /\ k % 32 = l
      /\ k % 16 = l % 16
      /\ k \div 64 = s \div 2
      /\ k % 64 = 32 * (s % 2) + l
      /\ k % 8 = l % 8
      /\ k % 2 = l % 2
      /\ s = 2 * (s \div 2) + (s % 2)
      /\ s % 2 \in {0, 1} /\ s \div 2 \in 0 .. 3
  BY <1>k, IndexSplit
<1> QED BY <1>l, <1>k, <1>1 DEF ReadsQ4_KGroup, PlaceA4, PlaceWGroups, Pairs

LEMMA ReadsDotQ4_KPairs ==
    ASSUME NEW r \in 0 .. 11, NEW c \in 0 .. 31, NEW s \in 0 .. 7, NEW i \in 1 .. 32, NEW k, k = 32 * s + (i - 1)
    PROVE  Pairs(ReadsDotQ4_K(r, c, s)[i], k, ValueQ4_K(k))
<1>l. PICK l \in 0 .. 31 : i = l + 1
  <2>1. i - 1 \in 0 .. 31 /\ i = (i - 1) + 1
    OBVIOUS
  <2> QED BY <2>1
<1>k. k = 32 * s + l
  BY <1>l
<1>1. /\ k \in Int
      /\ k \div 32 = s /\ k % 32 = l
      /\ k % 16 = l % 16
      /\ k \div 64 = s \div 2
      /\ k % 64 = 32 * (s % 2) + l
      /\ k % 8 = l % 8
      /\ k % 2 = l % 2
      /\ s = 2 * (s \div 2) + (s % 2)
      /\ s % 2 \in {0, 1} /\ s \div 2 \in 0 .. 3
  BY <1>k, IndexSplit
<1> QED BY <1>l, <1>k, <1>1 DEF ReadsDotQ4_K, ValueQ4_K, Pairs

LEMMA ReadsDot128Pairs ==
    ASSUME NEW r \in 0 .. 11, NEW c \in 0 .. 31, NEW s \in 0 .. 7, NEW i \in 1 .. 32, NEW k, k = 32 * s + (i - 1)
    PROVE  Pairs(ReadsDot128(r, c, s)[i], k, ValueQ4_K(k))
<1>l. PICK l \in 0 .. 31 : i = l + 1
  <2>1. i - 1 \in 0 .. 31 /\ i = (i - 1) + 1
    OBVIOUS
  <2> QED BY <2>1
<1>k. k = 32 * s + l
  BY <1>l
<1>1. /\ k \in Int
      /\ k \div 32 = s /\ k % 32 = l
      /\ k % 16 = l % 16
      /\ k \div 64 = s \div 2
      /\ k % 64 = 32 * (s % 2) + l
      /\ k % 8 = l % 8
      /\ k % 2 = l % 2
      /\ s = 2 * (s \div 2) + (s % 2)
      /\ s % 2 \in {0, 1} /\ s \div 2 \in 0 .. 3
  BY <1>k, IndexSplit
<1>2. l + 1 \in 1 .. 32 /\ (l + 1) - 1 = l
  OBVIOUS
<1>3. PICK x \in Int, y \in Int, z \in Int :
                     /\ Asm128[s + 1][l \div 16 + 1] = <<x, y, z>>
                     /\ x + (l % 16) = k
                     /\ y + (l % 16) = (s \div 2) * 32 + l
                     /\ z = s % 2
  <2>1. (l \div 16 = 0 /\ l % 16 = l) \/ (l \div 16 = 1 /\ l % 16 = l - 16)
    OBVIOUS
  <2>2. s = 0 \/ s = 1 \/ s = 2 \/ s = 3 \/ s = 4 \/ s = 5 \/ s = 6 \/ s = 7
    OBVIOUS
  <2>3. CASE l \div 16 = 0 /\ l % 16 = l
    BY <1>k, <2>2, <2>3 DEF Asm128
  <2>4. CASE l \div 16 = 1 /\ l % 16 = l - 16
    BY <1>k, <2>2, <2>4 DEF Asm128
  <2> QED BY <2>1, <2>3, <2>4
<1>4. ReadsDot128(r, c, s)[l + 1] = << x + (l % 16), <<y + (l % 16), z>> >>
  <2>1. Asm128[s + 1][((l + 1) - 1) \div 16 + 1] = <<x, y, z>>
    BY <1>2, <1>3
  <2> HIDE DEF Asm128
  <2>2. ReadsDot128(r, c, s)[l + 1] =
          << <<x, y, z>>[1] + (((l + 1) - 1) % 16), << <<x, y, z>>[2] + (((l + 1) - 1) % 16), <<x, y, z>>[3]>> >>
    BY <1>2, <2>1, Zenon DEF ReadsDot128
  <2> QED BY <1>2, <2>2
<1>5. ValueQ4_K(k) = << (s \div 2) * 32 + l, s % 2 >>
  BY <1>1 DEF ValueQ4_K
<1> QED BY <1>l, <1>k, <1>3, <1>4, <1>5 DEF Pairs

LEMMA ReadsIq2Pairs ==
    ASSUME NEW r \in 0 .. 11, NEW c \in 0 .. 31, NEW s \in 0 .. 7, NEW i \in 1 .. 32, NEW k, k = 32 * s + (i - 1)
    PROVE  /\ Pairs(ReadsIq2(r, c, s)[i], PlaceA12(r, k), PlaceWIq2(c, k))
           /\ Pairs(ReadsIq2(r, c, s)[i], PlaceA12(r, k), PlaceWIq2Ir(c, k))
<1>l. PICK l \in 0 .. 31 : i = l + 1
  <2>1. i - 1 \in 0 .. 31 /\ i = (i - 1) + 1
    OBVIOUS
  <2> QED BY <2>1
<1>k. k = 32 * s + l
  BY <1>l
<1>1. /\ k \in Int
      /\ k \div 32 = s /\ k % 32 = l
      /\ k % 16 = l % 16
      /\ k \div 64 = s \div 2
      /\ k % 64 = 32 * (s % 2) + l
      /\ k % 8 = l % 8
      /\ k % 2 = l % 2
      /\ s = 2 * (s \div 2) + (s % 2)
      /\ s % 2 \in {0, 1} /\ s \div 2 \in 0 .. 3
  BY <1>k, IndexSplit
<1>2. Pairs(ReadsIq2(r, c, s)[i], PlaceA12(r, k), PlaceWIq2(c, k))
  BY <1>l, <1>k, <1>1 DEF ReadsIq2, PlaceA12, PlaceWIq2, Pairs
<1>3. PlaceWIq2Ir(c, k) = PlaceWIq2(c, k)
  <2>1. PlaceWIq2Ir(c, k) = << (s * 32 + l) * 32 + (c \div 4) * 4 + (c % 4), 0 >>
    BY <1>1 DEF PlaceWIq2Ir
  <2>2. PlaceWIq2(c, k) = << s * 32 * 32 + (c \div 4) * 4 + l * 32 + (c % 4), 0 >>
    BY <1>1 DEF PlaceWIq2
  <2>3. PICK x \in Int, y \in Int : x = (c \div 4) * 4 /\ y = c % 4
    OBVIOUS
  <2>4. (s * 32 + l) * 32 + x + y = s * 32 * 32 + x + l * 32 + y
    OBVIOUS
  <2> QED BY ONLY <2>1, <2>2, <2>3, <2>4
<1> QED BY ONLY <1>2, <1>3

LEMMA ReadsDotIq2Pairs ==
    ASSUME NEW r \in 0 .. 11, NEW c \in 0 .. 31, NEW s \in 0 .. 7, NEW i \in 1 .. 32, NEW k, k = 32 * s + (i - 1)
    PROVE  Pairs(ReadsDotIq2(r, c, s)[i], k, ValueIq2(k))
<1>l. PICK l \in 0 .. 31 : i = l + 1
  <2>1. i - 1 \in 0 .. 31 /\ i = (i - 1) + 1
    OBVIOUS
  <2> QED BY <2>1
<1>k. k = 32 * s + l
  BY <1>l
<1>1. /\ k \in Int
      /\ k \div 32 = s /\ k % 32 = l
      /\ k % 16 = l % 16
      /\ k \div 64 = s \div 2
      /\ k % 64 = 32 * (s % 2) + l
      /\ k % 8 = l % 8
      /\ k % 2 = l % 2
      /\ s = 2 * (s \div 2) + (s % 2)
      /\ s % 2 \in {0, 1} /\ s \div 2 \in 0 .. 3
  BY <1>k, IndexSplit
<1>2. l + 1 \in 1 .. 32 /\ (l + 1) - 1 = l
  OBVIOUS
<1>3. PICK g \in 0 .. 3 : l \div 8 = g
  OBVIOUS
<1>4. 16 * (s \div 2) + 8 * (s % 2) = 8 * s
  BY <1>1
<1>5. <<0, 7, 14, 21>>[g + 1] = 7 * g
  BY <1>3
<1>6. ReadsDotIq2(r, c, s)[l + 1] = << 32 * s + l, << 8 * s + g, l % 8, 8 * s + 4, 7 * g >> >>
  BY <1>2, <1>3, <1>4, <1>5 DEF ReadsDotIq2
<1>7. ValueIq2(k) = << 8 * s + g, l % 8, 8 * s + 4, 7 * g >>
  BY <1>1, <1>3 DEF ValueIq2
<1> QED BY <1>l, <1>k, <1>6, <1>7 DEF Pairs

LEMMA Reads_q4_0_my ==
    ASSUME Followed, kernel = "q4_0_my", NEW s \in 0 .. 7, s = 0, NEW i \in 1 .. 32
    PROVE  Pairs(Reads(s)[i], PlaceA(IndexOf(s, i)), PlaceW(IndexOf(s, i)))
<1>1. row \in 0 .. K.mr - 1 /\ lane \in 0 .. 31
  BY LaneFacts DEF Followed
<1> QED BY <1>1, KernelFacts, Odd DEF Followed, Reads, PlaceA, PlaceW, IndexOf, InOrder, Pairs, Reads8x32, Both, PlaceA8, PlaceB32

LEMMA Reads_q4_0_group ==
    ASSUME Followed, kernel = "q4_0_group", NEW s \in 0 .. 7, s = 0, NEW i \in 1 .. 32
    PROVE  Pairs(Reads(s)[i], PlaceA(IndexOf(s, i)), PlaceW(IndexOf(s, i)))
<1>1. row \in 0 .. K.mr - 1 /\ lane \in 0 .. 31
  BY LaneFacts DEF Followed
<1> QED BY <1>1, KernelFacts, Odd DEF Followed, Reads, PlaceA, PlaceW, IndexOf, InOrder, Pairs, Reads12x32, Both, PlaceA12Group, PlaceB32Group

LEMMA Reads_q4_0_upstream ==
    ASSUME Followed, kernel = "q4_0_upstream", NEW s \in 0 .. 7, s = 0, NEW i \in 1 .. 32
    PROVE  Pairs(Reads(s)[i], PlaceA(IndexOf(s, i)), PlaceW(IndexOf(s, i)))
<1>1. row \in 0 .. K.mr - 1 /\ lane \in 0 .. 31
  BY LaneFacts DEF Followed
<1> QED BY <1>1, KernelFacts, Odd DEF Followed, Reads, PlaceA, PlaceW, IndexOf, InOrder, Pairs, ReadsDotQ4_0, Both, ValueQ4_0

LEMMA Reads_q4_0_ime2 ==
    ASSUME Followed, kernel = "q4_0_ime2", NEW s \in 0 .. 7, s = 0, NEW i \in 1 .. 32
    PROVE  Pairs(Reads(s)[i], PlaceA(IndexOf(s, i)), PlaceW(IndexOf(s, i)))
<1>2. PICK k : k = 32 * s + (i - 1)
  OBVIOUS
<1>3. IndexOf(s, i) = k
  BY <1>2 DEF IndexOf, InOrder
<1>4. Pairs(ReadsIme2(row, lane, s)[i], PlaceA4Ime2(row, k), PlaceB32Ime2(lane, k))
  <2>1. row \in 0 .. 11 /\ lane \in 0 .. 31
    BY LaneFacts
  <2> QED BY ONLY <1>2, <2>1, s \in 0 .. 7, s = 0, i \in 1 .. 32, ReadsIme2Pairs
<1>5. Reads(s) = ReadsIme2(row, lane, s)
  BY Zenon DEF Reads
<1>6. PlaceA(k) = PlaceA4Ime2(row, k) /\ PlaceW(k) = PlaceB32Ime2(lane, k)
  BY DEF PlaceA, PlaceW
<1> QED BY ONLY <1>3, <1>4, <1>5, <1>6

LEMMA Reads_q4_K_my ==
    ASSUME Followed, kernel = "q4_K_my", NEW s \in 0 .. 7, NEW i \in 1 .. 32
    PROVE  Pairs(Reads(s)[i], PlaceA(IndexOf(s, i)), PlaceW(IndexOf(s, i)))
<1>2. PICK k : k = 32 * s + (i - 1)
  OBVIOUS
<1>3. IndexOf(s, i) = k
  BY <1>2 DEF IndexOf, InOrder
<1>4. Pairs(ReadsQ4_K(row, lane, s)[i], PlaceA12(row, k), PlaceWPairs(lane, k))
  <2>1. row \in 0 .. 11 /\ lane \in 0 .. 31
    BY LaneFacts
  <2> QED BY ONLY <1>2, <2>1, s \in 0 .. 7, i \in 1 .. 32, ReadsQ4_KPairs
<1>5. Reads(s) = ReadsQ4_K(row, lane, s)
  BY Zenon DEF Reads
<1>6. PlaceA(k) = PlaceA12(row, k) /\ PlaceW(k) = PlaceWPairs(lane, k)
  BY DEF PlaceA, PlaceW
<1> QED BY ONLY <1>3, <1>4, <1>5, <1>6

LEMMA Reads_q4_K_group ==
    ASSUME Followed, kernel = "q4_K_group", NEW s \in 0 .. 7, NEW i \in 1 .. 32
    PROVE  Pairs(Reads(s)[i], PlaceA(IndexOf(s, i)), PlaceW(IndexOf(s, i)))
<1>2. PICK k : k = 32 * s + (i - 1)
  OBVIOUS
<1>3. IndexOf(s, i) = k
  BY <1>2 DEF IndexOf, InOrder
<1>4. Pairs(ReadsQ4_KGroup(row, lane, s)[i], PlaceA4(row, k), PlaceWGroups(lane, k))
  <2>1. row \in 0 .. 11 /\ lane \in 0 .. 31
    BY LaneFacts
  <2> QED BY ONLY <1>2, <2>1, s \in 0 .. 7, i \in 1 .. 32, ReadsQ4_KGroupPairs
<1>5. Reads(s) = ReadsQ4_KGroup(row, lane, s)
  BY Zenon DEF Reads
<1>6. PlaceA(k) = PlaceA4(row, k) /\ PlaceW(k) = PlaceWGroups(lane, k)
  BY DEF PlaceA, PlaceW
<1> QED BY ONLY <1>3, <1>4, <1>5, <1>6

LEMMA Reads_q4_K_upstream ==
    ASSUME Followed, kernel = "q4_K_upstream", NEW s \in 0 .. 7, NEW i \in 1 .. 32
    PROVE  Pairs(Reads(s)[i], PlaceA(IndexOf(s, i)), PlaceW(IndexOf(s, i)))
<1>2. PICK k : k = 32 * s + (i - 1)
  OBVIOUS
<1>3. IndexOf(s, i) = k
  BY <1>2 DEF IndexOf, InOrder
<1>4. Pairs(ReadsDotQ4_K(row, lane, s)[i], k, ValueQ4_K(k))
  <2>1. row \in 0 .. 11 /\ lane \in 0 .. 31
    BY LaneFacts
  <2> QED BY ONLY <1>2, <2>1, s \in 0 .. 7, i \in 1 .. 32, ReadsDotQ4_KPairs
<1>5. Reads(s) = ReadsDotQ4_K(row, lane, s)
  BY Zenon DEF Reads
<1>6. PlaceA(k) = k /\ PlaceW(k) = ValueQ4_K(k)
  BY DEF PlaceA, PlaceW
<1> QED BY ONLY <1>3, <1>4, <1>5, <1>6

LEMMA Reads_q4_K_upstream_128 ==
    ASSUME Followed, kernel = "q4_K_upstream_128", NEW s \in 0 .. 7, NEW i \in 1 .. 32
    PROVE  Pairs(Reads(s)[i], PlaceA(IndexOf(s, i)), PlaceW(IndexOf(s, i)))
<1>2. PICK k : k = 32 * s + (i - 1)
  OBVIOUS
<1>3. IndexOf(s, i) = k
  BY <1>2 DEF IndexOf, InOrder
<1>4. Pairs(ReadsDot128(row, lane, s)[i], k, ValueQ4_K(k))
  <2>1. row \in 0 .. 11 /\ lane \in 0 .. 31
    BY LaneFacts
  <2> QED BY ONLY <1>2, <2>1, s \in 0 .. 7, i \in 1 .. 32, ReadsDot128Pairs
<1>5. Reads(s) = ReadsDot128(row, lane, s)
  BY Zenon DEF Reads
<1>6. PlaceA(k) = k /\ PlaceW(k) = ValueQ4_K(k)
  BY DEF PlaceA, PlaceW
<1> QED BY ONLY <1>3, <1>4, <1>5, <1>6

LEMMA Reads_iq2 ==
    ASSUME Followed, kernel \in {"iq2_br", "iq2_ir"}, NEW s \in 0 .. 7, NEW i \in 1 .. 32
    PROVE  Pairs(Reads(s)[i], PlaceA(IndexOf(s, i)), PlaceW(IndexOf(s, i)))
<1>2. PICK k : k = 32 * s + (i - 1)
  OBVIOUS
<1>3. IndexOf(s, i) = k
  BY <1>2 DEF IndexOf, InOrder
<1>4. /\ Pairs(ReadsIq2(row, lane, s)[i], PlaceA12(row, k), PlaceWIq2(lane, k))
      /\ Pairs(ReadsIq2(row, lane, s)[i], PlaceA12(row, k), PlaceWIq2Ir(lane, k))
  <2>1. row \in 0 .. 11 /\ lane \in 0 .. 31
    BY LaneFacts
  <2> QED BY ONLY <1>2, <2>1, s \in 0 .. 7, i \in 1 .. 32, ReadsIq2Pairs
<1>5. Reads(s) = ReadsIq2(row, lane, s)
  BY Zenon DEF Reads
<1>6. PlaceA(k) = PlaceA12(row, k) /\ PlaceW(k) \in {PlaceWIq2(lane, k), PlaceWIq2Ir(lane, k)}
  <2>1. CASE kernel = "iq2_br"
    BY <2>1 DEF PlaceA, PlaceW
  <2>2. CASE kernel = "iq2_ir"
    BY <2>2 DEF PlaceA, PlaceW
  <2> QED BY <2>1, <2>2
<1> QED BY ONLY <1>3, <1>4, <1>5, <1>6

LEMMA Reads_iq2_upstream ==
    ASSUME Followed, kernel = "iq2_upstream", NEW s \in 0 .. 7, NEW i \in 1 .. 32
    PROVE  Pairs(Reads(s)[i], PlaceA(IndexOf(s, i)), PlaceW(IndexOf(s, i)))
<1>2. PICK k : k = 32 * s + (i - 1)
  OBVIOUS
<1>3. IndexOf(s, i) = k
  BY <1>2 DEF IndexOf, InOrder
<1>4. Pairs(ReadsDotIq2(row, lane, s)[i], k, ValueIq2(k))
  <2>1. row \in 0 .. 11 /\ lane \in 0 .. 31
    BY LaneFacts
  <2> QED BY ONLY <1>2, <2>1, s \in 0 .. 7, i \in 1 .. 32, ReadsDotIq2Pairs
<1>5. Reads(s) = ReadsDotIq2(row, lane, s)
  BY Zenon DEF Reads
<1>6. PlaceA(k) = k /\ PlaceW(k) = ValueIq2(k)
  BY DEF PlaceA, PlaceW
<1> QED BY ONLY <1>3, <1>4, <1>5, <1>6

LEMMA ReadsAre ==
    ASSUME Followed, NEW s \in 0 .. Subblocks - 1, NEW i \in 1 .. 32
    PROVE  Pairs(Reads(s)[i], PlaceA(IndexOf(s, i)), PlaceW(IndexOf(s, i)))
<1>1. s \in 0 .. 7
  BY SubblockFacts
<1>2. kernel \in {"q4_0_my", "q4_0_group", "q4_0_upstream", "q4_0_ime2"} => s = 0
  BY SubblockFacts
<1>3. kernel \in KernelNames
  BY DEF Followed
<1> QED
  BY ONLY <1>1, <1>2, <1>3, Followed, i \in 1 .. 32,
     Reads_q4_0_my,
     Reads_q4_0_group,
     Reads_q4_0_upstream,
     Reads_q4_0_ime2,
     Reads_q4_K_my,
     Reads_q4_K_group,
     Reads_q4_K_upstream,
     Reads_q4_K_upstream_128,
     Reads_iq2,
     Reads_iq2_upstream
  DEF KernelNames

LEMMA ReadsDomain ==
    ASSUME Followed, NEW s
    PROVE  DOMAIN Reads(s) = 1 .. 32 /\ Len(Reads(s)) = 32
<1>1. kernel \in KernelNames
  BY DEF Followed
<1>2. Reads(s) = [i \in 1 .. 32 |-> Reads(s)[i]]
  <2>1. Reads8x32(row, lane, s) = [i \in 1 .. 32 |-> Reads8x32(row, lane, s)[i]]
    BY DEF Reads8x32, Both
  <2>2. Reads12x32(row, lane, s) = [i \in 1 .. 32 |-> Reads12x32(row, lane, s)[i]]
    BY DEF Reads12x32, Both
  <2>3. ReadsDotQ4_0(row, lane, s) = [i \in 1 .. 32 |-> ReadsDotQ4_0(row, lane, s)[i]]
    BY DEF ReadsDotQ4_0, Both
  <2>4. ReadsIme2(row, lane, s) = [i \in 1 .. 32 |-> ReadsIme2(row, lane, s)[i]]
    BY DEF ReadsIme2
  <2>5. ReadsQ4_K(row, lane, s) = [i \in 1 .. 32 |-> ReadsQ4_K(row, lane, s)[i]]
    BY DEF ReadsQ4_K, Both
  <2>6. ReadsQ4_KGroup(row, lane, s) = [i \in 1 .. 32 |-> ReadsQ4_KGroup(row, lane, s)[i]]
    BY DEF ReadsQ4_KGroup
  <2>7. ReadsDotQ4_K(row, lane, s) = [i \in 1 .. 32 |-> ReadsDotQ4_K(row, lane, s)[i]]
    BY DEF ReadsDotQ4_K
  <2>8. ReadsDot128(row, lane, s) = [i \in 1 .. 32 |-> ReadsDot128(row, lane, s)[i]]
    BY DEF ReadsDot128
  <2>9. ReadsIq2(row, lane, s) = [i \in 1 .. 32 |-> ReadsIq2(row, lane, s)[i]]
    BY DEF ReadsIq2
  <2>10. ReadsDotIq2(row, lane, s) = [i \in 1 .. 32 |-> ReadsDotIq2(row, lane, s)[i]]
    BY DEF ReadsDotIq2
  <2> QED BY <1>1, <2>1, <2>2, <2>3, <2>4, <2>5, <2>6, <2>7, <2>8, <2>9, <2>10, Zenon DEF KernelNames, Reads
<1>3. DOMAIN Reads(s) = 1 .. 32
  BY <1>2
<1>4. Reads(s) \in Seq({Reads(s)[i] : i \in 1 .. 32})
  BY <1>2
<1> QED BY ONLY <1>3, <1>4

LEMMA IndexOfIs ==
    ASSUME Followed, NEW s \in 0 .. Subblocks - 1
    PROVE  /\ \A i \in 1 .. 32 : IndexOf(s, i) \in Indices(s)
           /\ \A k \in Indices(s) : \E i \in 1 .. 32 : IndexOf(s, i) = k
<1>1. s \in 0 .. 7
  BY SubblockFacts
<1>2. CASE kernel \in InOrder
  <2>1. \A i : IndexOf(s, i) = 32 * s + i - 1
    BY <1>2 DEF IndexOf
  <2>2. \A i \in 1 .. 32 : IndexOf(s, i) \in Indices(s)
    BY <1>1, <2>1 DEF Indices
  <2>3. ASSUME NEW k \in Indices(s)
        PROVE  \E i \in 1 .. 32 : IndexOf(s, i) = k
    <3>1. k - 32 * s + 1 \in 1 .. 32 /\ 32 * s + (k - 32 * s + 1) - 1 = k
      BY <1>1 DEF Indices
    <3> QED BY <2>1, <3>1
  <2> QED BY <2>2, <2>3
<1>3. CASE kernel \notin InOrder
  <2>1. s = 0
    BY <1>3, SubblockFacts DEF Followed, KernelNames, InOrder
  <2>2. \A i : IndexOf(s, i) = IF i % 2 = 1 THEN i \div 2 ELSE 16 + (i \div 2 - 1)
    BY <1>3 DEF IndexOf
  <2>3. Indices(s) = 0 .. 31
    BY <2>1 DEF Indices
  <2>4. ASSUME NEW i \in 1 .. 32
        PROVE  IndexOf(s, i) \in 0 .. 31
    BY <2>2, Odd
  <2>5. ASSUME NEW k \in 0 .. 31
        PROVE  \E i \in 1 .. 32 : IndexOf(s, i) = k
    <3>1. CASE k < 16
      <4>1. 2 * k + 1 \in 1 .. 32 /\ (2 * k + 1) % 2 = 1 /\ (2 * k + 1) \div 2 = k
        BY <3>1
      <4> QED BY <4>1, <2>2
    <3>2. CASE k >= 16
      <4>1. PICK j \in 0 .. 15 : k = 16 + j
        <5>1. k - 16 \in 0 .. 15 /\ k = 16 + (k - 16)
          BY <3>2
        <5> QED BY <5>1
      <4>2. 2 * j + 2 \in 1 .. 32 /\ (2 * j + 2) % 2 # 1 /\ 16 + ((2 * j + 2) \div 2 - 1) = k
        BY <4>1
      <4> QED BY <4>2, <2>2
    <3> QED BY <3>1, <3>2
  <2> QED BY <2>3, <2>4, <2>5
<1> QED BY <1>2, <1>3

\* prepare() takes every weight from the place where the reference reads it.
LEMMA TakenIs ==
    ASSUME Followed, NEW s \in 0 .. Subblocks - 1, NEW k \in Indices(s)
    PROVE  Taken(k) = ReferenceValue(k)
<1>1. s \in 0 .. 7
  BY SubblockFacts
<1>2. PICK l \in 0 .. 31 : k = 32 * s + l
  <2>1. k - 32 * s \in 0 .. 31 /\ k = 32 * s + (k - 32 * s)
    BY <1>1 DEF Indices
  <2> QED BY <2>1
<1>3. /\ k \div 32 = s /\ k % 32 = l
      /\ k \div 64 = s \div 2
      /\ k % 64 = 32 * (s % 2) + l
      /\ s % 2 \in {0, 1} /\ s \div 2 \in 0 .. 3
      /\ k % 8 = l % 8
  BY <1>1, <1>2, IndexSplit
<1>4. Q4Value(k) = ValueQ4_K(k)
  BY <1>3 DEF Q4Value, ValueQ4_K
<1>5. Iq2Subblock(k) = ValueIq2(k)
  <2>1. PICK g \in 0 .. 3 : l \div 8 = g
    OBVIOUS
  <2>2. <<0, 7, 14, 21>>[g + 1] = 7 * g
    BY <2>1
  <2> QED BY <1>1, <1>3, <2>1, <2>2 DEF Iq2Subblock, ValueIq2
<1>8. Iq2SubblockIr(k) = ValueIq2(k)
  <2>1. PICK g \in 0 .. 3 : l \div 8 = g
    OBVIOUS
  <2>2. <<0, 7, 14, 21>>[g + 1] = 7 * g
    BY <2>1
  <2>3. 2 * (s * (32 \div 8)) = 8 * s
    BY <1>1
  <2> QED BY <1>1, <1>3, <2>1, <2>2, <2>3 DEF Iq2SubblockIr, ValueIq2
<1>6. kernel \in KernelNames
  BY DEF Followed
<1>7. K.format = IF kernel \in {"q4_0_my", "q4_0_group", "q4_0_upstream", "q4_0_ime2"} THEN "q4_0"
                 ELSE IF kernel \in {"iq2_br", "iq2_ir", "iq2_upstream"} THEN "iq2_xxs" ELSE "q4_K"
  BY <1>6, KernelFacts
<1> QED
  BY ONLY <1>4, <1>5, <1>8, <1>6, <1>7 DEF KernelNames, Taken, ReferenceValue, ValueQ4_0

LEMMA DotIsAll ==
    ASSUME Followed, NEW s \in 0 .. Subblocks - 1
    PROVE  Dot(s) = "all"
<1>1. DOMAIN Reads(s) = 1 .. 32 /\ Len(Reads(s)) = 32
  BY ReadsDomain
<1>2. \A i \in 1 .. 32 : Reads(s)[i] = << PlaceA(IndexOf(s, i)), PlaceW(IndexOf(s, i)) >>
  BY ReadsAre DEF Pairs
<1>3. Range(Reads(s)) = { << PlaceA(k), PlaceW(k) >> : k \in Indices(s) }
  <2> DEFINE T == { << PlaceA(k), PlaceW(k) >> : k \in Indices(s) }
  <2>1. \A i \in 1 .. 32 : Reads(s)[i] \in T
    BY <1>2, IndexOfIs
  <2>2. \A t \in T : \E i \in 1 .. 32 : Reads(s)[i] = t
    <3>1. TAKE t \in T
    <3>2. PICK k \in Indices(s) : t = << PlaceA(k), PlaceW(k) >>
      OBVIOUS
    <3>3. PICK i \in 1 .. 32 : IndexOf(s, i) = k
      BY IndexOfIs
    <3> QED BY <1>2, <3>2, <3>3
  <2> QED BY ONLY <1>1, <2>1, <2>2, RangeIs
<1>4. \A k \in Indices(s) : Taken(k) = ReferenceValue(k)
  BY TakenIs
<1> QED BY <1>1, <1>3, <1>4, Zenon DEF Dot

----------------------------------------------------------------------------
(* Scales and minima.                                                       *)

LEMMA GroupScales ==
    ASSUME NEW s \in 0 .. 7, NEW c \in 0 .. 31
    PROVE  /\ PackedGroupScale(c, s) = ReadGroupScale(c, s)
           /\ PackedGroupMin(c, s) = ReadGroupMin(c, s)
<1>1. PICK w \in 0 .. 7, b \in 0 .. 3 : c = 4 * w + b
  <2>1. c \div 4 \in 0 .. 7 /\ c % 4 \in 0 .. 3 /\ c = 4 * (c \div 4) + (c % 4)
    OBVIOUS
  <2> QED BY <2>1
<1>2. c \div 4 = w /\ c % 4 = b
  BY <1>1
<1>3. PICK h \in 0 .. 3, p \in 0 .. 1 : s \div 2 = h /\ s % 2 = p
  OBVIOUS
<1>4. PICK g \in Int : g = 96 * (s \div 2) + 48 * (s % 2)
  BY <1>3
<1>5. GroupAt(s) = g
  BY <1>4 DEF GroupAt
<1>6. CASE w < 4
  <2>1. w % 4 = w /\ (8 + w) % 4 = w /\ c < 16
    BY <1>1, <1>6
  <2>2. Utmp16(w, b) = { <<c, "six">> }
    <3>1. Utmp16(w, b) = { <<4 * w + b, "six">> }
      BY <1>6, <2>1 DEF Utmp16
    <3>2. 4 * w + b = c
      BY <1>1, <1>6
    <3> QED BY ONLY <3>1, <3>2
  <2>3. Utmp16(8 + w, b) = { <<16 + c, "six">> }
    <3>1. Utmp16(8 + w, b) = { <<4 * (4 + w) + b, "six">> }
      BY <1>6, <2>1 DEF Utmp16
    <3>2. 4 * (4 + w) + b = 16 + c
      BY <1>1, <1>6
    <3> QED BY ONLY <3>1, <3>2
  <2>4. PackedGroupScale(c, s) = { <<g + c, "six">> }
    BY <1>1, <1>4, <2>1, <1>5 DEF PackedGroupScale
  <2>5. ReadGroupScale(c, s) = { <<g + c, "six">> }
    <3>1. ReadGroupScale(c, s) = FromGroup({ <<c, "six">> }, s)
      BY <1>2, <2>2 DEF ReadGroupScale
    <3> QED BY ONLY <3>1, <1>4 DEF FromGroup
  <2>6. PackedGroupMin(c, s) = { <<g + (16 + c), "six">> }
    BY <1>1, <1>4, <2>1, <1>5 DEF PackedGroupMin
  <2>7. ReadGroupMin(c, s) = { <<g + (16 + c), "six">> }
    <3>1. ReadGroupMin(c, s) = FromGroup({ <<16 + c, "six">> }, s)
      BY <1>2, <2>3 DEF ReadGroupMin
    <3> QED BY ONLY <3>1, <1>4 DEF FromGroup
  <2> QED BY ONLY <2>4, <2>5, <2>6, <2>7
<1>7. CASE w >= 4
  <2>1. w % 4 = (w - 4) /\ (8 + w) % 4 = (w - 4) /\ ~ (c < 16)
    BY <1>1, <1>7
  <2>2. Utmp16(w, b) = { <<16 + c, "low">>, <<c - 16, "top">> }
    <3>1. Utmp16(w, b) = { <<4 * (8 + (w - 4)) + b, "low">>, <<4 * (w - 4) + b, "top">> }
      BY <1>7, <2>1 DEF Utmp16
    <3>2. 4 * (8 + (w - 4)) + b = 16 + c /\ 4 * (w - 4) + b = c - 16
      BY <1>1, <1>7
    <3> QED BY ONLY <3>1, <3>2
  <2>3. Utmp16(8 + w, b) = { <<16 + c, "high">>, <<c, "top">> }
    <3>1. Utmp16(8 + w, b) = { <<4 * (8 + (w - 4)) + b, "high">>, <<4 * (4 + (w - 4)) + b, "top">> }
      BY <1>7, <2>1 DEF Utmp16
    <3>2. 4 * (8 + (w - 4)) + b = 16 + c /\ 4 * (4 + (w - 4)) + b = c
      BY <1>1, <1>7
    <3> QED BY ONLY <3>1, <3>2
  <2>4. PackedGroupScale(c, s) = { <<g + (16 + c), "low">>, <<g + (c - 16), "top">> }
    BY <1>1, <1>4, <2>1, <1>5 DEF PackedGroupScale
  <2>5. ReadGroupScale(c, s) = { <<g + (16 + c), "low">>, <<g + (c - 16), "top">> }
    <3>1. ReadGroupScale(c, s) = FromGroup({ <<16 + c, "low">>, <<c - 16, "top">> }, s)
      BY <1>2, <2>2 DEF ReadGroupScale
    <3> QED BY ONLY <3>1, <1>4 DEF FromGroup
  <2>6. PackedGroupMin(c, s) = { <<g + (16 + c), "high">>, <<g + c, "top">> }
    BY <1>1, <1>4, <2>1, <1>5 DEF PackedGroupMin
  <2>7. ReadGroupMin(c, s) = { <<g + (16 + c), "high">>, <<g + c, "top">> }
    <3>1. ReadGroupMin(c, s) = FromGroup({ <<16 + c, "high">>, <<c, "top">> }, s)
      BY <1>2, <2>3 DEF ReadGroupMin
    <3> QED BY ONLY <3>1, <1>4 DEF FromGroup
  <2> QED BY ONLY <2>4, <2>5, <2>6, <2>7
<1> QED BY <1>6, <1>7

LEMMA DotScales ==
    ASSUME NEW s \in 0 .. 7, NEW c
    PROVE  /\ ScaleQ4_K(s) = ReadDotScale(c, s)
           /\ MinQ4_K(s) = ReadDotMin(c, s)
<1>2. CASE s < 4
  <2>1. s \div 4 = 0 /\ s % 4 = s
    BY <1>2
  <2>2. Utmp4(0, s) = { <<s, "six">> } /\ Utmp4(2, s) = { <<s + 4, "six">> }
    <3>1. 4 * 0 + s = s /\ 4 * 1 + s = s + 4
      OBVIOUS
    <3>2. Utmp4(0, s) = { <<4 * 0 + s, "six">> } /\ Utmp4(2, s) = { <<4 * 1 + s, "six">> }
      BY DEF Utmp4
    <3> QED BY ONLY <3>1, <3>2
  <2> QED BY <1>2, <2>1, <2>2 DEF ScaleQ4_K, MinQ4_K, ReadDotScale, ReadDotMin
<1>3. CASE s >= 4
  <2>1. s \div 4 = 1 /\ 2 + s \div 4 = 3 /\ s % 4 = s - 4
    BY <1>3
  <2>2. /\ Utmp4(1, s - 4) = { <<s + 4, "low">>, <<s - 4, "top">> }
        /\ Utmp4(3, s - 4) = { <<s + 4, "high">>, <<s, "top">> }
    <3>1. 4 * 0 + (s - 4) = s - 4 /\ 4 * 1 + (s - 4) = s /\ 4 * 2 + (s - 4) = s + 4
      OBVIOUS
    <3>2. /\ Utmp4(1, s - 4) = { <<4 * 2 + (s - 4), "low">>, <<4 * 0 + (s - 4), "top">> }
          /\ Utmp4(3, s - 4) = { <<4 * 2 + (s - 4), "high">>, <<4 * 1 + (s - 4), "top">> }
      BY DEF Utmp4
    <3> QED BY ONLY <3>1, <3>2
  <2>3. ReadDotScale(c, s) = Utmp4(1, s - 4) /\ ReadDotMin(c, s) = Utmp4(3, s - 4)
    BY <2>1 DEF ReadDotScale, ReadDotMin
  <2>4. ScaleQ4_K(s) = { <<s + 4, "low">>, <<s - 4, "top">> } /\ MinQ4_K(s) = { <<s + 4, "high">>, <<s, "top">> }
    BY <1>3 DEF ScaleQ4_K, MinQ4_K
  <2> QED BY <2>2, <2>3, <2>4
<1> QED BY <1>2, <1>3

LEMMA DotScales128 ==
    ASSUME NEW s \in 0 .. 7, NEW c
    PROVE  /\ ScaleQ4_K(s) = ReadDotScale128(c, s)
           /\ MinQ4_K(s) = ReadDotMin128(c, s)
<1>2. CASE s < 4
  <2>1. s \div 4 = 0 /\ s % 4 = s
    BY <1>2
  <2>2. Utmp128(0, s) = { <<s, "six">> } /\ Utmp128(2, s) = { <<s + 4, "six">> }
    <3>1. /\ 0 % 2 = 0 /\ 2 % 2 = 0 /\ 0 \div 2 = 0 /\ 2 \div 2 = 1
          /\ 4 * (0 + 1) + s - 4 = s /\ 4 * (1 + 1) + s - 4 = s + 4
      OBVIOUS
    <3> QED BY ONLY <3>1 DEF Utmp128
  <2>3. ReadDotScale128(c, s) = Utmp128(0, s) /\ ReadDotMin128(c, s) = Utmp128(2, s)
    BY <2>1 DEF ReadDotScale128, ReadDotMin128
  <2> QED BY <1>2, <2>2, <2>3 DEF ScaleQ4_K, MinQ4_K
<1>3. CASE s >= 4
  <2>1. s \div 4 = 1 /\ 2 + s \div 4 = 3 /\ s % 4 = s - 4
    BY <1>3
  <2>2. /\ Utmp128(1, s - 4) = { <<s + 4, "low">>, <<s - 4, "top">> }
        /\ Utmp128(3, s - 4) = { <<s + 4, "high">>, <<s, "top">> }
    <3>1. /\ 1 % 2 # 0 /\ 3 % 2 # 0 /\ 1 \div 2 = 0 /\ 3 \div 2 = 1
          /\ 4 * (0 + 1) + (s - 4) - 4 = s - 4 /\ 4 * (1 + 1) + (s - 4) - 4 = s
          /\ 4 * (2 + 1) + (s - 4) - 4 = s + 4
      OBVIOUS
    <3> QED BY ONLY <3>1 DEF Utmp128
  <2>3. ReadDotScale128(c, s) = Utmp128(1, s - 4) /\ ReadDotMin128(c, s) = Utmp128(3, s - 4)
    BY <2>1 DEF ReadDotScale128, ReadDotMin128
  <2>4. ScaleQ4_K(s) = { <<s + 4, "low">>, <<s - 4, "top">> } /\ MinQ4_K(s) = { <<s + 4, "high">>, <<s, "top">> }
    BY <1>3 DEF ScaleQ4_K, MinQ4_K
  <2> QED BY <2>2, <2>3, <2>4
<1> QED BY <1>2, <1>3

LEMMA ScaleIsOwn ==
    ASSUME Followed, NEW s \in 0 .. Subblocks - 1
    PROVE  ScaleRead(s) = "own"
<1>1. s \in 0 .. 7 /\ kernel \in KernelNames /\ lane \in 0 .. 31
  BY SubblockFacts, LaneFacts DEF Followed
<1>0. K.format = "q4_0" <=> kernel \in {"q4_0_my", "q4_0_group", "q4_0_upstream", "q4_0_ime2"}
  BY <1>1, KernelFacts
<1>2. 16 * (s \div 2) + 8 * (s % 2) = 8 * s
  BY <1>1
<1>3. CASE kernel = "q4_K_my"
  <2>1. UnpackedScale(s) = ScaleQ4_K(s)
    BY <1>1 DEF UnpackedScale, ScaleQ4_K
  <2> QED BY <1>3, <2>1 DEF ScaleRead, Own, Scale, PlaceScale32, ReadScale32
<1>4. CASE kernel = "q4_K_group"
  <2>1. Q4Scale(s) = ScaleQ4_K(s)
    BY <1>1 DEF Q4Scale, ScaleQ4_K
  <2>2. PackedGroupScale(lane, s) = ReadGroupScale(lane, s)
    BY <1>1, GroupScales
  <2> QED BY <1>4, <2>1, <2>2 DEF ScaleRead, Own, Scale
<1>5. CASE kernel = "q4_K_upstream"
  <2>1. ScaleQ4_K(s) = ReadDotScale(lane, s)
    BY <1>1, DotScales
  <2>2. Scale(s) = << ScaleQ4_K(s), ScaleQ4_K(s), ScaleQ4_K(s), ReadDotScale(lane, s) >>
    BY <1>0, <1>5 DEF Scale
  <2> QED BY ONLY <2>1, <2>2 DEF ScaleRead, Own
<1>9. CASE kernel = "q4_K_upstream_128"
  <2>1. ScaleQ4_K(s) = ReadDotScale128(lane, s)
    BY <1>1, DotScales128
  <2>2. Scale(s) = << ScaleQ4_K(s), ScaleQ4_K(s), ScaleQ4_K(s), ReadDotScale128(lane, s) >>
    BY <1>0, <1>9 DEF Scale
  <2> QED BY ONLY <2>1, <2>2 DEF ScaleRead, Own
<1>6. CASE kernel \in {"iq2_br", "iq2_ir"}
  <2>1. s * 8 + 4 = 8 * s + 4
    BY <1>1
  <2>2. Scale(s) = << ScaleIq2(s), { << s * 8 + 4, "top nibble" >> }, PlaceScale32(lane, s), ReadScale32(lane, s) >>
    BY <1>0, <1>6 DEF Scale
  <2>3. { << s * 8 + 4, "top nibble" >> } = ScaleIq2(s)
    BY <2>1 DEF ScaleIq2
  <2>4. PlaceScale32(lane, s) = ReadScale32(lane, s)
    BY DEF PlaceScale32, ReadScale32
  <2>5. Scale(s)[1] = Scale(s)[2] /\ Scale(s)[3] = Scale(s)[4]
    <3> HIDE DEF ScaleIq2, PlaceScale32, ReadScale32
    <3>1. PICK x, y : x = ScaleIq2(s) /\ y = ReadScale32(lane, s)
      OBVIOUS
    <3>2. Scale(s) = << x, x, y, y >>
      BY ONLY <2>2, <2>3, <2>4, <3>1
    <3> QED BY ONLY <3>2
  <2> QED BY ONLY <2>5 DEF ScaleRead, Own
<1>7. CASE kernel = "iq2_upstream"
  <2>1. ReadDotScaleIq2(lane, s) = ScaleIq2(s)
    BY <1>2 DEF ReadDotScaleIq2, ScaleIq2
  <2> QED BY <1>7, <2>1 DEF ScaleRead, Own, Scale
<1>8. CASE kernel \in {"q4_0_my", "q4_0_group", "q4_0_upstream", "q4_0_ime2"}
  <2>1. K.format = "q4_0"
    BY <1>8, <1>1, KernelFacts
  <2> QED BY <1>8, <2>1 DEF ScaleRead, Own, Scale
<1> QED BY ONLY <1>1, <1>3, <1>4, <1>5, <1>6, <1>7, <1>8, <1>9 DEF KernelNames

LEMMA MinimumIsOwn ==
    ASSUME Followed, NEW s \in 0 .. Subblocks - 1, HasMinima
    PROVE  MinRead(s) = "own"
<1>1. s \in 0 .. 7 /\ kernel \in KernelNames /\ row \in 0 .. 11 /\ lane \in 0 .. 31
  BY SubblockFacts, LaneFacts DEF Followed
<1>2. kernel \in {"q4_0_ime2", "q4_K_my", "q4_K_group", "q4_K_upstream", "q4_K_upstream_128"}
  BY <1>1, KernelFacts DEF HasMinima, KernelNames
<1>3. CASE kernel = "q4_0_ime2"
  <2>1. PlaceSumIme2(row) = 16 + 2 * row
    BY <1>1 DEF PlaceSumIme2
  <2> QED BY <1>3, <2>1 DEF MinRead, Own, Minimum, Bsum
<1>4. CASE kernel = "q4_K_my"
  <2>1. UnpackedMin(s) = MinQ4_K(s)
    <3>1. 4 + s = s + 4 /\ 8 + s - 4 = s + 4 /\ 4 + s - 4 = s
      BY <1>1
    <3> QED BY ONLY <3>1 DEF UnpackedMin, MinQ4_K
  <2>2. s * 12 + row = row + s * 12
    BY <1>1
  <2> QED BY <1>4, <2>1, <2>2 DEF MinRead, Own, Minimum, Bsum, PlaceScale32, ReadScale32, ReadBsum12
<1>5. CASE kernel = "q4_K_group"
  <2>1. Q4Min(s) = MinQ4_K(s)
    BY <1>1 DEF Q4Min, MinQ4_K
  <2>2. PackedGroupMin(lane, s) = ReadGroupMin(lane, s)
    BY <1>1, GroupScales
  <2>3. s * 4 + row = row + 4 * (s % 2) + (s \div 2) * 8
    BY <1>1
  <2> QED BY <1>5, <2>1, <2>2, <2>3 DEF MinRead, Own, Minimum, Bsum, ReadBsum4
<1>6. CASE kernel = "q4_K_upstream"
  <2>1. MinQ4_K(s) = ReadDotMin(lane, s)
    BY <1>1, DotScales
  <2> QED BY <1>6, <2>1 DEF MinRead, Own, Minimum, Bsum, BsumsOf, ReadBsums
<1>7. CASE kernel = "q4_K_upstream_128"
  <2>1. MinQ4_K(s) = ReadDotMin128(lane, s)
    BY <1>1, DotScales128
  <2> QED BY <1>7, <2>1 DEF MinRead, Own, Minimum, Bsum, BsumsOf, ReadBsums
<1> QED BY ONLY <1>2, <1>3, <1>4, <1>5, <1>6, <1>7

----------------------------------------------------------------------------
(* The loops.                                                               *)

Cells == (0 .. TilesM - 1) \X (0 .. TilesN - 1)

LEMMA MultipleBelow ==
    ASSUME NEW D \in Nat \ {0}, NEW a \in Nat, NEW b \in Nat, a % D = 0, b % D = 0, a < b
    PROVE  b - D \in Nat /\ (b - D) % D = 0 /\ a <= b - D
<1>1. PICK p \in Nat : a = D * p
  <2>1. a \div D \in Nat /\ a = D * (a \div D)
    OBVIOUS
  <2> QED BY <2>1
<1>2. PICK q \in Nat : b = D * q
  <2>1. b \div D \in Nat /\ b = D * (b \div D)
    OBVIOUS
  <2> QED BY <2>1
<1>3. p < q
  <2>1. p >= q => D * p >= D * q
    OBVIOUS
  <2> QED BY <1>1, <1>2, <2>1
<1>4. b - D = D * (q - 1)
  BY <1>2
<1>5. p <= q - 1 /\ q - 1 \in Nat
  BY <1>3
<1>6. D * p <= D * (q - 1) /\ D * (q - 1) \in Nat
  BY <1>5
<1>7. (D * (q - 1)) % D = 0
  BY <1>5
<1> QED BY ONLY <1>1, <1>4, <1>6, <1>7

LEMMA LastMultiple ==
    ASSUME NEW D \in Nat \ {0}, NEW N \in Nat \ {0}
    PROVE  \E f \in 0 .. N - 1 : f % D = 0 /\ N - f <= D
<1>1. PICK q \in Nat, r \in 0 .. D - 1 : N - 1 = D * q + r
  <2>1. (N - 1) \div D \in Nat /\ (N - 1) % D \in 0 .. D - 1 /\ N - 1 = D * ((N - 1) \div D) + ((N - 1) % D)
    OBVIOUS
  <2> QED BY <2>1
<1>2. PICK f \in Nat : f = D * q
  OBVIOUS
<1>3. f % D = 0
  BY <1>2
<1>4. f \in 0 .. N - 1 /\ N - f <= D
  BY ONLY <1>1, <1>2, f \in Nat, D \in Nat \ {0}, N \in Nat \ {0}, r \in 0 .. D - 1
<1> QED BY <1>3, <1>4

LEMMA DepthIs ==
    ASSUME Followed
    PROVE  /\ Depth \in Nat \ {0}
           /\ kernel # "iq2_br" => Depth = Blocks /\ K.depth = 0
           /\ kernel = "iq2_br" => Depth = KcBlocks /\ K.depth # 0
<1>1. K.depth = IF kernel = "iq2_br" THEN KcBlocks ELSE 0
  BY KernelFacts DEF Followed
<1> QED BY ONLY <1>1, RvvTileAssumption DEF Depth

LEMMA CallFacts ==
    ASSUME Followed, NEW c \in Calls
    PROVE  /\ c.m \in 0 .. TilesM - 1 /\ c.n \in 0 .. TilesN - 1 /\ c.first \in 0 .. Blocks - 1
           /\ c.first % Depth = 0
           /\ c.depth = Lesser(Depth, Blocks - c.first)
           /\ c.depth \in 1 .. Blocks /\ c.first + c.depth <= Blocks
           /\ kernel # "iq2_br" => c.first = 0 /\ c.depth = Blocks
<1>1. Depth \in Nat \ {0} /\ (kernel # "iq2_br" => Depth = Blocks)
  BY DepthIs
<1>2. PICK m \in 0 .. TilesM - 1, n \in 0 .. TilesN - 1, f \in { b \in 0 .. Blocks - 1 : b % Depth = 0 } :
        c = [m |-> m, n |-> n, first |-> f, depth |-> Lesser(Depth, Blocks - f)]
  BY ONLY c \in Calls DEF Calls
<1>3. c.m = m /\ c.n = n /\ c.first = f /\ c.depth = Lesser(Depth, Blocks - f)
  BY <1>2
<1>4. f \in 0 .. Blocks - 1 /\ f % Depth = 0
  OBVIOUS
<1>5. Lesser(Depth, Blocks - f) \in 1 .. Blocks /\ f + Lesser(Depth, Blocks - f) <= Blocks
  BY <1>1, <1>4, RvvTileAssumption DEF Lesser
<1>6. Depth = Blocks => f = 0 /\ Lesser(Depth, Blocks - f) = Blocks
  <2>1. ASSUME Depth = Blocks PROVE f = 0
    <3>1. f % Blocks = f
      BY <1>4, RvvTileAssumption
    <3> QED BY <1>4, <2>1, <3>1
  <2>2. ASSUME Depth = Blocks PROVE Lesser(Blocks, Blocks - 0) = Blocks
    BY RvvTileAssumption DEF Lesser
  <2> QED BY <2>1, <2>2
<1> QED BY <1>1, <1>3, <1>4, <1>5, <1>6

LEMMA CallExists ==
    ASSUME Followed, NEW m \in 0 .. TilesM - 1, NEW n \in 0 .. TilesN - 1, NEW f \in 0 .. Blocks - 1, f % Depth = 0
    PROVE  \E c \in Calls : c.m = m /\ c.n = n /\ c.first = f
<1>1. [m |-> m, n |-> n, first |-> f, depth |-> Lesser(Depth, Blocks - f)] \in Calls
  BY DEF Calls
<1> QED BY <1>1

LEMMA CallsDiffer ==
    ASSUME NEW c \in Calls, NEW d \in Calls, c.m = d.m, c.n = d.n, c.first = d.first
    PROVE  c = d
BY DEF Calls

LEMMA BeforeIs ==
    ASSUME NEW c, NEW d
    PROVE  Before(c, d) <=>
             IF kernel = "iq2_br"
             THEN c.n < d.n \/ (c.n = d.n /\ (c.first < d.first \/ (c.first = d.first /\ c.m < d.m)))
             ELSE c.m < d.m \/ (c.m = d.m /\ (c.n < d.n \/ (c.n = d.n /\ c.first < d.first)))
<1> DEFINE x == LoopNest(c)
           y == LoopNest(d)
<1>1. Before(c, d) <=> x[1] < y[1] \/ (x[1] = y[1] /\ (x[2] < y[2] \/ (x[2] = y[2] /\ x[3] < y[3])))
  <2> DEFINE At(i) == x[i] < y[i] /\ \A j \in 1 .. i - 1 : x[j] = y[j]
  <2>1. At(1) <=> x[1] < y[1]
    <3>1. 1 .. 1 - 1 = {}
      OBVIOUS
    <3> QED BY <3>1
  <2>2. At(2) <=> x[2] < y[2] /\ x[1] = y[1]
    <3>1. 1 .. 2 - 1 = {1}
      OBVIOUS
    <3> QED BY <3>1
  <2>3. At(3) <=> x[3] < y[3] /\ x[1] = y[1] /\ x[2] = y[2]
    <3>1. 1 .. 3 - 1 = {1, 2}
      OBVIOUS
    <3> QED BY <3>1
  <2>4. 1 .. 3 = {1, 2, 3}
    OBVIOUS
  <2>5. Before(c, d) <=> \E i \in {1, 2, 3} : At(i)
    BY <2>4 DEF Before
  <2> HIDE DEF At, x, y
  <2> QED BY <2>1, <2>2, <2>3, <2>5, Zenon
<1>2. CASE kernel = "iq2_br"
  <2>1. x = <<c.n, c.first, c.m>> /\ y = <<d.n, d.first, d.m>>
    BY <1>2 DEF LoopNest
  <2> HIDE DEF x, y
  <2>2. x[1] = c.n /\ x[2] = c.first /\ x[3] = c.m /\ y[1] = d.n /\ y[2] = d.first /\ y[3] = d.m
    BY ONLY <2>1
  <2> QED BY <1>1, <1>2, <2>2, Zenon
<1>3. CASE kernel # "iq2_br"
  <2>1. x = <<c.m, c.n, c.first>> /\ y = <<d.m, d.n, d.first>>
    BY <1>3 DEF LoopNest
  <2> HIDE DEF x, y
  <2>2. x[1] = c.m /\ x[2] = c.n /\ x[3] = c.first /\ y[1] = d.m /\ y[2] = d.n /\ y[3] = d.first
    BY ONLY <2>1
  <2> QED BY <1>1, <1>3, <2>2, Zenon
<1> QED BY <1>2, <1>3

LEMMA LoopOrder ==
    ASSUME Followed
    PROVE  /\ \A c \in Calls : ~ Before(c, c)
           /\ \A c, d, e \in Calls : Before(c, d) /\ Before(d, e) => Before(c, e)
           /\ \A c, d \in Calls : c = d \/ Before(c, d) \/ Before(d, c)
<1>1. \A c \in Calls : c.m \in Int /\ c.n \in Int /\ c.first \in Int
  BY CallFacts, RvvTileAssumption
<1>2. ASSUME NEW c \in Calls PROVE ~ Before(c, c)
  BY <1>1, BeforeIs
<1>3. ASSUME NEW c \in Calls, NEW d \in Calls, NEW e \in Calls, Before(c, d), Before(d, e)
      PROVE  Before(c, e)
  BY <1>1, <1>3, BeforeIs
<1>4. ASSUME NEW c \in Calls, NEW d \in Calls
      PROVE  c = d \/ Before(c, d) \/ Before(d, c)
  BY <1>1, BeforeIs, CallsDiffer
<1> QED BY <1>2, <1>3, <1>4

----------------------------------------------------------------------------
(* The invariants.                                                          *)

\* The calls of this iteration that are complete.
Done == IF at = "idle" THEN Calls \ todo ELSE Calls \ (todo \cup {call})

\* Block b of a call's panel and its minima; those, and the blocks of the tile,
\* before block u.
BlockOf(c, b) == << c.m, c.n, c.first + b, c.first + b, {<<"all", "own">>} >>
MinimaOf(c, b) == << c.m, c.n, c.first + b, {"own"} >>
PanelSums(c, u) == [b \in 1 .. u |-> BlockOf(c, b - 1)]
PanelMinima(c, u) == [b \in 1 .. u |-> MinimaOf(c, b - 1)]
TileSums(c, u) == [b \in 1 .. u |-> << c.m, c.n, b - 1, b - 1, {<<"all", "own">>} >>]

\* The loops have passed exactly the calls before the current one.
LoopInv ==
    /\ iteration \in Nat
    /\ todo \in SUBSET Calls
    /\ at \in {"idle", "dot", "add", "minima", "store"}
    /\ at # "idle" => call \in Calls
    /\ at # "idle" \/ todo # {} => iteration > 0
    /\ at = "idle" => \A e \in todo, d \in Calls : Before(e, d) => d \in todo
    /\ at # "idle" => todo = { e \in Calls : Before(call, e) }

\* The unpacked weights are those of the call, or of the one before the next rows
\* of the same panel.
PanelInv ==
    /\ at # "idle" => panel = << call.n, call.first >>
    /\ at = "idle" /\ kernel = "iq2_br" =>
         \A e \in todo, d \in Calls \ todo :
           d.n = e.n /\ d.first = e.first /\ d.m = e.m - 1 => panel = << e.n, e.first >>

\* The sums hold the blocks of this call up to the block index.
SumInv ==
    /\ at \in {"dot", "add", "minima"} => bk \in 0 .. call.depth - 1
    /\ at \in {"dot", "add"} /\ bk # 0 => sum = PanelSums(call, bk)
    /\ at \in {"minima", "store"} => sum = PanelSums(call, call.depth)
    /\ at = "add" => block = BlockOf(call, bk)

MinimaInv ==
    /\ at = "minima" => K.pass = "second"
    /\ at \in {"dot", "add"} /\ bk # 0 /\ K.pass = "with the block" => mins = PanelMinima(call, bk)
    /\ at = "minima" /\ bk # 0 => mins = PanelMinima(call, bk)
    /\ at = "store" /\ HasMinima => mins = PanelMinima(call, call.depth)

\* The last complete panel of a tile has left the sums up to its end.
LastOf(c, calls) == c \in calls /\ \A d \in calls : d.m = c.m /\ d.n = c.n => d.first <= c.first
Holds(c) ==
    output[<<c.m, c.n>>] = << TileSums(c, c.first + c.depth), IF HasMinima THEN PanelMinima(c, c.depth) ELSE <<>> >>

OutputInv ==
    /\ DOMAIN output = Cells
    /\ iteration > 0 => \A c \in Calls : LastOf(c, Done) => Holds(c)

TileInv == Followed /\ LoopInv /\ PanelInv /\ SumInv /\ MinimaInv /\ OutputInv

\* What the kernel and the followed lane determine does not change with a step.
LEMMA Frame ==
    ASSUME kernel' = kernel, row' = row, lane' = lane
    PROVE  /\ Followed' = Followed /\ K' = K /\ HasMinima' = HasMinima
           /\ Calls' = Calls /\ \A c, d : Before(c, d)' = Before(c, d)
<1>1. K' = K
  BY DEF K, KernelQ4_0My, KernelQ4_0Group, KernelQ4_0Upstream, KernelQ4_0Ime2,
         KernelQ4_KMy, KernelQ4_KGroup, KernelQ4_KUpstream, KernelQ4_KUpstream128,
         KernelIq2Ir, KernelIq2Br, KernelIq2Upstream
<1>2. Depth' = Depth
  BY <1>1 DEF Depth
<1>3. Calls' = Calls
  BY <1>2 DEF Calls
<1>4. \A c : LoopNest(c)' = LoopNest(c)
  BY DEF LoopNest
<1>5. \A c, d : Before(c, d)' = Before(c, d)
  BY <1>4 DEF Before
<1>6. Followed' = Followed
  BY <1>1 DEF Followed
<1>7. HasMinima' = HasMinima
  BY <1>1 DEF HasMinima
<1> QED BY <1>1, <1>3, <1>5, <1>6, <1>7

LEMMA MinimaAre ==
    ASSUME Followed
    PROVE  HasMinima <=> K.pass # "none"
BY KernelFacts DEF Followed, HasMinima, KernelNames

LEMMA BlockIs ==
    ASSUME Followed
    PROVE  /\ {<< Dot(s), ScaleRead(s) >> : s \in 0 .. Subblocks - 1} = {<<"all", "own">>}
           /\ HasMinima => {MinRead(s) : s \in 0 .. Subblocks - 1} = {"own"}
<1>1. 0 \in 0 .. Subblocks - 1
  BY SubblockFacts
<1>2. \A s \in 0 .. Subblocks - 1 : Dot(s) = "all" /\ ScaleRead(s) = "own"
  BY DotIsAll, ScaleIsOwn
<1>3. HasMinima => \A s \in 0 .. Subblocks - 1 : MinRead(s) = "own"
  BY MinimumIsOwn
<1> QED BY ONLY <1>1, <1>2, <1>3

LEMMA TileInitInv == TileInit => TileInv
<1> SUFFICES ASSUME TileInit PROVE TileInv
  OBVIOUS
<1>1. kernel \in KernelNames
  BY RvvTileAssumption DEF TileInit
<1>2. Followed
  BY <1>1 DEF TileInit, Followed
<1> QED BY <1>2 DEF TileInit, TileInv, LoopInv, PanelInv, SumInv, MinimaInv, OutputInv, Cells

\* Within a call only its sums change.
LEMMA InCall ==
    ASSUME TileInv, kernel' = kernel, row' = row, lane' = lane, loop' = loop, output' = output,
           at # "idle", at' \in {"dot", "add", "minima", "store"}
    PROVE  Followed' /\ LoopInv' /\ PanelInv' /\ OutputInv'
<1>1. /\ Followed' = Followed /\ HasMinima' = HasMinima
      /\ Calls' = Calls /\ \A c, d : Before(c, d)' = Before(c, d)
  BY Frame
<1>2. iteration' = iteration /\ todo' = todo /\ call' = call /\ panel' = panel
  BY DEF loop
<1>3. Followed'
  BY <1>1 DEF TileInv
<1>4. LoopInv'
  <2>1. LoopInv
    BY DEF TileInv
  <2>2. { e \in Calls : Before(call, e) }' = { e \in Calls : Before(call, e) }
    <3>1. \A e : Before(call, e)' = Before(call, e)
      BY <1>1, <1>2 DEF Before, LoopNest
    <3> QED BY <1>1, <3>1
  <2> QED BY <1>1, <1>2, <2>1, <2>2 DEF LoopInv
<1>5. PanelInv'
  BY <1>2 DEF TileInv, PanelInv
<1>6. OutputInv'
  <2>1. Done' = Done
    BY <1>1, <1>2 DEF Done
  <2>2. \A c : LastOf(c, Done)' = LastOf(c, Done)
    BY <2>1 DEF LastOf
  <2>3. \A c : Holds(c)' = Holds(c)
    BY <1>1 DEF Holds, TileSums, PanelMinima, MinimaOf
  <2> QED BY <1>1, <1>2, <2>2, <2>3 DEF TileInv, OutputInv, Cells
<1> QED BY <1>3, <1>4, <1>5, <1>6

LEMMA AppendSums ==
    ASSUME NEW c, NEW u \in Nat
    PROVE  /\ Append(PanelSums(c, u), BlockOf(c, u)) = PanelSums(c, u + 1)
           /\ Append(PanelMinima(c, u), MinimaOf(c, u)) = PanelMinima(c, u + 1)
           /\ PanelSums(c, 0) = <<>> /\ PanelMinima(c, 0) = <<>>
<1>1. (u + 1) - 1 = u /\ u + 1 \in Nat /\ 1 .. 0 = {}
  OBVIOUS
<1>2. Len(PanelSums(c, u)) = u /\ Len(PanelMinima(c, u)) = u
  BY DEF PanelSums, PanelMinima
<1>3. Append(PanelSums(c, u), BlockOf(c, u)) = PanelSums(c, u + 1)
  BY <1>1, <1>2 DEF PanelSums
<1>4. Append(PanelMinima(c, u), MinimaOf(c, u)) = PanelMinima(c, u + 1)
  BY <1>1, <1>2 DEF PanelMinima
<1>5. PanelSums(c, 0) = <<>> /\ PanelMinima(c, 0) = <<>>
  BY <1>1 DEF PanelSums, PanelMinima
<1> QED BY <1>3, <1>4, <1>5

LEMMA MultiplyInv ==
    ASSUME TileInv, Multiply
    PROVE  TileInv'
<1>1. /\ at = "dot" /\ at' = "add" /\ kernel' = kernel /\ row' = row /\ lane' = lane /\ loop' = loop
      /\ bk' = bk /\ sum' = sum /\ mins' = mins /\ output' = output
  BY DEF Multiply
<1>2. Followed' /\ LoopInv' /\ PanelInv' /\ OutputInv'
  BY <1>1, InCall
<1>3. K' = K /\ HasMinima' = HasMinima /\ call' = call
  BY <1>1, Frame DEF loop
<1>4. Followed /\ panel = << call.n, call.first >>
  BY <1>1 DEF TileInv, PanelInv
<1>5. block' = BlockOf(call, bk)
  <2>1. block' = << call.m, panel[1], call.first + bk, panel[2] + bk,
                    {<< Dot(s), ScaleRead(s) >> : s \in 0 .. Subblocks - 1} >>
    BY DEF Multiply
  <2>2. {<< Dot(s), ScaleRead(s) >> : s \in 0 .. Subblocks - 1} = {<<"all", "own">>}
    BY <1>4, BlockIs
  <2>3. panel[1] = call.n /\ panel[2] = call.first
    BY <1>4
  <2> QED BY ONLY <2>1, <2>2, <2>3 DEF BlockOf
<1>6. SumInv'
  BY <1>1, <1>3, <1>5 DEF TileInv, SumInv, PanelSums, BlockOf
<1>7. MinimaInv'
  BY <1>1, <1>3 DEF TileInv, MinimaInv, PanelMinima, MinimaOf
<1> QED BY <1>2, <1>6, <1>7 DEF TileInv

LEMMA AddInv ==
    ASSUME TileInv, Add
    PROVE  TileInv'
<1>1. /\ at = "add" /\ kernel' = kernel /\ row' = row /\ lane' = lane /\ loop' = loop
      /\ output' = output /\ block' = block
      /\ sum' = Append(IF bk = 0 THEN <<>> ELSE sum, block)
      /\ K.pass = "with the block" => mins' = Append(IF bk = 0 THEN <<>> ELSE mins, Minima)
      /\ K.pass # "with the block" => mins' = mins
      /\ bk + 1 < call.depth => bk' = bk + 1 /\ at' = "dot"
      /\ ~ (bk + 1 < call.depth) => bk' = 0 /\ at' = IF K.pass = "second" THEN "minima" ELSE "store"
  BY DEF Add, Starts
<1>2. Followed' /\ LoopInv' /\ PanelInv' /\ OutputInv'
  BY <1>1, InCall
<1>3. K' = K /\ HasMinima' = HasMinima /\ call' = call
  BY <1>1, Frame DEF loop
<1>4. Followed /\ call \in Calls
  BY <1>1 DEF TileInv, LoopInv
<1>5. call.first \in Nat /\ call.depth \in Nat \ {0} /\ bk \in 0 .. call.depth - 1 /\ bk \in Nat
  <2>1. bk \in 0 .. call.depth - 1
    BY <1>1 DEF TileInv, SumInv
  <2>2. call.first \in 0 .. Blocks - 1 /\ call.depth \in 1 .. Blocks
    BY <1>4, CallFacts
  <2> QED BY ONLY <2>1, <2>2, RvvTileAssumption
<1>6. sum' = PanelSums(call, bk + 1)
  <2>1. (IF bk = 0 THEN <<>> ELSE sum) = PanelSums(call, bk)
    BY <1>1, <1>5, AppendSums DEF TileInv, SumInv
  <2>2. block = BlockOf(call, bk)
    BY <1>1 DEF TileInv, SumInv
  <2>3. bk \in Nat
    BY <1>5
  <2> QED BY <1>1, <1>5, <2>1, <2>2, <2>3, AppendSums
<1>7. K.pass = "with the block" => mins' = PanelMinima(call, bk + 1)
  <2> SUFFICES ASSUME K.pass = "with the block" PROVE mins' = PanelMinima(call, bk + 1)
    OBVIOUS
  <2>1. (IF bk = 0 THEN <<>> ELSE mins) = PanelMinima(call, bk)
    BY <1>1, <1>5, AppendSums DEF TileInv, MinimaInv
  <2>2. Minima = MinimaOf(call, bk)
    <3>1. HasMinima
      BY <1>4, MinimaAre
    <3>2. {MinRead(s) : s \in 0 .. Subblocks - 1} = {"own"}
      BY <1>4, <3>1, BlockIs
    <3> QED BY <3>2 DEF Minima, MinimaOf
  <2>3. bk \in Nat
    BY <1>5
  <2> QED BY <1>1, <1>5, <2>1, <2>2, <2>3, AppendSums
<1>8. ~ (bk + 1 < call.depth) => bk + 1 = call.depth
  BY <1>5
<1>9. SumInv'
  <2>1. CASE bk + 1 < call.depth
    <3>1. bk' = bk + 1 /\ at' = "dot"
      BY <1>1, <2>1
    <3> QED BY <1>3, <1>5, <1>6, <2>1, <3>1 DEF SumInv, PanelSums, BlockOf
  <2>2. CASE ~ (bk + 1 < call.depth)
    <3>1. bk' = 0 /\ at' \in {"minima", "store"}
      BY <1>1, <2>2
    <3>2. sum' = PanelSums(call, call.depth)
      BY <1>6, <1>8, <2>2
    <3> QED BY <1>3, <1>5, <3>1, <3>2 DEF SumInv, PanelSums, BlockOf
  <2> QED BY <2>1, <2>2
<1>10. MinimaInv'
  <2>1. CASE bk + 1 < call.depth
    <3>1. bk' = bk + 1 /\ at' = "dot"
      BY <1>1, <2>1
    <3> QED BY <1>3, <1>5, <1>7, <2>1, <3>1 DEF MinimaInv, PanelMinima, MinimaOf
  <2>2. CASE ~ (bk + 1 < call.depth)
    <3>1. bk' = 0 /\ at' = IF K.pass = "second" THEN "minima" ELSE "store"
      BY <1>1, <2>2
    <3>2. K.pass = "with the block" => mins' = PanelMinima(call, call.depth)
      BY <1>7, <1>8, <2>2
    <3>3. at' = "store" /\ HasMinima => K.pass = "with the block"
      <4>1. K.pass \in {"none", "second", "with the block"}
        BY <1>4, KernelFacts DEF Followed
      <4> QED BY <1>4, <3>1, <4>1, MinimaAre
    <3> QED BY <1>3, <3>1, <3>2, <3>3 DEF MinimaInv, PanelMinima, MinimaOf
  <2> QED BY <2>1, <2>2
<1> QED BY <1>2, <1>9, <1>10 DEF TileInv

LEMMA AddMinimaInv ==
    ASSUME TileInv, AddMinima
    PROVE  TileInv'
<1>1. /\ at = "minima" /\ kernel' = kernel /\ row' = row /\ lane' = lane /\ loop' = loop
      /\ output' = output /\ block' = block /\ sum' = sum
      /\ mins' = Append(IF bk = 0 THEN <<>> ELSE mins, Minima)
      /\ bk + 1 < call.depth => bk' = bk + 1 /\ at' = "minima"
      /\ ~ (bk + 1 < call.depth) => bk' = 0 /\ at' = "store"
  BY DEF AddMinima, Starts
<1>2. Followed' /\ LoopInv' /\ PanelInv' /\ OutputInv'
  BY <1>1, InCall
<1>3. K' = K /\ HasMinima' = HasMinima /\ call' = call
  BY <1>1, Frame DEF loop
<1>4. Followed /\ call \in Calls
  BY <1>1 DEF TileInv, LoopInv
<1>5. call.first \in Nat /\ call.depth \in Nat \ {0} /\ bk \in 0 .. call.depth - 1 /\ bk \in Nat
  <2>1. bk \in 0 .. call.depth - 1
    BY <1>1 DEF TileInv, SumInv
  <2>2. call.first \in 0 .. Blocks - 1 /\ call.depth \in 1 .. Blocks
    BY <1>4, CallFacts
  <2> QED BY ONLY <2>1, <2>2, RvvTileAssumption
<1>6. K.pass = "second"
  BY <1>1 DEF TileInv, MinimaInv
<1>7. mins' = PanelMinima(call, bk + 1)
  <2>1. (IF bk = 0 THEN <<>> ELSE mins) = PanelMinima(call, bk)
    BY <1>1, <1>5, AppendSums DEF TileInv, MinimaInv
  <2>2. Minima = MinimaOf(call, bk)
    <3>1. HasMinima
      BY <1>4, <1>6, MinimaAre
    <3>2. {MinRead(s) : s \in 0 .. Subblocks - 1} = {"own"}
      BY <1>4, <3>1, BlockIs
    <3> QED BY <3>2 DEF Minima, MinimaOf
  <2>3. bk \in Nat
    BY <1>5
  <2> QED BY <1>1, <1>5, <2>1, <2>2, <2>3, AppendSums
<1>8. sum' = PanelSums(call, call.depth)
  BY <1>1 DEF TileInv, SumInv
<1>9. CASE bk + 1 < call.depth
  <2>1. bk' = bk + 1 /\ at' = "minima"
    BY <1>1, <1>9
  <2>2. SumInv'
    BY <1>3, <1>5, <1>8, <1>9, <2>1 DEF SumInv, PanelSums, BlockOf
  <2>3. MinimaInv'
    BY <1>3, <1>5, <1>6, <1>7, <2>1 DEF MinimaInv, PanelMinima, MinimaOf
  <2> QED BY <1>2, <2>2, <2>3 DEF TileInv
<1>10. CASE ~ (bk + 1 < call.depth)
  <2>1. bk' = 0 /\ at' = "store" /\ bk + 1 = call.depth
    BY <1>1, <1>5, <1>10
  <2>2. SumInv'
    BY <1>3, <1>8, <2>1 DEF SumInv, PanelSums, BlockOf
  <2>3. MinimaInv'
    BY <1>3, <1>7, <2>1 DEF MinimaInv, PanelMinima, MinimaOf
  <2> QED BY <1>2, <2>2, <2>3 DEF TileInv
<1> QED BY <1>9, <1>10

LEMMA IterateInv ==
    ASSUME TileInv, Iterate
    PROVE  TileInv'
<1>1. /\ at = "idle" /\ at' = at /\ kernel' = kernel /\ row' = row /\ lane' = lane
      /\ iteration' = iteration + 1 /\ todo' = Calls /\ call' = call /\ panel' = panel
      /\ bk' = bk /\ block' = block /\ sum' = sum /\ mins' = mins /\ output' = output
  BY DEF Iterate
<1>2. Followed' = Followed /\ K' = K /\ HasMinima' = HasMinima /\ Calls' = Calls
  BY <1>1, Frame
<1>3. Followed'
  BY <1>2 DEF TileInv
<1>4. LoopInv'
  BY <1>1, <1>2 DEF TileInv, LoopInv
<1>5. PanelInv'
  BY <1>1, <1>2 DEF PanelInv
<1>6. SumInv' /\ MinimaInv'
  BY <1>1 DEF SumInv, MinimaInv
<1>7. OutputInv'
  <2>1. Done' = {}
    BY <1>1, <1>2 DEF Done
  <2>2. \A c : ~ LastOf(c, Done)'
    BY <2>1 DEF LastOf
  <2>3. DOMAIN output' = Cells
    BY <1>1 DEF TileInv, OutputInv
  <2> QED BY <2>2, <2>3 DEF OutputInv, Cells
<1> QED BY <1>3, <1>4, <1>5, <1>6, <1>7 DEF TileInv

LEMMA CallInv ==
    ASSUME TileInv, Call
    PROVE  TileInv'
<1>1. /\ at = "idle" /\ at' = "dot" /\ bk' = 0 /\ kernel' = kernel /\ row' = row /\ lane' = lane
      /\ iteration' = iteration
      /\ block' = block /\ sum' = sum /\ mins' = mins /\ output' = output
  BY DEF Call
<1>2. PICK c \in todo : /\ \A d \in todo \ {c} : Before(c, d)
                        /\ call' = c /\ todo' = todo \ {c}
                        /\ panel' = IF K.depth = 0 \/ c.m = 0 THEN <<c.n, c.first>> ELSE panel
  BY DEF Call
<1>3. /\ Followed' = Followed /\ K' = K /\ HasMinima' = HasMinima
      /\ Calls' = Calls /\ \A d, e : Before(d, e)' = Before(d, e)
  BY <1>1, Frame
<1>4. Followed /\ LoopInv /\ PanelInv /\ OutputInv
  BY DEF TileInv
<1>5. c \in Calls
  BY <1>4 DEF LoopInv
<1>6. /\ ~ Before(c, c)
      /\ \A d, e \in Calls : d = e \/ Before(d, e) \/ Before(e, d)
  BY <1>4, <1>5, LoopOrder
<1>7. LoopInv'
  <2>1. todo \ {c} = { e \in Calls : Before(c, e) }
    <3>1. \A e \in todo \ {c} : e \in Calls /\ Before(c, e)
      BY <1>2, <1>4 DEF LoopInv
    <3>2. ASSUME NEW e \in Calls, Before(c, e) PROVE e \in todo \ {c}
      <4>1. e # c
        BY <1>6, <3>2
      <4>2. e \in todo
        BY <1>1, <1>2, <1>4, <3>2 DEF LoopInv
      <4> QED BY <4>1, <4>2
    <3> QED BY <3>1, <3>2
  <2>2. { e \in Calls : Before(call, e) }' = { e \in Calls : Before(c, e) }
    <3>1. \A e : Before(call, e)' = Before(c, e)
      BY <1>1, <1>2 DEF Before, LoopNest
    <3> QED BY <1>3, <3>1
  <2>3. iteration \in Nat /\ iteration > 0 /\ todo \in SUBSET Calls
    BY <1>4, <1>5, <1>2 DEF LoopInv
  <2> QED BY <1>1, <1>2, <1>3, <1>5, <2>1, <2>2, <2>3 DEF LoopInv
<1>8. PanelInv'
  <2>1. panel' = << c.n, c.first >>
    <3>1. CASE K.depth = 0 \/ c.m = 0
      BY <1>2, <3>1
    <3>2. CASE ~ (K.depth = 0 \/ c.m = 0)
      <4>1. kernel = "iq2_br"
        BY <1>4, <3>2, DepthIs
      <4>2. /\ c.m \in 0 .. TilesM - 1 /\ c.n \in 0 .. TilesN - 1 /\ c.first \in 0 .. Blocks - 1
            /\ c.first % Depth = 0
        BY <1>4, <1>5, CallFacts
      <4>3. c.m - 1 \in 0 .. TilesM - 1
        BY <3>2, <4>2, RvvTileAssumption
      <4>4. PICK d \in Calls : d.m = c.m - 1 /\ d.n = c.n /\ d.first = c.first
        BY <1>4, <4>2, <4>3, CallExists
      <4>5. Before(d, c)
        <5>1. d.m < c.m
          BY <4>2, <4>4
        <5> QED BY <4>1, <4>4, <5>1, BeforeIs
      <4>6. d \notin todo
        <5>1. d # c /\ ~ Before(c, d)
          BY <1>4, <1>5, <1>6, <4>5, LoopOrder
        <5> QED BY <1>2, <5>1
      <4>7. panel = << c.n, c.first >>
        BY <1>1, <1>2, <1>4, <4>1, <4>4, <4>6 DEF PanelInv
      <4> QED BY <1>2, <3>2, <4>7
    <3> QED BY <3>1, <3>2
  <2> QED BY <1>1, <1>2, <2>1 DEF PanelInv
<1>9. SumInv' /\ MinimaInv'
  <2>1. c.depth \in 1 .. Blocks
    BY <1>4, <1>5, CallFacts
  <2>2. 0 \in 0 .. c.depth - 1
    BY <2>1, RvvTileAssumption
  <2> QED BY <1>1, <1>2, <2>2 DEF SumInv, MinimaInv
<1>10. OutputInv'
  <2>1. Done' = Done
    BY <1>1, <1>2, <1>3 DEF Done
  <2>2. \A d : LastOf(d, Done)' = LastOf(d, Done)
    BY <2>1 DEF LastOf
  <2>3. \A d : Holds(d)' = Holds(d)
    BY <1>1, <1>3 DEF Holds, TileSums, PanelMinima, MinimaOf
  <2> QED BY <1>1, <1>3, <1>4, <2>2, <2>3 DEF OutputInv, Cells
<1> QED BY <1>3, <1>4, <1>7, <1>8, <1>9, <1>10 DEF TileInv

LEMMA Joined ==
    ASSUME NEW f \in Nat, NEW u \in Nat, NEW x, NEW y,
           x = [i \in 1 .. f |-> x[i]], y = [i \in 1 .. u |-> y[i]]
    PROVE  x \o y = [i \in 1 .. f + u |-> IF i <= f THEN x[i] ELSE y[i - f]]
<1> DEFINE T == { x[i] : i \in 1 .. f } \cup { y[i] : i \in 1 .. u }
<1>1. \A i \in 1 .. f : x[i] \in T
  OBVIOUS
<1>2. \A i \in 1 .. u : y[i] \in T
  OBVIOUS
<1> HIDE DEF T
<1>3. x \in Seq(T) /\ Len(x) = f
  <2>1. x \in [1 .. f -> T]
    BY <1>1
  <2> QED BY ONLY <2>1, f \in Nat
<1>4. y \in Seq(T) /\ Len(y) = u
  <2>1. y \in [1 .. u -> T]
    BY <1>2
  <2> QED BY ONLY <2>1, u \in Nat
<1>5. x \o y \in Seq(T) /\ Len(x \o y) = f + u
  BY ONLY <1>3, <1>4, ConcatProperties
<1>6. \A i \in 1 .. f + u : (x \o y)[i] = IF i <= f THEN x[i] ELSE y[i - f]
  BY ONLY <1>3, <1>4, ConcatProperties
<1>7. x \o y = [i \in 1 .. f + u |-> (x \o y)[i]]
  <2>1. x \o y \in [1 .. f + u -> T]
    BY ONLY <1>5, LenProperties
  <2> QED BY ONLY <2>1
<1> QED BY ONLY <1>6, <1>7

\* A panel added behind the panels before it.
LEMMA PanelAppended ==
    ASSUME NEW c, NEW f \in Nat, c.first = f, NEW u \in Nat
    PROVE  /\ TileSums(c, f) \o PanelSums(c, u) = TileSums(c, f + u)
           /\ f = 0 => <<>> \o PanelSums(c, u) = TileSums(c, u)
<1>1. /\ TileSums(c, f) \o PanelSums(c, u) =
           [i \in 1 .. f + u |-> IF i <= f THEN TileSums(c, f)[i] ELSE PanelSums(c, u)[i - f]]
  <2>1. /\ TileSums(c, f) = [i \in 1 .. f |-> TileSums(c, f)[i]]
        /\ PanelSums(c, u) = [i \in 1 .. u |-> PanelSums(c, u)[i]]
    BY DEF TileSums, PanelSums
  <2> QED BY <2>1, Joined
<1>2. ASSUME NEW i \in 1 .. f + u
      PROVE  (IF i <= f THEN TileSums(c, f)[i] ELSE PanelSums(c, u)[i - f]) = TileSums(c, f + u)[i]
  <2>1. CASE i <= f
    BY <2>1 DEF TileSums
  <2>2. CASE ~ (i <= f)
    <3>1. i - f \in 1 .. u /\ f + ((i - f) - 1) = i - 1
      BY <2>2
    <3>2. PanelSums(c, u)[i - f] = << c.m, c.n, i - 1, i - 1, {<<"all", "own">>} >>
      BY <3>1 DEF PanelSums, BlockOf
    <3> QED BY <2>2, <3>2 DEF TileSums
  <2> QED BY <2>1, <2>2
<1>3. TileSums(c, f) \o PanelSums(c, u) = TileSums(c, f + u)
  BY <1>1, <1>2 DEF TileSums
<1>4. ASSUME f = 0 PROVE <<>> \o PanelSums(c, u) = TileSums(c, u)
  <2>1. TileSums(c, 0) = <<>>
    BY DEF TileSums
  <2>2. f + u = u
    BY <1>4
  <2> QED BY <1>3, <1>4, <2>1, <2>2
<1> QED BY <1>3, <1>4

LEMMA StoreInv ==
    ASSUME TileInv, Store
    PROVE  TileInv'
<1>1. /\ at = "store" /\ at' = "idle" /\ kernel' = kernel /\ row' = row /\ lane' = lane /\ loop' = loop
      /\ bk' = bk /\ block' = block /\ sum' = sum /\ mins' = mins
      /\ output' = [output EXCEPT ![<<call.m, call.n>>] =
           << (IF call.first # 0 THEN @[1] ELSE <<>>) \o sum, IF K.pass = "none" THEN <<>> ELSE mins >>]
  BY DEF Store, Continues
<1>2. iteration' = iteration /\ todo' = todo /\ call' = call /\ panel' = panel
  BY <1>1 DEF loop
<1>3. /\ Followed' = Followed /\ K' = K /\ HasMinima' = HasMinima
      /\ Calls' = Calls /\ \A d, e : Before(d, e)' = Before(d, e)
  BY <1>1, Frame
<1>4. Followed /\ LoopInv /\ PanelInv /\ SumInv /\ MinimaInv /\ OutputInv
  BY DEF TileInv
<1>5. call \in Calls /\ todo = { e \in Calls : Before(call, e) } /\ iteration > 0
  BY <1>1, <1>4 DEF LoopInv
<1>6. PICK c \in Calls : c = call
  BY <1>5
<1>7. \A d \in Calls : d.m \in Int /\ d.n \in Int /\ d.first \in Int
  BY <1>4, CallFacts, RvvTileAssumption
<1>8. LoopInv'
  <2>1. \A e \in todo, d \in Calls : Before(e, d) => d \in todo
    BY <1>4, <1>5, LoopOrder
  <2> QED BY <1>1, <1>2, <1>3, <1>4, <1>5, <2>1 DEF LoopInv
<1>9. PanelInv'
  <2> SUFFICES ASSUME kernel = "iq2_br", NEW e \in todo, NEW d \in Calls \ todo,
                      d.n = e.n, d.first = e.first, d.m = e.m - 1
               PROVE  panel = << e.n, e.first >>
    BY <1>1, <1>2, <1>3 DEF PanelInv
  <2>1. e \in Calls /\ Before(c, e) /\ ~ Before(c, d)
    BY <1>5, <1>6
  <2>2. c.n = e.n /\ c.first = e.first
    BY <1>7, <2>1, BeforeIs
  <2> QED BY <1>1, <1>4, <1>6, <2>2 DEF PanelInv
<1>10. SumInv' /\ MinimaInv'
  BY <1>1 DEF SumInv, MinimaInv
<1>11. OutputInv'
  <2>1. Done' = Done \cup {c} /\ c \notin Done
    <3>1. c \notin todo
      BY <1>4, <1>5, <1>6, LoopOrder
    <3>2. Done' = Calls \ todo
      BY <1>1, <1>2, <1>3 DEF Done
    <3>3. Done = Calls \ (todo \cup {c})
      BY <1>1, <1>6 DEF Done
    <3> QED BY <1>6, <3>1, <3>2, <3>3
  <2>2. \A d \in Done : d \in Calls /\ Before(d, c)
    <3>1. Done = Calls \ (todo \cup {c})
      BY <1>1, <1>6 DEF Done
    <3> QED BY <1>4, <1>5, <1>6, <3>1, LoopOrder
  <2>3. \A d \in Done : d.m = c.m /\ d.n = c.n => d.first < c.first
    BY <1>7, <2>2, BeforeIs
  <2>4. sum = PanelSums(c, c.depth) /\ (HasMinima => mins = PanelMinima(c, c.depth))
    BY <1>1, <1>4, <1>6 DEF SumInv, MinimaInv
  <2>5. c.m \in 0 .. TilesM - 1 /\ c.n \in 0 .. TilesN - 1 /\ <<c.m, c.n>> \in Cells
    BY <1>4, CallFacts DEF Cells
  <2>6. DOMAIN output = Cells /\ DOMAIN output' = Cells
    BY <1>1, <1>4 DEF OutputInv
  <2>7. ASSUME NEW d, d.m # c.m \/ d.n # c.n
        PROVE  output'[<<d.m, d.n>>] = output[<<d.m, d.n>>]
    BY <1>1, <1>6, <2>7
  <2>8. output'[<<c.m, c.n>>] =
          << (IF c.first # 0 THEN output[<<c.m, c.n>>][1] ELSE <<>>) \o PanelSums(c, c.depth),
             IF HasMinima THEN PanelMinima(c, c.depth) ELSE <<>> >>
    <3>1. (IF K.pass = "none" THEN <<>> ELSE mins) = IF HasMinima THEN PanelMinima(c, c.depth) ELSE <<>>
      BY <1>4, <2>4, MinimaAre
    <3>2. output'[<<c.m, c.n>>] = << (IF c.first # 0 THEN output[<<c.m, c.n>>][1] ELSE <<>>) \o sum,
                                     IF K.pass = "none" THEN <<>> ELSE mins >>
      BY <1>1, <1>6, <2>5, <2>6
    <3> QED BY <2>4, <3>1, <3>2
  <2>9. /\ c.first \in Nat /\ c.depth \in Nat
        /\ Depth \in Nat \ {0}
        /\ c.first \in 0 .. Blocks - 1 /\ c.first % Depth = 0
    BY <1>4, CallFacts, DepthIs, RvvTileAssumption
  <2>10. c.first # 0 => output[<<c.m, c.n>>][1] = TileSums(c, c.first)
    <3> SUFFICES ASSUME c.first # 0 PROVE output[<<c.m, c.n>>][1] = TileSums(c, c.first)
      OBVIOUS
    <3>1. c.first - Depth \in Nat /\ (c.first - Depth) % Depth = 0
      <4>1. 0 % Depth = 0 /\ 0 < c.first
        BY <2>9
      <4> QED BY ONLY <2>9, <4>1, MultipleBelow
    <3>2. c.first - Depth \in 0 .. Blocks - 1
      <4>1. PICK x \in Nat, y \in Nat : x = c.first /\ y = c.first - Depth
        BY <2>9, <3>1
      <4>2. y <= x /\ x \in 0 .. Blocks - 1
        BY <2>9, <4>1
      <4>3. y \in 0 .. Blocks - 1
        BY ONLY <4>1, <4>2, RvvTileAssumption
      <4> QED BY <4>1, <4>3
    <3>3. PICK p \in Calls : p.m = c.m /\ p.n = c.n /\ p.first = c.first - Depth
      BY <1>4, <2>5, <3>1, <3>2, CallExists
    <3>4. p.first < c.first
      BY <2>9, <3>3
    <3>5. Before(p, c)
      BY <3>3, <3>4, BeforeIs
    <3>6. p \in Done
      <4>1. p # c /\ p \notin todo
        BY <1>4, <1>5, <1>6, <3>5, LoopOrder
      <4> QED BY <1>1, <1>6, <4>1 DEF Done
    <3>7. ASSUME NEW d \in Done, d.m = p.m, d.n = p.n PROVE d.first <= p.first
      <4>1. d.first < c.first /\ d \in Calls
        BY <2>2, <2>3, <3>3, <3>7
      <4>2. d.first \in 0 .. Blocks - 1 /\ d.first % Depth = 0
        BY <1>4, <4>1, CallFacts
      <4>3. d.first \in Nat
        BY <4>2
      <4>4. d.first <= c.first - Depth
        BY ONLY <2>9, <4>1, <4>2, <4>3, MultipleBelow
      <4> QED BY <3>3, <4>4
    <3>8. Holds(p)
      BY <1>4, <1>5, <3>6, <3>7 DEF OutputInv, LastOf
    <3>9. p.first + p.depth = c.first
      <4>1. p.depth = Lesser(Depth, Blocks - p.first)
        BY <1>4, CallFacts
      <4>2. Blocks - p.first > Depth
        BY <2>9, <3>3, RvvTileAssumption
      <4>3. p.depth = Depth
        BY <2>9, <3>3, <4>1, <4>2, RvvTileAssumption DEF Lesser
      <4> QED BY <2>9, <3>3, <4>3
    <3> QED BY <3>3, <3>8, <3>9 DEF Holds, TileSums
  <2>11. output'[<<c.m, c.n>>] =
           << TileSums(c, c.first + c.depth), IF HasMinima THEN PanelMinima(c, c.depth) ELSE <<>> >>
    <3>1. (IF c.first # 0 THEN output[<<c.m, c.n>>][1] ELSE <<>>) \o PanelSums(c, c.depth)
            = TileSums(c, c.first + c.depth)
      <4>1. CASE c.first # 0
        <5>1. TileSums(c, c.first) \o PanelSums(c, c.depth) = TileSums(c, c.first + c.depth)
          BY <2>9, PanelAppended
        <5> QED BY <2>10, <4>1, <5>1
      <4>2. CASE c.first = 0
        <5>1. c.first + c.depth = c.depth
          BY <2>9, <4>2
        <5> QED BY <2>9, <4>2, <5>1, PanelAppended
      <4> QED BY <4>1, <4>2
    <3> QED BY <2>8, <3>1
  <2>12. ASSUME NEW d \in Calls, LastOf(d, Done \cup {c})
         PROVE  output'[<<d.m, d.n>>] =
                  << TileSums(d, d.first + d.depth), IF HasMinima THEN PanelMinima(d, d.depth) ELSE <<>> >>
    <3>1. CASE d = c
      BY <2>11, <3>1
    <3>2. CASE d # c
      <4>1. d \in Done
        BY <2>12, <3>2 DEF LastOf
      <4>2. d.m # c.m \/ d.n # c.n
        <5>1. d.m = c.m /\ d.n = c.n => c.first <= d.first /\ d.first < c.first
          BY <2>3, <2>12, <4>1 DEF LastOf
        <5> QED BY <1>7, <5>1
      <4>3. LastOf(d, Done)
        BY <2>12, <4>1 DEF LastOf
      <4>4. Holds(d)
        BY <1>4, <1>5, <4>3 DEF OutputInv
      <4> QED BY <2>7, <4>2, <4>4 DEF Holds
    <3> QED BY <3>1, <3>2
  <2>13. \A d : LastOf(d, Done)' <=> LastOf(d, Done \cup {c})
    BY <2>1 DEF LastOf
  <2>14. \A d : Holds(d)' <=> output'[<<d.m, d.n>>] =
                  << TileSums(d, d.first + d.depth), IF HasMinima THEN PanelMinima(d, d.depth) ELSE <<>> >>
    BY <1>3 DEF Holds, TileSums, PanelMinima, MinimaOf
  <2> QED BY <1>3, <2>6, <2>12, <2>13, <2>14 DEF OutputInv, Cells
<1> QED BY <1>3, <1>4, <1>8, <1>9, <1>10, <1>11 DEF TileInv

LEMMA TileStep == TileInv /\ [TileNext]_tileVars => TileInv'
<1> SUFFICES ASSUME TileInv, [TileNext]_tileVars PROVE TileInv'
  OBVIOUS
<1>1. CASE Iterate
  BY <1>1, IterateInv
<1>2. CASE Call
  BY <1>2, CallInv
<1>3. CASE Multiply
  BY <1>3, MultiplyInv
<1>4. CASE Add
  BY <1>4, AddInv
<1>5. CASE AddMinima
  BY <1>5, AddMinimaInv
<1>6. CASE Store
  BY <1>6, StoreInv
<1>7. CASE UNCHANGED tileVars
  <2>1. /\ kernel' = kernel /\ row' = row /\ lane' = lane /\ loop' = loop /\ at' = at /\ bk' = bk
        /\ block' = block /\ sum' = sum /\ mins' = mins /\ output' = output
    BY <1>7 DEF tileVars
  <2>2. iteration' = iteration /\ todo' = todo /\ call' = call /\ panel' = panel
    BY <2>1 DEF loop
  <2>3. /\ Followed' = Followed /\ K' = K /\ HasMinima' = HasMinima
        /\ Calls' = Calls /\ \A d, e : Before(d, e)' = Before(d, e)
    BY <2>1, Frame
  <2>4. LoopInv'
    <3>1. { e \in Calls : Before(call, e) }' = { e \in Calls : Before(call, e) }
      <4>1. \A e : Before(call, e)' = Before(call, e)
        BY <2>1, <2>2 DEF Before, LoopNest
      <4> QED BY <2>3, <4>1
    <3> QED BY <2>1, <2>2, <2>3, <3>1 DEF TileInv, LoopInv
  <2>5. PanelInv'
    BY <2>1, <2>2, <2>3 DEF TileInv, PanelInv
  <2>6. SumInv' /\ MinimaInv'
    BY <2>1, <2>2, <2>3 DEF TileInv, SumInv, MinimaInv, PanelSums, PanelMinima, BlockOf, MinimaOf
  <2>7. OutputInv'
    <3>1. Done' = Done
      BY <2>1, <2>2, <2>3 DEF Done
    <3>2. \A d : LastOf(d, Done)' = LastOf(d, Done)
      BY <3>1 DEF LastOf
    <3>3. \A d : Holds(d)' = Holds(d)
      BY <2>1, <2>3 DEF Holds, TileSums, PanelMinima, MinimaOf
    <3> QED BY <2>1, <2>2, <2>3, <3>2, <3>3 DEF TileInv, OutputInv, Cells
  <2> QED BY <2>3, <2>4, <2>5, <2>6, <2>7 DEF TileInv
<1> QED BY <1>1, <1>2, <1>3, <1>4, <1>5, <1>6, <1>7 DEF TileNext

LEMMA TileInvariance == TileSpec => []TileInv
BY TileInitInv, TileStep, PTL DEF TileSpec

LEMMA InvOutput == TileInv => OutputIsProduct
<1> SUFFICES ASSUME TileInv, at = "idle", todo = {}, iteration > 0,
                    NEW m \in 0 .. TilesM - 1, NEW n \in 0 .. TilesN - 1
             PROVE  output[<<m, n>>] =
                      << [b \in 1 .. Blocks |-> << m, n, b - 1, b - 1, {<<"all", "own">>} >>],
                         IF HasMinima THEN [b \in 1 .. Blocks |-> << m, n, b - 1, {"own"} >>] ELSE <<>> >>
  BY DEF OutputIsProduct
<1>1. Followed /\ Done = Calls
  BY DEF TileInv, Done
<1>2. Depth \in Nat \ {0}
  BY <1>1, DepthIs
<1>3. PICK f \in 0 .. Blocks - 1 : f % Depth = 0 /\ Blocks - f <= Depth
  BY <1>2, RvvTileAssumption, LastMultiple
<1>4. PICK c \in Calls : c.m = m /\ c.n = n /\ c.first = f
  BY <1>1, <1>3, CallExists
<1>5. LastOf(c, Done)
  <2>1. ASSUME NEW d \in Calls PROVE d.first <= f
    <3>1. d.first \in 0 .. Blocks - 1 /\ d.first % Depth = 0
      BY <1>1, CallFacts
    <3>2. d.first \in Nat /\ f \in Nat
      BY <3>1
    <3>3. ~ (f < d.first)
      <4>1. f < d.first => f <= d.first - Depth
        BY ONLY <1>2, <1>3, <3>1, <3>2, MultipleBelow
      <4> QED BY <1>2, <1>3, <3>1, <4>1, RvvTileAssumption
    <3> QED BY <3>2, <3>3
  <2> QED BY <1>1, <1>4, <2>1 DEF LastOf
<1>6. Holds(c)
  BY <1>4, <1>5 DEF TileInv, OutputInv
<1>7. c.first + c.depth = Blocks
  <2>1. c.depth = Lesser(Depth, Blocks - c.first)
    BY <1>1, CallFacts
  <2>2. c.depth = Blocks - f
    BY <1>2, <1>3, <1>4, <2>1, RvvTileAssumption DEF Lesser
  <2> QED BY <1>4, <2>2, RvvTileAssumption
<1>8. HasMinima => PanelMinima(c, c.depth) = [b \in 1 .. Blocks |-> << m, n, b - 1, {"own"} >>]
  <2> SUFFICES ASSUME HasMinima PROVE PanelMinima(c, c.depth) = [b \in 1 .. Blocks |-> << m, n, b - 1, {"own"} >>]
    OBVIOUS
  <2>1. kernel # "iq2_br"
    BY <1>1, KernelFacts DEF HasMinima, Followed
  <2>2. c.first = 0 /\ c.depth = Blocks
    BY <1>1, <2>1, CallFacts
  <2>3. \A b \in 1 .. Blocks : MinimaOf(c, b - 1) = << m, n, b - 1, {"own"} >>
    BY <1>4, <2>2, RvvTileAssumption DEF MinimaOf
  <2> QED BY <2>2, <2>3 DEF PanelMinima
<1>9. TileSums(c, Blocks) = [b \in 1 .. Blocks |-> << m, n, b - 1, b - 1, {<<"all", "own">>} >>]
  BY <1>4 DEF TileSums
<1> QED BY <1>4, <1>6, <1>7, <1>8, <1>9 DEF Holds

\* After every iteration, for every kernel, shape, panel length and number of
\* iterations, each cell of the row and lane holds what the reference computes.
THEOREM TileOutputAlways == TileSpec => []OutputIsProduct
BY TileInvariance, InvOutput, PTL

----------------------------------------------------------------------------
(* The 16 bit sums.                                                         *)

\* The kernels that add 32 products of five bit weights, or of grid entries, in a
\* 16 bit lane.
Wrapping == {"q4_K_my", "q4_K_group", "q4_K_upstream", "iq2_br", "iq2_ir"}

LEMMA ExactSums ==
    ASSUME kernel \in KernelNames
    PROVE  (32 \div K.narrow) * Wrap16(K.narrow * LargestProduct) = 32 * LargestProduct <=> kernel \notin Wrapping
<1>1. LargestProduct = IF kernel \in {"q4_0_my", "q4_0_group", "q4_0_upstream", "q4_0_ime2"} THEN 8 * 127
                       ELSE IF kernel \in {"iq2_br", "iq2_ir", "iq2_upstream"} THEN 43 * 127 ELSE 15 * 127
  BY KernelFacts DEF LargestProduct, LargestWeight
<1>2. K.narrow = IF kernel \in {"q4_0_upstream", "q4_K_upstream_128"} THEN 2
                 ELSE IF kernel \in {"q4_0_ime2", "iq2_upstream"} THEN 1 ELSE 32
  BY KernelFacts
<1>3. CASE kernel \in {"q4_0_my", "q4_0_group"}
  BY ONLY <1>1, <1>2, <1>3 DEF Wrap16, Wrapping
<1>4. CASE kernel = "q4_0_upstream"
  BY ONLY <1>1, <1>2, <1>4 DEF Wrap16, Wrapping
<1>5. CASE kernel = "q4_0_ime2"
  BY ONLY <1>1, <1>2, <1>5 DEF Wrap16, Wrapping
<1>6. CASE kernel \in {"q4_K_my", "q4_K_group", "q4_K_upstream"}
  BY ONLY <1>1, <1>2, <1>6 DEF Wrap16, Wrapping
<1>7. CASE kernel = "q4_K_upstream_128"
  BY ONLY <1>1, <1>2, <1>7 DEF Wrap16, Wrapping
<1>8. CASE kernel \in {"iq2_br", "iq2_ir"}
  BY ONLY <1>1, <1>2, <1>8 DEF Wrap16, Wrapping
<1>9. CASE kernel = "iq2_upstream"
  BY ONLY <1>1, <1>2, <1>9 DEF Wrap16, Wrapping
<1> QED BY <1>3, <1>4, <1>5, <1>6, <1>7, <1>8, <1>9 DEF KernelNames

ValueInv ==
    /\ kernel \in KernelNames
    /\ at = "add" => value = (32 \div K.narrow) * Wrap16(K.narrow * LargestProduct)

LEMMA ValueInvariance == TileSpec => []ValueInv
<1>1. TileInit => ValueInv
  BY RvvTileAssumption DEF TileInit, ValueInv
<1>2. ValueInv /\ [TileNext]_tileVars => ValueInv'
  <2> SUFFICES ASSUME ValueInv, [TileNext]_tileVars PROVE ValueInv'
    OBVIOUS
  <2>1. kernel' = kernel /\ row' = row /\ lane' = lane
    BY DEF TileNext, Iterate, Call, Multiply, Add, AddMinima, Store, tileVars
  <2>2. K' = K
    BY <2>1, Frame
  <2>3. LargestProduct' = LargestProduct
    BY <2>2 DEF LargestProduct
  <2>4. CASE Multiply
    BY <2>1, <2>2, <2>3, <2>4 DEF ValueInv, Multiply
  <2>5. CASE at' # "add"
    BY <2>1, <2>5 DEF ValueInv
  <2>6. CASE at' = at /\ value' = value
    BY <2>1, <2>2, <2>3, <2>6 DEF ValueInv
  <2>7. Multiply \/ at' # "add" \/ (at' = at /\ value' = value)
    BY DEF TileNext, Iterate, Call, Add, AddMinima, Store, tileVars
  <2> QED BY <2>4, <2>5, <2>6, <2>7
<1> QED BY <1>1, <1>2, PTL DEF TileSpec

\* The 16 bit sum of 32 extreme products is that of the reference in exactly the
\* kernels that are not of Wrapping.
ExactlyTheseWrap == at = "add" => (value = 32 * LargestProduct <=> kernel \notin Wrapping)

THEOREM SumsWrapAlways == TileSpec => []ExactlyTheseWrap
<1>1. ValueInv => ExactlyTheseWrap
  BY ExactSums DEF ValueInv, ExactlyTheseWrap
<1> QED BY <1>1, ValueInvariance, PTL

\* A kernel that MayWrap does not name adds its products exactly, if it names those
\* of Wrapping.
THEOREM SumsAreExactAlways ==
    ASSUME Wrapping \subseteq MayWrap
    PROVE  TileSpec => []SumsAreExact
<1>1. ExactlyTheseWrap => SumsAreExact
  BY DEF ExactlyTheseWrap, SumsAreExact
<1> QED BY <1>1, SumsWrapAlways, PTL
===============================================================================
