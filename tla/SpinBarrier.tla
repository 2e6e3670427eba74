---------------------------- MODULE SpinBarrier ----------------------------
(***************************************************************************)
(* The spin barrier of the multi-threaded machine benchmarks, for instance *)
(* SpinBarrier in k3_scaling.cpp and Barrier in k3_pmu_diagnose.cpp: one   *)
(* counter, one generation number, reused for every wait.  Each access to  *)
(* an atomic is a step.  The relaxed store of the counter precedes the     *)
(* release increment of the generation in the same thread, and nobody      *)
(* reads the counter again before it has acquired the new generation, so   *)
(* interleaving the accesses loses no outcome.                             *)
(***************************************************************************)
EXTENDS Integers, FiniteSets

CONSTANTS
    Threads,         \* the threads that share the barrier; target is their number
    Waits,           \* how often each of them calls arrive_and_wait()
    GenerationLimit  \* 2^w for the w-bit generation counter

ASSUME SpinBarrierAssumption ==
    /\ IsFiniteSet(Threads) /\ Threads # {}
    /\ Waits \in Nat
    /\ GenerationLimit \in Nat /\ GenerationLimit >= 2

VARIABLES
    count,           \* the atomic counter of arrivals
    generation,      \* the atomic generation number
    step,            \* where each thread is in arrive_and_wait()
    seen,            \* gen, the generation each thread read on entry
    passed           \* how many waits each thread has finished

barrier == <<count, generation, step, seen, passed>>

target == Cardinality(Threads)

Init ==
    /\ count = 0
    /\ generation = 0
    /\ step = [t \in Threads |-> "outside"]
    /\ seen = [t \in Threads |-> 0]
    /\ passed = [t \in Threads |-> 0]

Go(t, label) == step' = [step EXCEPT ![t] = label]

Return(t) == Go(t, "outside") /\ passed' = [passed EXCEPT ![t] = @ + 1]

\* Fault: the generation is read on the first wait only.
ReadGenerationOnce(t) ==
    /\ step[t] = "outside"
    /\ passed[t] < Waits
    /\ Go(t, "arriving")
    /\ UNCHANGED <<count, generation, seen, passed>>

\* gen = generation.load(acquire)
ReadGeneration(t) ==
    /\ step[t] = "outside"
    /\ passed[t] < Waits
    /\ seen' = [seen EXCEPT ![t] = generation]
    /\ Go(t, "arriving")
    /\ UNCHANGED <<count, generation, passed>>

\* Fault: the last thread but one opens the barrier.
ArriveOneShort(t) ==
    /\ step[t] = "arriving"
    /\ count' = count + 1
    /\ Go(t, IF count + 2 >= target THEN "reset" ELSE "spinning")
    /\ UNCHANGED <<generation, seen, passed>>

\* count.fetch_add(1) + 1 == target
Arrive(t) ==
    /\ step[t] = "arriving"
    /\ count' = count + 1
    /\ Go(t, IF count + 1 = target THEN "reset" ELSE "spinning")
    /\ UNCHANGED <<generation, seen, passed>>

\* Fault: the counter keeps the arrivals of the wait before.
ResetNothing(t) ==
    /\ step[t] = "reset"
    /\ Go(t, "advance")
    /\ UNCHANGED <<count, generation, seen, passed>>

\* The last thread: count.store(0, relaxed)
ResetCount(t) ==
    /\ step[t] = "reset"
    /\ count' = 0
    /\ Go(t, "advance")
    /\ UNCHANGED <<generation, seen, passed>>

\* The last thread: generation.fetch_add(1, release), and it returns.
Advance(t) ==
    /\ step[t] = "advance"
    /\ generation' = IF generation + 1 = GenerationLimit THEN 0 ELSE generation + 1
    /\ Return(t)
    /\ UNCHANGED <<count, seen>>

\* The others: generation.load(acquire) != gen ends the loop.
Leave(t) ==
    /\ step[t] = "spinning"
    /\ generation # seen[t]
    /\ Return(t)
    /\ UNCHANGED <<count, generation, seen>>

\* One access to an atomic.
Call(t) == ReadGeneration(t) \/ Arrive(t) \/ ResetCount(t) \/ Advance(t) \/ Leave(t)

AllPassed == \A t \in Threads : step[t] = "outside" /\ passed[t] = Waits

Finished == AllPassed /\ UNCHANGED barrier

Next == (\E t \in Threads : Call(t)) \/ Finished

\* Every thread has a CPU of its own (it is pinned to it) and keeps running.
Fairness == \A t \in Threads : WF_barrier(Call(t))

Spec == Init /\ [][Next]_barrier

FairSpec == Spec /\ Fairness

----------------------------------------------------------------------------
TypeOK ==
    /\ count \in 0 .. target
    /\ generation \in 0 .. GenerationLimit - 1
    /\ step \in [Threads -> {"outside", "arriving", "reset", "advance", "spinning"}]
    /\ seen \in [Threads -> 0 .. GenerationLimit - 1]
    /\ passed \in [Threads -> 0 .. Waits]

\* How many waits a thread has begun, from the atomic increment on.
Arrivals(t) == passed[t] + IF step[t] \in {"outside", "arriving"} THEN 0 ELSE 1

\* No thread leaves a wait before every thread has arrived at it, although
\* a fast thread may be at its next wait while a slow one still spins.
NoEarlyLeave == \A t, u \in Threads : passed[t] <= Arrivals(u)

\* Nobody who has been let go can be overtaken by a whole generation: while
\* a thread of the last wait still spins, the generation it waits for has not
\* come round again, however few values it has.
NoGenerationReuse ==
    \A t, u \in Threads :
        step[t] = "spinning" /\ passed[t] < passed[u] => generation # seen[t]

Contract == INSTANCE BarrierContract WITH arrived <- [t \in Threads |-> Arrivals(t)]

\* The barrier is what the benchmarks need of it.
ImplementsContract == Contract!Spec

\* Every thread gets through all its waits.
EveryonePasses == <>AllPassed
============================================================================
