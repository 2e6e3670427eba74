-------------------------- MODULE BarrierContract --------------------------
(***************************************************************************)
(* What the machine benchmarks need of their barrier: a thread leaves its  *)
(* n-th wait only when every thread has arrived at its n-th wait.          *)
(***************************************************************************)
EXTENDS Integers

CONSTANTS
    Threads,         \* the threads that meet at the barrier
    Waits            \* how many times each of them waits

VARIABLES
    arrived,         \* how many waits each thread has begun
    passed           \* how many waits each thread has finished

vars == <<arrived, passed>>

Init == arrived = [t \in Threads |-> 0] /\ passed = [t \in Threads |-> 0]

Arrive(t) ==
    /\ arrived[t] = passed[t]
    /\ arrived[t] < Waits
    /\ arrived' = [arrived EXCEPT ![t] = @ + 1]
    /\ UNCHANGED passed

Leave(t) ==
    /\ passed[t] < arrived[t]
    /\ \A u \in Threads : arrived[u] >= arrived[t]
    /\ passed' = [passed EXCEPT ![t] = @ + 1]
    /\ UNCHANGED arrived

Next == \E t \in Threads : Arrive(t) \/ Leave(t)

Spec == Init /\ [][Next]_vars
============================================================================
