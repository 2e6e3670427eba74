----------------------- MODULE MachineBenchmarkProofs -----------------------
(***************************************************************************)
(* The spin barrier for any number of threads, waits and generation        *)
(* values.  The threads are in one phase: those that have not left the     *)
(* last wait yet are one wait behind and spin on an old generation; all    *)
(* others have finished the same number of waits, and the counter is the   *)
(* number of them that have arrived at the next one.                       *)
(*                                                                         *)
(* And k3_tcm_bandwidth.cpp for any arguments, number of samples and       *)
(* rates: what main() has mapped, chosen and measured where it is.         *)
(***************************************************************************)
EXTENDS SpinBarrier, TcmBandwidth, FiniteSetTheorems, SequenceTheorems, TLAPS

----------------------------------------------------------------------------
(* The spin barrier.                                                        *)

\* The threads that have arrived at the wait in progress.
Waiting == {t \in Threads : step[t] \in {"spinning", "reset"} /\ seen[t] = generation}

\* Everybody but t waits for t to open the barrier.
AllOthersWait(t) ==
    \A u \in Threads \ {t} : step[u] = "spinning" /\ seen[u] = generation

Phase(p) ==
    \A t \in Threads :
        /\ step[t] = "outside" => passed[t] = p
        /\ step[t] = "arriving" => passed[t] = p /\ seen[t] = generation
        /\ step[t] = "spinning" => \/ seen[t] = generation /\ passed[t] = p
                                   \/ seen[t] # generation /\ passed[t] + 1 = p
        /\ step[t] \in {"reset", "advance"} =>
             passed[t] = p /\ seen[t] = generation /\ AllOthersWait(t)

Counting ==
    /\ \A t \in Threads : step[t] = "reset" => count = target
    /\ \A t \in Threads : step[t] = "advance" => count = 0
    /\ (\A t \in Threads : step[t] # "advance") => count = Cardinality(Waiting)
    /\ (\A t \in Threads : step[t] \notin {"reset", "advance"}) => count < target

IInv ==
    /\ TypeOK
    /\ \A t \in Threads : step[t] # "outside" => passed[t] < Waits
    /\ \E p \in Nat : Phase(p)
    /\ Counting

LEMMA TargetType == target \in Nat /\ target > 0
<1>1. IsFiniteSet(Threads) /\ Threads # {}
  BY SpinBarrierAssumption
<1>2. target \in Nat /\ (target = 0 <=> Threads = {})
  BY <1>1, FS_CardinalityType, FS_EmptySet DEF target
<1> QED BY <1>1, <1>2

LEMMA WaitingType ==
    IsFiniteSet(Waiting) /\ Cardinality(Waiting) \in Nat /\ Cardinality(Waiting) <= target
<1>1. IsFiniteSet(Threads) /\ Waiting \subseteq Threads
  BY SpinBarrierAssumption DEF Waiting
<1> QED BY <1>1, FS_Subset, FS_CardinalityType DEF target

LEMMA InitInvariant == Init => IInv
<1> SUFFICES ASSUME Init PROVE IInv
  OBVIOUS
<1>1. target \in Nat /\ target > 0 /\ Waits \in Nat /\ GenerationLimit \in Nat /\ GenerationLimit >= 2
  BY TargetType, SpinBarrierAssumption
<1>2. TypeOK
  BY <1>1 DEF Init, TypeOK
<1>3. Phase(0)
  BY DEF Init, Phase
<1>4. Waiting = {}
  BY DEF Init, Waiting
<1>5. Counting
  BY <1>1, <1>4, FS_EmptySet DEF Init, Counting
<1> QED BY <1>2, <1>3, <1>5 DEF Init, IInv

LEMMA NextInvariant == IInv /\ [Next]_barrier => IInv'
<1> SUFFICES ASSUME IInv, [Next]_barrier PROVE IInv'
  OBVIOUS
<1>1. /\ TypeOK /\ Counting
      /\ \A t \in Threads : step[t] # "outside" => passed[t] < Waits
  BY DEF IInv
<1>2. PICK p \in Nat : Phase(p)
  BY DEF IInv
<1>3. /\ target \in Nat /\ target > 0 /\ Waits \in Nat
      /\ GenerationLimit \in Nat /\ GenerationLimit >= 2
  BY TargetType, SpinBarrierAssumption
<1>4. target' = target
  BY DEF target
<1>5. ASSUME NEW t \in Threads, ReadGeneration(t)  PROVE IInv'
  <2>1. \A u \in Threads : step[u] \notin {"reset", "advance"}
    BY <1>2, <1>5 DEF ReadGeneration, Phase, AllOthersWait
  <2>2. TypeOK'
    BY <1>1, <1>4, <1>5 DEF ReadGeneration, Go, TypeOK
  <2>3. Phase(p)'
    BY <1>1, <1>2, <1>5, <2>1 DEF ReadGeneration, Go, Phase, TypeOK
  <2>4. Waiting' = Waiting
    BY <1>1, <1>5 DEF ReadGeneration, Go, Waiting, TypeOK
  <2>5. Counting'
    BY <1>1, <1>4, <1>5, <2>1, <2>4 DEF ReadGeneration, Go, Counting, TypeOK
  <2>6. \A u \in Threads : step'[u] # "outside" => passed'[u] < Waits
    BY <1>1, <1>5 DEF ReadGeneration, Go, TypeOK
  <2> QED BY <2>2, <2>3, <2>5, <2>6 DEF IInv
<1>6. ASSUME NEW t \in Threads, Arrive(t)  PROVE IInv'
  <2>1. \A u \in Threads : step[u] \notin {"reset", "advance"}
    BY <1>2, <1>6 DEF Arrive, Phase, AllOthersWait
  <2>2. count \in Nat /\ count = Cardinality(Waiting) /\ count < target
    BY <1>1, <2>1, <1>3 DEF Counting, TypeOK
  <2>3. t \notin Waiting /\ Waiting' = Waiting \cup {t}
    BY <1>1, <1>2, <1>6 DEF Arrive, Go, Waiting, Phase, TypeOK
  <2>4. count' = count + 1 /\ count' = Cardinality(Waiting')
    BY <1>6, <2>2, <2>3, WaitingType, FS_AddElement DEF Arrive
  <2>5. TypeOK'
    BY <1>1, <1>3, <1>4, <1>6, <2>2 DEF Arrive, Go, TypeOK
  <2>6. CASE count + 1 = target
    <3>1. Waiting' = Threads
      <4>1. Waiting' \subseteq Threads /\ Cardinality(Waiting') = Cardinality(Threads)
        BY <1>4, <2>4, <2>6 DEF Waiting, target
      <4> QED BY <4>1, SpinBarrierAssumption, FS_Subset
    <3>2. /\ step'[t] = "reset"
          /\ \A u \in Threads \ {t} : step'[u] = step[u]
          /\ generation' = generation /\ seen' = seen /\ passed' = passed
      BY <1>1, <1>6, <2>6 DEF Arrive, Go, TypeOK
    <3>3. \A u \in Threads \ {t} : step'[u] = "spinning" /\ seen'[u] = generation'
      BY <2>1, <3>1, <3>2 DEF Waiting
    <3>4. Phase(p)'
      BY <1>2, <1>6, <3>2, <3>3 DEF Arrive, Phase, AllOthersWait
    <3>5. Counting'
      BY <1>4, <2>4, <2>6, <3>2, <3>3 DEF Counting
    <3>6. \A u \in Threads : step'[u] # "outside" => passed'[u] < Waits
      BY <1>1, <1>6, <3>2 DEF Arrive
    <3> QED BY <2>5, <3>4, <3>5, <3>6 DEF IInv
  <2>7. CASE count + 1 # target
    <3>1. /\ step'[t] = "spinning"
          /\ \A u \in Threads \ {t} : step'[u] = step[u]
          /\ generation' = generation /\ seen' = seen /\ passed' = passed
      BY <1>1, <1>6, <2>7 DEF Arrive, Go, TypeOK
    <3>2. Phase(p)'
      BY <1>2, <1>6, <2>1, <3>1 DEF Arrive, Phase
    <3>3. Counting'
      BY <1>3, <1>4, <2>1, <2>2, <2>4, <2>7, <3>1 DEF Counting
    <3>4. \A u \in Threads : step'[u] # "outside" => passed'[u] < Waits
      BY <1>1, <1>6, <3>1 DEF Arrive
    <3> QED BY <2>5, <3>2, <3>3, <3>4 DEF IInv
  <2> QED BY <2>6, <2>7
<1>7. ASSUME NEW t \in Threads, ResetCount(t)  PROVE IInv'
  <2>1. /\ step[t] = "reset" /\ step'[t] = "advance"
        /\ \A u \in Threads \ {t} : step'[u] = step[u]
        /\ generation' = generation /\ seen' = seen /\ passed' = passed /\ count' = 0
    BY <1>1, <1>7 DEF ResetCount, Go, TypeOK
  <2>2. \A u \in Threads \ {t} : step'[u] = "spinning" /\ seen'[u] = generation'
    BY <1>2, <2>1 DEF Phase, AllOthersWait
  <2>3. TypeOK'
    BY <1>1, <1>3, <1>4, <1>7 DEF ResetCount, Go, TypeOK
  <2>4. Phase(p)'
    BY <1>2, <2>1, <2>2 DEF Phase, AllOthersWait
  <2>5. Counting'
    BY <1>4, <2>1, <2>2 DEF Counting
  <2>6. \A u \in Threads : step'[u] # "outside" => passed'[u] < Waits
    BY <1>1, <2>1
  <2> QED BY <2>3, <2>4, <2>5, <2>6 DEF IInv
<1>8. ASSUME NEW t \in Threads, Advance(t)  PROVE IInv'
  <2>1. /\ step[t] = "advance" /\ step'[t] = "outside"
        /\ passed[t] = p /\ passed[t] < Waits /\ passed'[t] = p + 1
        /\ \A u \in Threads \ {t} : step'[u] = step[u] /\ passed'[u] = passed[u]
        /\ seen' = seen /\ count' = 0
    BY <1>1, <1>2, <1>8 DEF Advance, Return, Go, Phase, Counting, TypeOK
  <2>2. generation' # generation /\ generation' \in 0 .. GenerationLimit - 1
    BY <1>1, <1>3, <1>8 DEF Advance, TypeOK
  <2>3. \A u \in Threads \ {t} :
          step'[u] = "spinning" /\ seen'[u] # generation' /\ passed'[u] = p
    BY <1>2, <2>1, <2>2 DEF Phase, AllOthersWait
  <2>4. TypeOK'
    <3>1. passed' \in [Threads -> 0 .. Waits] /\ step' \in [Threads -> {"outside", "arriving", "reset", "advance", "spinning"}]
      BY <1>1, <1>3, <1>8, <2>1 DEF Advance, Return, Go, TypeOK
    <3> QED BY <1>1, <1>3, <1>4, <1>8, <2>1, <2>2, <3>1 DEF Advance, TypeOK
  <2>5. Phase(p + 1)'
    BY <2>1, <2>3 DEF Phase
  <2>6. Waiting' = {}
    BY <2>1, <2>3 DEF Waiting
  <2>7. Counting'
    BY <1>3, <1>4, <2>1, <2>3, <2>6, FS_EmptySet DEF Counting
  <2>8. \A u \in Threads : step'[u] # "outside" => passed'[u] < Waits
    BY <1>1, <1>2, <2>1 DEF Phase, AllOthersWait
  <2> QED BY <2>4, <2>5, <2>7, <2>8 DEF IInv
<1>9. ASSUME NEW t \in Threads, Leave(t)  PROVE IInv'
  <2>1. /\ step[t] = "spinning" /\ seen[t] # generation /\ step'[t] = "outside"
        /\ passed[t] + 1 = p /\ passed[t] < Waits /\ passed'[t] = p
        /\ \A u \in Threads \ {t} : step'[u] = step[u] /\ passed'[u] = passed[u]
        /\ seen' = seen /\ count' = count /\ generation' = generation
    BY <1>1, <1>2, <1>9 DEF Leave, Return, Go, Phase, TypeOK
  <2>2. \A u \in Threads : step[u] \notin {"reset", "advance"}
    BY <1>2, <2>1 DEF Phase, AllOthersWait
  <2>3. TypeOK'
    BY <1>1, <1>3, <1>4, <1>9, <2>1 DEF Leave, Return, Go, TypeOK
  <2>4. Phase(p)'
    BY <1>2, <2>1, <2>2 DEF Phase
  <2>5. Waiting' = Waiting
    BY <2>1 DEF Waiting
  <2>6. Counting'
    BY <1>1, <1>4, <2>1, <2>2, <2>5 DEF Counting
  <2>7. \A u \in Threads : step'[u] # "outside" => passed'[u] < Waits
    BY <1>1, <2>1
  <2> QED BY <2>3, <2>4, <2>6, <2>7 DEF IInv
<1>10. CASE UNCHANGED barrier
  BY <1>1, <1>2, <1>4, <1>10
     DEF barrier, IInv, TypeOK, Phase, AllOthersWait, Counting, Waiting
<1> QED BY <1>5, <1>6, <1>7, <1>8, <1>9, <1>10 DEF Next, Call, Finished

\* Inductiveness of the phase structure.
THEOREM Invariance == Spec => []IInv
BY InitInvariant, NextInvariant, PTL DEF Spec

\* The atomics and the threads' copies of them stay in range; in particular
\* the counter never passes the number of threads.
THEOREM TypeCorrectness == Spec => []TypeOK
<1>1. IInv => TypeOK
  BY DEF IInv
<1> QED BY <1>1, Invariance, PTL

LEMMA InvariantNoEarlyLeave == IInv => NoEarlyLeave
<1> SUFFICES ASSUME IInv, NEW t \in Threads, NEW u \in Threads
             PROVE  passed[t] <= Arrivals(u)
  BY DEF NoEarlyLeave
<1>1. TypeOK
  BY DEF IInv
<1>2. PICK p \in Nat : Phase(p)
  BY DEF IInv
<1>3. /\ step[u] \in {"outside", "arriving", "reset", "advance", "spinning"}
      /\ passed[t] \in Int /\ passed[u] \in Int
  BY <1>1, SpinBarrierAssumption DEF TypeOK
<1>4. passed[t] <= p
  BY <1>1, <1>2, <1>3 DEF Phase, TypeOK
<1>5. IF step[u] \in {"outside", "arriving"} THEN passed[u] = p ELSE passed[u] + 1 >= p
  BY <1>2, <1>3 DEF Phase
<1> QED BY <1>3, <1>4, <1>5 DEF Arrivals

\* No thread leaves arrive_and_wait() before every thread is in it.
THEOREM NoEarlyLeaveAlways == Spec => []NoEarlyLeave
BY InvariantNoEarlyLeave, Invariance, PTL

\* A released thread that still spins sees that the generation has changed,
\* although the counter wraps: it cannot be stranded.
THEOREM NoGenerationReuseAlways == Spec => []NoGenerationReuse
<1>1. IInv => NoGenerationReuse
  <2> SUFFICES ASSUME IInv, NEW t \in Threads, NEW u \in Threads,
                      step[t] = "spinning", passed[t] < passed[u], generation = seen[t]
               PROVE  FALSE
    BY DEF NoGenerationReuse
  <2>1. TypeOK
    BY DEF IInv
  <2>2. PICK p \in Nat : Phase(p)
    BY DEF IInv
  <2>3. passed[u] \in Int /\ step[u] \in {"outside", "arriving", "reset", "advance", "spinning"}
    BY <2>1, SpinBarrierAssumption DEF TypeOK
  <2>4. passed[t] = p /\ passed[u] <= p
    BY <2>2, <2>3 DEF Phase
  <2> QED BY <2>3, <2>4
<1> QED BY <1>1, Invariance, PTL

LEMMA InitContract == Init => Contract!Init
<1> SUFFICES ASSUME Init PROVE Contract!Init
  OBVIOUS
<1>1. \A t \in Threads : Arrivals(t) = 0
  BY DEF Init, Arrivals
<1> QED BY <1>1 DEF Init, Contract!Init

\* Every access to an atomic is a step of the contract or invisible to it.
LEMMA NextContract == IInv /\ [Next]_barrier => [Contract!Next]_(Contract!vars)
<1> SUFFICES ASSUME IInv, [Next]_barrier
             PROVE  [Contract!Next]_(Contract!vars)
  OBVIOUS
<1> DEFINE arrived == [t \in Threads |-> Arrivals(t)]
<1>1. TypeOK /\ \A t \in Threads : step[t] # "outside" => passed[t] < Waits
  BY DEF IInv
<1>2. ASSUME NEW t \in Threads, ReadGeneration(t) \/ ResetCount(t)
      PROVE  [Contract!Next]_(Contract!vars)
  <2>1. passed' = passed /\ \A u \in Threads : Arrivals(u)' = Arrivals(u)
    BY <1>1, <1>2 DEF ReadGeneration, ResetCount, Go, Arrivals, TypeOK
  <2>2. arrived' = arrived
    BY <2>1
  <2> QED BY <2>1, <2>2 DEF Contract!vars
<1>3. ASSUME NEW t \in Threads, Arrive(t)  PROVE [Contract!Next]_(Contract!vars)
  <2>1. passed[t] \in Int /\ passed[t] < Waits /\ passed' = passed
    BY <1>1, <1>3, SpinBarrierAssumption DEF Arrive, TypeOK
  <2>2. /\ Arrivals(t) = passed[t] /\ Arrivals(t)' = passed[t] + 1
        /\ \A u \in Threads \ {t} : Arrivals(u)' = Arrivals(u)
    BY <1>1, <1>3, <2>1 DEF Arrive, Go, Arrivals, TypeOK
  <2>3. arrived' = [arrived EXCEPT ![t] = @ + 1]
    BY <2>2
  <2>4. Contract!Arrive(t)
    BY <2>1, <2>2, <2>3 DEF Contract!Arrive
  <2> QED BY <2>4 DEF Contract!Next
<1>4. ASSUME NEW t \in Threads, Advance(t) \/ Leave(t)  PROVE [Contract!Next]_(Contract!vars)
  <2>1. /\ step[t] \in {"advance", "spinning"} /\ step'[t] = "outside"
        /\ \A u \in Threads \ {t} : step'[u] = step[u] /\ passed'[u] = passed[u]
        /\ passed[t] \in Int /\ passed' = [passed EXCEPT ![t] = @ + 1]
    BY <1>1, <1>4, SpinBarrierAssumption DEF Advance, Leave, Return, Go, TypeOK
  <2>2. passed'[t] = passed[t] + 1
    BY <1>1, <2>1 DEF TypeOK
  <2>3. \A u \in Threads : Arrivals(u)' = Arrivals(u)
    BY <2>1, <2>2 DEF Arrivals
  <2>4. arrived' = arrived
    BY <2>3
  <2>5. \A u \in Threads : Arrivals(u) >= Arrivals(t)
    <3>1. SUFFICES ASSUME NEW u \in Threads PROVE Arrivals(u) >= Arrivals(t)
      OBVIOUS
    <3>2. IInv'
      BY NextInvariant
    <3>3. NoEarlyLeave'
      BY <3>2, InvariantNoEarlyLeave, PTL
    <3>4. passed'[t] <= Arrivals(u)'
      BY <3>3 DEF NoEarlyLeave
    <3> QED BY <2>1, <2>2, <2>3, <3>4 DEF Arrivals
  <2>6. Contract!Leave(t)
    BY <2>1, <2>4, <2>5 DEF Contract!Leave, Arrivals
  <2> QED BY <2>6 DEF Contract!Next
<1>5. CASE UNCHANGED barrier
  <2>1. arrived' = arrived /\ passed' = passed
    BY <1>5 DEF barrier, Arrivals
  <2> QED BY <2>1 DEF Contract!vars
<1> QED BY <1>2, <1>3, <1>4, <1>5 DEF Next, Call, Finished

\* The spin barrier implements the contract.
THEOREM Implementation == Spec => ImplementsContract
BY InitContract, NextContract, Invariance, PTL DEF Spec, Contract!Spec, ImplementsContract

----------------------------------------------------------------------------
(* k3_tcm_bandwidth: what main() has, wherever it is.                       *)

TcmBlocks == [base : { Tcm(i) : i \in Int }, owned : BOOLEAN]

OptionsInv ==
    /\ span_kb \in Int /\ nblocks \in Int /\ share \in BOOLEAN /\ with_anon \in BOOLEAN
    /\ cpu_override \in Seq(Int)
    /\ pc \in {"options", "device", "allocate", "check", "anon", "choose", "sample", "release",
               "returned"}
    /\ pc \notin {"options", "returned"} =>
         nblocks \in 1 .. kBlockCount /\ span_kb >= 0 /\ span_kb % kBlockBytes = 0
    /\ pc # "returned" => code = 0

\* The first n blocks, and the regions they lie in.
BlocksAre(n) ==
    /\ blocks \in Seq(TcmBlocks) /\ Len(blocks) = n
    /\ \A i \in 1 .. n : blocks[i].base = Tcm(i - 1) /\ blocks[i].owned = (span_kb = 0)

TcmRegions(n) == IF span_kb > 0 THEN {Span} ELSE { Tcm(i) : i \in 0 .. n - 1 }

AnonSet == IF with_anon THEN UNION { {A48(i), A384(i)} : i \in Numbers } ELSE {}

ReqSet == IF req_id THEN {ReqPage} ELSE {}

MemoryInv ==
    /\ pc # "returned" => released = [region \in Regions |-> 0]
    /\ pc \in {"options", "device"} => blocks = <<>> /\ mapped = {}
    /\ pc = "allocate" =>
         IF span_kb > 0 THEN blocks = <<>> /\ mapped = ReqSet
         ELSE \E n \in 0 .. nblocks : BlocksAre(n) /\ mapped = TcmRegions(n) \cup ReqSet
    /\ pc = "check" => \E n \in 0 .. nblocks : BlocksAre(n) /\ mapped = TcmRegions(n) \cup ReqSet
    /\ pc \in {"check", "anon", "choose", "sample", "release"} /\ span_kb > 0 =>
         nblocks = span_kb \div kBlockBytes
    /\ pc \in {"anon", "choose", "sample", "release"} => BlocksAre(nblocks)
    /\ pc = "anon" => with_anon /\ mapped = TcmRegions(nblocks) \cup ReqSet
    /\ pc \in {"choose", "sample", "release"} => mapped = TcmRegions(nblocks) \cup AnonSet \cup ReqSet

\* Which point it is, and what its workers were given.
PointInv ==
    /\ point \in [case : 1 .. CaseCount, config : 1 .. Len(configs)]
    /\ pc = "sample" =>
         /\ ~ Skipped
         /\ DOMAIN per_worker = 1 .. Len(cpus)
         /\ \A i \in 1 .. Len(cpus) : \A cpu : cpu = cpus[i] => per_worker[i] = BuffersOf(cpu)

Overlapping == { s \in rated : s[1] }

BestInv ==
    /\ best \in [ok : BOOLEAN, overlap_ok : BOOLEAN, aggregate : Nat, sum : Nat]
    /\ rated \subseteq BOOLEAN \X Figures \X Figures
    /\ best.ok <=> rated # {}
    /\ best.overlap_ok <=> Overlapping # {}
    /\ rated = {} => best.sum = 0
    /\ Overlapping # {} => /\ \E s \in Overlapping : s[2] = best.aggregate
                          /\ \A s \in Overlapping : s[2] <= best.aggregate
    /\ Overlapping = {} /\ rated # {} => /\ \E s \in rated : s[3] = best.sum
                                       /\ \A s \in rated : s[3] <= best.sum

----------------------------------------------------------------------------
(* The best sample.                                                         *)

\* The largest element of a set is its maximum.
LEMMA GreatestIsMax ==
    ASSUME NEW Q, NEW m \in Q, Q \subseteq Int, \A x \in Q : x <= m
    PROVE  Max(Q) = m
<1>1. \A y \in Q : m >= y
  OBVIOUS
<1>2. PICK x \in Q : x = Max(Q) /\ \A y \in Q : x >= y
  BY <1>1 DEF Max
<1> QED BY <1>2

LEMMA BestInit == MainInit => BestInv
BY DEF MainInit, BestInv, NoPoint, Overlapping

\* No sample taken: a new point.
LEMMA BestOfNewPoint == Choose => BestInv'
BY DEF Choose, BestInv, NoPoint, Overlapping

\* What one more sample does to the samples that overlapped.
LEMMA OverlappingGrows ==
    ASSUME NEW ov \in BOOLEAN, NEW agg, NEW sum, rated' = rated \union { <<ov, agg, sum>> }
    PROVE  Overlapping' = IF ov THEN Overlapping \union { <<ov, agg, sum>> } ELSE Overlapping
BY DEF Overlapping

LEMMA BestOfOneMore == BestInv /\ TakeSample => BestInv'
<1> SUFFICES ASSUME BestInv, TakeSample PROVE BestInv'
  OBVIOUS
<1>1. PICK ov \in BOOLEAN, agg \in Figures, sum \in Figures :
        /\ best' = IF Better(ov, agg, sum)
                   THEN [ok |-> TRUE, overlap_ok |-> ov, aggregate |-> agg, sum |-> sum]
                   ELSE best
        /\ rated' = rated \union { <<ov, agg, sum>> }
  BY DEF TakeSample
<1>2. agg \in Nat \ {0} /\ sum \in Nat \ {0}
  BY TcmBandwidthAssumption
<1>3. Overlapping' = IF ov THEN Overlapping \union { <<ov, agg, sum>> } ELSE Overlapping
  BY <1>1, OverlappingGrows
<1>4. /\ best \in [ok : BOOLEAN, overlap_ok : BOOLEAN, aggregate : Nat, sum : Nat]
      /\ rated \subseteq BOOLEAN \X Figures \X Figures
  BY DEF BestInv
<1>5. Figures \subseteq Nat
  BY TcmBandwidthAssumption
<1>6. rated' \subseteq BOOLEAN \X Figures \X Figures /\ rated' # {}
  <2>1. <<ov, agg, sum>> \in BOOLEAN \X Figures \X Figures
    OBVIOUS
  <2> QED BY ONLY <1>1, <1>4, <2>1
<1>7. best' \in [ok : BOOLEAN, overlap_ok : BOOLEAN, aggregate : Nat, sum : Nat]
  BY <1>1, <1>2, <1>4
<1> DEFINE sample == <<ov, agg, sum>>
<1>8. sample[1] = ov /\ sample[2] = agg /\ sample[3] = sum
  OBVIOUS
<1>9. rated' = rated \union {sample} /\ (ov => Overlapping' = Overlapping \union {sample})
  BY <1>1, <1>3
<1>10. \A s \in rated : s[2] \in Nat /\ s[3] \in Nat
  BY <1>4, <1>5
<1>11. Overlapping \subseteq rated
  BY DEF Overlapping
<1> HIDE DEF sample
<1>12. CASE ov
  <2>1. Better(ov, agg, sum) <=> (Overlapping = {} \/ agg > best.aggregate)
    BY <1>12 DEF Better, BestInv
  <2>2. best'.ok /\ best'.overlap_ok
    <3>1. CASE Better(ov, agg, sum)
      BY <1>1, <1>12, <3>1
    <3>2. CASE ~ Better(ov, agg, sum)
      BY <1>1, <1>11, <2>1, <3>2 DEF BestInv
    <3> QED BY <3>1, <3>2
  <2>3. Overlapping' # {}
    BY <1>9, <1>12
  <2>4. /\ \E s \in Overlapping' : s[2] = best'.aggregate
        /\ \A s \in Overlapping' : s[2] <= best'.aggregate
    <3>1. CASE Better(ov, agg, sum)
      <4>1. best'.aggregate = agg
        BY <1>1, <3>1
      <4>2. \A s \in Overlapping : s[2] <= agg
        BY <1>2, <1>4, <1>10, <1>11, <2>1, <3>1 DEF BestInv
      <4> QED BY <1>2, <1>8, <1>9, <1>12, <4>1, <4>2
    <3>2. CASE ~ Better(ov, agg, sum)
      <4>1. best' = best /\ Overlapping # {} /\ agg <= best.aggregate
        BY <1>1, <1>2, <1>4, <2>1, <3>2
      <4>2. /\ \E s \in Overlapping : s[2] = best.aggregate
            /\ \A s \in Overlapping : s[2] <= best.aggregate
        BY <4>1 DEF BestInv
      <4> QED BY <1>8, <1>9, <1>12, <4>1, <4>2
    <3> QED BY <3>1, <3>2
  <2> QED BY <1>6, <1>7, <2>2, <2>3, <2>4 DEF BestInv
<1>13. CASE ~ ov
  <2>1. Overlapping' = Overlapping
    BY <1>3, <1>13
  <2>2. Better(ov, agg, sum) <=> (Overlapping = {} /\ sum > best.sum)
    BY <1>13 DEF Better, BestInv
  <2>3. CASE Overlapping # {}
    <3>1. best' = best
      BY <1>1, <2>2, <2>3
    <3> QED BY <1>6, <1>7, <1>11, <2>1, <2>3, <3>1 DEF BestInv
  <2>4. CASE Overlapping = {}
    <3>1. best'.ok /\ ~ best'.overlap_ok
      <4>1. CASE Better(ov, agg, sum)
        BY <1>1, <1>13, <4>1
      <4>2. CASE ~ Better(ov, agg, sum)
        <5>1. best' = best /\ sum <= best.sum
          BY <1>1, <1>2, <1>4, <2>2, <2>4, <4>2
        <5>2. best.sum # 0
          BY <1>2, <1>4, <5>1
        <5> QED BY <2>4, <5>1, <5>2 DEF BestInv
      <4> QED BY <4>1, <4>2
    <3>2. /\ \E s \in rated' : s[3] = best'.sum
          /\ \A s \in rated' : s[3] <= best'.sum
      <4>1. \A s \in rated : s[3] <= best.sum
        BY <2>4 DEF BestInv
      <4>2. CASE Better(ov, agg, sum)
        <5>1. best'.sum = sum /\ sum > best.sum
          BY <1>1, <2>2, <4>2
        <5>2. \A s \in rated : s[3] <= sum
          BY <1>2, <1>4, <1>10, <4>1, <5>1
        <5> QED BY <1>2, <1>8, <1>9, <5>1, <5>2
      <4>3. CASE ~ Better(ov, agg, sum)
        <5>1. best' = best /\ sum <= best.sum
          BY <1>1, <1>2, <1>4, <2>2, <2>4, <4>3
        <5>2. rated # {}
          BY <1>2, <1>4, <5>1 DEF BestInv
        <5>3. \E s \in rated : s[3] = best.sum
          BY <2>4, <5>2 DEF BestInv
        <5> QED BY <1>8, <1>9, <4>1, <5>1, <5>3
      <4> QED BY <4>2, <4>3
    <3> QED BY <1>6, <1>7, <2>1, <2>4, <3>1, <3>2 DEF BestInv
  <2> QED BY <2>3, <2>4
<1> QED BY <1>12, <1>13

LEMMA BestNext == BestInv /\ [MainNext]_vars => BestInv'
<1>1. ASSUME UNCHANGED <<best, rated>>, BestInv PROVE BestInv'
  BY <1>1 DEF BestInv, Overlapping
<1>2. Options \/ Device \/ MapSpan \/ MapBlock \/ CheckBlocks \/ MapAnon => UNCHANGED <<best, rated>>
  BY DEF Options, Device, MapSpan, MapBlock, CheckBlocks, MapAnon, measuring
<1>3. Skip \/ RejectSample \/ Report \/ Release => UNCHANGED <<best, rated>>
  BY DEF Skip, RejectSample, Report, Release, measuring
<1>4. UNCHANGED vars => UNCHANGED <<best, rated>>
  BY DEF vars, measuring
<1> QED BY <1>1, <1>2, <1>3, <1>4, BestOfNewPoint, BestOfOneMore DEF MainNext

\* What the invariant says of the maximum.
LEMMA BestInvariantIsReported == BestInv => BestIsReported
<1> SUFFICES ASSUME BestInv PROVE BestIsReported
  OBVIOUS
<1>1. Figures \subseteq Int
  BY TcmBandwidthAssumption
<1>2. rated \subseteq BOOLEAN \X Figures \X Figures
  BY DEF BestInv
<1>3. Overlapping # {} => best.aggregate = Max({ s[2] : s \in Overlapping })
  <2> SUFFICES ASSUME Overlapping # {} PROVE best.aggregate = Max({ s[2] : s \in Overlapping })
    OBVIOUS
  <2>1. { s[2] : s \in Overlapping } \subseteq Int
    BY <1>1, <1>2 DEF Overlapping
  <2>2. /\ best.aggregate \in { s[2] : s \in Overlapping }
        /\ \A x \in { s[2] : s \in Overlapping } : x <= best.aggregate
    BY DEF BestInv
  <2> QED BY ONLY <2>1, <2>2, GreatestIsMax
<1>4. Overlapping = {} /\ rated # {} => best.sum = Max({ s[3] : s \in rated })
  <2> SUFFICES ASSUME Overlapping = {}, rated # {} PROVE best.sum = Max({ s[3] : s \in rated })
    OBVIOUS
  <2>1. { s[3] : s \in rated } \subseteq Int
    BY <1>1, <1>2
  <2>2. /\ best.sum \in { s[3] : s \in rated }
        /\ \A x \in { s[3] : s \in rated } : x <= best.sum
    BY DEF BestInv
  <2> QED BY ONLY <2>1, <2>2, GreatestIsMax
<1>5. (best.ok <=> rated # {}) /\ (best.overlap_ok <=> Overlapping # {})
  BY DEF BestInv
<1>6. Overlapping = { s \in rated : s[1] }
  BY DEF Overlapping
<1> QED BY <1>3, <1>4, <1>5, <1>6 DEF BestIsReported

\* Whatever samples are taken, the line of a point is that of its best sample.
THEOREM BestIsReportedAlways == MainSpec => []BestIsReported
BY BestInit, BestNext, BestInvariantIsReported, PTL DEF MainSpec

----------------------------------------------------------------------------
(* What is mapped.                                                          *)

LEMMA OptionsInit == MainInit => OptionsInv
BY TcmBandwidthAssumption DEF MainInit, OptionsInv

LEMMA OptionsNext == OptionsInv /\ [MainNext]_vars => OptionsInv'
<1> SUFFICES ASSUME OptionsInv, [MainNext]_vars PROVE OptionsInv'
  OBVIOUS
<1>1. CASE Options
  BY <1>1 DEF Options, OptionsInv, Exit, GoOn, options, kBlockBytes, kBlockCount
<1>2. CASE Device
  BY <1>2 DEF Device, OptionsInv, Exit, GoOn, options
<1>3. CASE MapSpan
  <2> DEFINE slices == span_kb \div kBlockBytes
  <2>1. span_kb \in Int /\ span_kb > 0 /\ span_kb % kBlockBytes = 0
    BY <1>3 DEF MapSpan, OptionsInv
  <2>2. slices \in Int /\ slices >= 1
    BY <2>1 DEF kBlockBytes
  <2>3. UNCHANGED options
    BY <1>3 DEF MapSpan
  <2>4. \/ pc' = "returned" /\ UNCHANGED nblocks
        \/ pc' = "check" /\ UNCHANGED code /\ nblocks' = slices /\ ~ slices > kBlockCount
    BY <1>3 DEF MapSpan, Exit, GoOn
  <2>5. pc = "allocate"
    BY <1>3 DEF MapSpan
  <2> HIDE DEF slices
  <2> QED BY <2>2, <2>3, <2>4, <2>5 DEF OptionsInv, options, kBlockCount
<1>4. CASE MapBlock
  BY <1>4 DEF MapBlock, OptionsInv, GoOn, options
<1>5. CASE CheckBlocks
  BY <1>5 DEF CheckBlocks, OptionsInv, Exit, GoOn, options
<1>6. CASE MapAnon
  BY <1>6 DEF MapAnon, OptionsInv, Exit, GoOn, options
<1>7. CASE Skip \/ Report
  BY <1>7 DEF Skip, Report, NextPoint, OptionsInv, options
<1>8. CASE Choose
  BY <1>8 DEF Choose, OptionsInv, GoOn, options
<1>9. CASE RejectSample \/ TakeSample
  BY <1>9 DEF RejectSample, TakeSample, OptionsInv, options
<1>10. CASE Release
  BY <1>10 DEF Release, OptionsInv, Exit, options
<1>11. CASE UNCHANGED vars
  BY <1>11 DEF OptionsInv, vars, options
<1> QED BY <1>1, <1>2, <1>3, <1>4, <1>5, <1>6, <1>7, <1>8, <1>9, <1>10, <1>11 DEF MainNext

LEMMA MemoryInit == MainInit => MemoryInv
BY DEF MainInit, MemoryInv

\* A mapping that is cut in slices.
LEMMA MemoryOfTheSpan == OptionsInv /\ MemoryInv /\ MapSpan => MemoryInv'
<1> SUFFICES ASSUME OptionsInv, MemoryInv, MapSpan PROVE MemoryInv'
  OBVIOUS
<1> DEFINE slices == span_kb \div kBlockBytes
<1>1. /\ pc = "allocate" /\ span_kb > 0 /\ blocks = <<>> /\ mapped = ReqSet
      /\ released = [region \in Regions |-> 0]
      /\ UNCHANGED released /\ span_kb' = span_kb /\ ReqSet' = ReqSet
  BY DEF MapSpan, MemoryInv, options, ReqSet
<1>2. CASE pc' = "returned"
  BY <1>2 DEF MemoryInv
<1>3. CASE pc' = "check"
  <2>1. /\ mapped' = mapped \union {Span} /\ nblocks' = slices
        /\ blocks' = [i \in 1 .. slices |-> [base |-> Tcm(i - 1), owned |-> FALSE]]
    BY <1>1, <1>3 DEF MapSpan, Exit, GoOn
  <2>2. span_kb \in Int /\ span_kb % kBlockBytes = 0
    BY <1>1 DEF OptionsInv
  <2>3. slices \in Nat
    BY <1>1, <2>2 DEF kBlockBytes
  <2>4. span_kb' # 0
    BY <1>1, <2>2
  <2>5. BlocksAre(slices)'
    <3> HIDE DEF slices
    <3>1. blocks' \in Seq(TcmBlocks) /\ Len(blocks') = slices
      <4> DEFINE block(i) == [base |-> Tcm(i - 1), owned |-> FALSE]
      <4>1. \A i \in 1 .. slices : block(i) \in TcmBlocks
        <5> SUFFICES ASSUME NEW i \in 1 .. slices PROVE block(i) \in TcmBlocks
          OBVIOUS
        <5>1. Tcm(i - 1) \in { Tcm(j) : j \in Int }
          BY <2>3
        <5> QED BY <5>1 DEF TcmBlocks
      <4>2. blocks' = [i \in 1 .. slices |-> block(i)]
        BY <2>1
      <4> HIDE DEF block
      <4> QED BY <2>3, <4>1, <4>2
    <3>2. \A i \in 1 .. slices : blocks'[i].base = Tcm(i - 1) /\ blocks'[i].owned = FALSE
      BY <2>1
    <3>3. (slices)' = slices
      BY <1>1 DEF slices
    <3> QED BY <2>4, <3>1, <3>2, <3>3 DEF BlocksAre, Tcm
  <2>6. mapped' = TcmRegions(slices)' \cup ReqSet'
    BY <1>1, <2>1 DEF TcmRegions, Span
  <2> QED BY <1>1, <1>3, <2>1, <2>3, <2>5, <2>6 DEF MemoryInv
<1> QED BY <1>2, <1>3 DEF MapSpan, Exit, GoOn

\* One more block.
LEMMA MemoryOfABlock == OptionsInv /\ MemoryInv /\ MapBlock => MemoryInv'
<1> SUFFICES ASSUME OptionsInv, MemoryInv, MapBlock PROVE MemoryInv'
  OBVIOUS
<1>1. /\ pc = "allocate" /\ span_kb = 0 /\ span_kb' = span_kb /\ nblocks' = nblocks
      /\ released = [region \in Regions |-> 0] /\ released' = released
      /\ nblocks \in Nat /\ ReqSet' = ReqSet
  BY DEF MapBlock, MemoryInv, OptionsInv, options, ReqSet
<1>2. PICK n \in 0 .. nblocks : BlocksAre(n) /\ mapped = TcmRegions(n) \cup ReqSet
  BY <1>1 DEF MemoryInv
<1>3. n \in Nat
  BY <1>2
<1>4. CASE pc' = "check" /\ UNCHANGED <<blocks, mapped>>
  <2>1. BlocksAre(n)' /\ mapped' = TcmRegions(n)' \cup ReqSet'
    BY <1>1, <1>2, <1>4 DEF BlocksAre, TcmRegions
  <2> QED BY <1>1, <1>2, <1>4, <2>1 DEF MemoryInv
<1>5. CASE /\ Len(blocks) < nblocks
           /\ blocks' = Append(blocks, [base |-> Tcm(Len(blocks)), owned |-> TRUE])
           /\ mapped' = mapped \union {Tcm(Len(blocks))}
           /\ UNCHANGED pc
  <2>1. blocks \in Seq(TcmBlocks) /\ Len(blocks) = n
    BY <1>2 DEF BlocksAre
  <2>2. [base |-> Tcm(n), owned |-> TRUE] \in TcmBlocks
    <3>1. Tcm(n) \in { Tcm(j) : j \in Int }
      BY <1>3
    <3> QED BY <3>1 DEF TcmBlocks
  <2>3. /\ blocks' \in Seq(TcmBlocks) /\ Len(blocks') = n + 1
        /\ \A i \in 1 .. n : blocks'[i] = blocks[i]
        /\ blocks'[n + 1] = [base |-> Tcm(n), owned |-> TRUE]
    BY <1>5, <2>1, <2>2, AppendProperties
  <2>4. BlocksAre(n + 1)'
    <3>1. ASSUME NEW i \in 1 .. n + 1
          PROVE  blocks'[i].base = Tcm(i - 1) /\ blocks'[i].owned = (span_kb = 0)
      <4>1. CASE i = n + 1
        <5>1. i - 1 = n
          BY <1>3, <4>1
        <5>2. blocks'[i].base = Tcm(n) /\ blocks'[i].owned = TRUE
          BY <2>3, <4>1
        <5> QED BY <1>1, <5>1, <5>2
      <4>2. CASE i \in 1 .. n
        BY <1>2, <2>3, <4>2 DEF BlocksAre
      <4> QED BY <1>3, <4>1, <4>2
    <3> QED BY <1>1, <2>3, <3>1 DEF BlocksAre
  <2>5. mapped' = TcmRegions(n + 1)' \cup ReqSet'
    <3>1. 0 .. n = (0 .. n - 1) \union {n}
      BY <1>3
    <3>2. (n + 1) - 1 = n
      BY <1>3
    <3>3. mapped' = { Tcm(i) : i \in 0 .. n - 1 } \union {Tcm(n)} \union ReqSet'
      BY <1>1, <1>2, <1>5, <2>1 DEF TcmRegions
    <3>4. TcmRegions(n + 1)' = { Tcm(i) : i \in 0 .. n }
      BY <1>1, <3>2 DEF TcmRegions
    <3> QED BY <3>1, <3>3, <3>4
  <2>6. n + 1 \in 0 .. nblocks'
    BY <1>1, <1>3, <1>5, <2>1
  <2> QED BY <1>1, <1>5, <2>4, <2>5, <2>6 DEF MemoryInv
<1> QED BY <1>4, <1>5 DEF MapBlock, GoOn

LEMMA MemoryChecked == OptionsInv /\ MemoryInv /\ CheckBlocks => MemoryInv'
<1> SUFFICES ASSUME OptionsInv, MemoryInv, CheckBlocks PROVE MemoryInv'
  OBVIOUS
<1>1. /\ pc = "check" /\ span_kb' = span_kb /\ nblocks' = nblocks /\ with_anon' = with_anon
      /\ released = [region \in Regions |-> 0] /\ released' = released
      /\ blocks' = blocks /\ mapped' = mapped /\ ReqSet' = ReqSet
      /\ span_kb > 0 => nblocks = span_kb \div kBlockBytes
  BY DEF CheckBlocks, MemoryInv, options, memory, ReqSet
<1>2. PICK n \in 0 .. nblocks : BlocksAre(n) /\ mapped = TcmRegions(n) \cup ReqSet
  BY <1>1 DEF MemoryInv
<1>3. CASE pc' = "returned"
  BY <1>3 DEF MemoryInv
<1>4. CASE Len(blocks) = nblocks /\ pc' = IF with_anon THEN "anon" ELSE "choose"
  <2>1. n = nblocks
    BY <1>2, <1>4 DEF BlocksAre
  <2>2. BlocksAre(nblocks)' /\ mapped' = TcmRegions(nblocks)' \cup ReqSet'
    BY <1>1, <1>2, <2>1 DEF BlocksAre, TcmRegions
  <2>3. ~ with_anon => AnonSet' = {}
    BY <1>1 DEF AnonSet
  <2>4. /\ pc' \in {"anon", "choose"} /\ (pc' = "choose" => AnonSet' = {})
        /\ pc' = "anon" => with_anon'
    BY <1>1, <1>4, <2>3
  <2> QED BY <1>1, <2>2, <2>4 DEF MemoryInv
<1> QED BY <1>3, <1>4 DEF CheckBlocks, Exit, GoOn

LEMMA MemoryOfTheOthers == OptionsInv /\ MemoryInv /\ MapAnon => MemoryInv'
<1> SUFFICES ASSUME OptionsInv, MemoryInv, MapAnon PROVE MemoryInv'
  OBVIOUS
<1>1. /\ pc = "anon" /\ span_kb' = span_kb /\ nblocks' = nblocks /\ with_anon' = with_anon
      /\ released = [region \in Regions |-> 0] /\ released' = released
      /\ blocks' = blocks /\ ReqSet' = ReqSet
      /\ span_kb > 0 => nblocks = span_kb \div kBlockBytes
      /\ BlocksAre(nblocks) /\ mapped = TcmRegions(nblocks) \cup ReqSet
  BY DEF MapAnon, MemoryInv, options, ReqSet
<1>2. CASE pc' = "returned"
  BY <1>2 DEF MemoryInv
<1>3. CASE /\ pc' = "choose"
           /\ mapped' = mapped \union UNION { {A48(i), A384(i)} : i \in Numbers }
  <2>1. BlocksAre(nblocks)' /\ TcmRegions(nblocks)' = TcmRegions(nblocks)
    BY <1>1 DEF BlocksAre, TcmRegions
  <2>2. with_anon'
    BY <1>1 DEF MemoryInv
  <2> QED BY <1>1, <1>3, <2>1, <2>2 DEF MemoryInv, AnonSet
<1> QED BY <1>2, <1>3 DEF MapAnon, Exit, GoOn

\* The points leave the memory alone.
LEMMA MemoryNext == OptionsInv /\ MemoryInv /\ [MainNext]_vars => MemoryInv'
<1> SUFFICES ASSUME OptionsInv, MemoryInv, [MainNext]_vars PROVE MemoryInv'
  OBVIOUS
<1>1. ASSUME UNCHANGED <<span_kb, with_anon, req_id, nblocks, memory>>,
             \/ pc' = "returned"
             \/ pc' = pc
             \/ pc = "options" /\ pc' = "device"
             \/ pc \in {"choose", "sample"} /\ pc' \in {"choose", "sample", "release"}
      PROVE  MemoryInv'
  <2>1. /\ \A n : BlocksAre(n)' = BlocksAre(n) /\ TcmRegions(n)' = TcmRegions(n)
        /\ AnonSet' = AnonSet /\ ReqSet' = ReqSet
    BY <1>1 DEF BlocksAre, TcmRegions, AnonSet, ReqSet, memory
  <2> QED BY <1>1, <2>1 DEF MemoryInv, memory
<1>2. CASE Options
  BY <1>1, <1>2 DEF Options, Exit, GoOn, options
<1>3. CASE Device
  <2>1. UNCHANGED <<span_kb, with_anon, nblocks, blocks, released>> /\ ReqSet' = ReqSet /\ pc = "device"
    BY <1>3 DEF Device, options, ReqSet
  <2>2. CASE pc' = "allocate"
    <3>1. /\ blocks = <<>> /\ mapped = {} /\ released = [region \in Regions |-> 0]
          /\ mapped' = ReqSet'
      BY <1>3, <2>1, <2>2 DEF MemoryInv, Device, Exit, GoOn, ReqSet
    <3>2. nblocks \in Nat /\ span_kb \in Int /\ span_kb >= 0
      BY <2>1 DEF OptionsInv
    <3>3. span_kb = 0 => BlocksAre(0)' /\ mapped' = TcmRegions(0)' \cup ReqSet'
      BY <2>1, <3>1 DEF BlocksAre, TcmRegions
    <3>4. 0 \in 0 .. nblocks'
      BY <2>1, <3>2
    <3> QED BY <2>1, <2>2, <3>1, <3>2, <3>3, <3>4 DEF MemoryInv
  <2>3. CASE pc' = "returned"
    BY <2>3 DEF MemoryInv
  <2> QED BY <1>3, <2>2, <2>3 DEF Device, Exit, GoOn
<1>4. CASE Skip \/ Report
  BY <1>1, <1>4 DEF Skip, Report, NextPoint, options
<1>5. CASE Choose
  BY <1>1, <1>5 DEF Choose, GoOn, options
<1>6. CASE RejectSample \/ TakeSample
  BY <1>1, <1>6 DEF RejectSample, TakeSample, options
<1>7. CASE Release
  BY <1>7 DEF Release, Exit, MemoryInv
<1>8. CASE UNCHANGED vars
  BY <1>1, <1>8 DEF vars, options
<1> QED BY <1>2, <1>3, <1>4, <1>5, <1>6, <1>7, <1>8,
           MemoryOfTheSpan, MemoryOfABlock, MemoryChecked, MemoryOfTheOthers DEF MainNext

----------------------------------------------------------------------------
(* What is unmapped.                                                        *)

LEMMA RegionsApart ==
    ASSUME NEW i, NEW j
    PROVE  /\ (Tcm(i) = Tcm(j)) = (i = j)
           /\ (A48(i) = A48(j)) = (i = j)
           /\ (A384(i) = A384(j)) = (i = j)
           /\ Tcm(i) # A48(j) /\ Tcm(i) # A384(j) /\ A48(i) # A384(j)
           /\ Tcm(i) # Span /\ A48(i) # Span /\ A384(i) # Span
           /\ Tcm(i) # ReqPage /\ A48(i) # ReqPage /\ A384(i) # ReqPage /\ Span # ReqPage
BY DEF Tcm, A48, A384, Span, ReqPage

\* The loop over ordinary memory goes through the small buffers, then the large.
LEMMA AnonInOrder ==
    /\ DOMAIN AnonRegions = 1 .. 16
    /\ \A i \in 1 .. 8 : AnonRegions[i] = A48(i - 1)
    /\ \A i \in 9 .. 16 : AnonRegions[i] = A384(i - 9)
<1> DEFINE small == [i \in 1 .. kBlockCount |-> A48(i - 1)]
           large == [i \in 1 .. kBlockCount |-> A384(i - 1)]
           places == { A48(i) : i \in Int } \union { A384(i) : i \in Int }
<1>1. small \in Seq(places) /\ Len(small) = 8
  <2>1. \A i \in 1 .. 8 : A48(i - 1) \in places
    OBVIOUS
  <2>2. small = [i \in 1 .. 8 |-> A48(i - 1)]
    BY DEF kBlockCount
  <2> HIDE DEF small, places
  <2> QED BY <2>1, <2>2
<1>2. large \in Seq(places) /\ Len(large) = 8
  <2>1. \A i \in 1 .. 8 : A384(i - 1) \in places
    OBVIOUS
  <2>2. large = [i \in 1 .. 8 |-> A384(i - 1)]
    BY DEF kBlockCount
  <2> HIDE DEF large, places
  <2> QED BY <2>1, <2>2
<1>3. /\ \A i \in 1 .. 8 : small[i] = A48(i - 1)
      /\ \A i \in 1 .. 8 : large[i] = A384(i - 1)
  BY DEF kBlockCount
<1>4. AnonRegions = small \o large
  BY DEF AnonRegions
<1> HIDE DEF small, large, places
<1>5. /\ DOMAIN AnonRegions = 1 .. 16
      /\ \A i \in 1 .. 16 : AnonRegions[i] = IF i <= 8 THEN small[i] ELSE large[i - 8]
  <2>1. /\ AnonRegions \in Seq(places) /\ Len(AnonRegions) = Len(small) + Len(large)
        /\ \A i \in 1 .. Len(small) + Len(large) :
             AnonRegions[i] = IF i <= Len(small) THEN small[i] ELSE large[i - Len(small)]
    BY ONLY <1>1, <1>2, <1>4, ConcatProperties
  <2>2. DOMAIN AnonRegions = 1 .. Len(AnonRegions)
    BY <2>1, LenProperties
  <2>3. Len(small) + Len(large) = 16
    BY <1>1, <1>2
  <2> QED BY ONLY <1>1, <2>1, <2>2, <2>3
<1>6. ASSUME NEW i \in 9 .. 16 PROVE AnonRegions[i] = A384(i - 9)
  <2>1. i - 8 \in 1 .. 8 /\ (i - 8) - 1 = i - 9
    OBVIOUS
  <2>2. AnonRegions[i] = large[i - 8]
    BY <1>5
  <2>3. large[i - 8] = A384((i - 8) - 1)
    BY <1>3, <2>1
  <2> QED BY <2>1, <2>2, <2>3
<1> QED BY <1>3, <1>5, <1>6

LEMMA AnonUnmapsOnce ==
    ASSUME NEW region, with_anon \in BOOLEAN
    PROVE  AnonUnmaps(region) = IF region \in AnonSet THEN 1 ELSE 0
<1> DEFINE places == { i \in DOMAIN AnonRegions : AnonRegions[i] = region }
<1>1. CASE with_anon /\ region \in AnonSet
  <2>1. PICK j \in Numbers : region = A48(j) \/ region = A384(j)
    BY <1>1 DEF AnonSet
  <2>2. j \in 0 .. 7
    BY <2>1 DEF Numbers, kBlockCount
  <2>3. CASE region = A48(j)
    <3>1. ASSUME NEW i \in 1 .. 16 PROVE (AnonRegions[i] = region) = (i = j + 1)
      <4>1. CASE i \in 1 .. 8
        <5>1. AnonRegions[i] = A48(i - 1)
          BY <4>1, AnonInOrder
        <5> QED BY <2>2, <2>3, <5>1, RegionsApart
      <4>2. CASE i \in 9 .. 16
        <5>1. AnonRegions[i] = A384(i - 9)
          BY <4>2, AnonInOrder
        <5>2. i # j + 1
          BY <2>2, <4>2
        <5> QED BY <2>3, <5>1, <5>2, RegionsApart
      <4> QED BY <4>1, <4>2
    <3>2. places = {j + 1}
      BY <2>2, <3>1, AnonInOrder
    <3>3. Cardinality(places) = 1
      BY <3>2, FS_Singleton
    <3> QED BY <1>1, <3>3 DEF AnonUnmaps
  <2>4. CASE region = A384(j)
    <3>1. ASSUME NEW i \in 1 .. 16 PROVE (AnonRegions[i] = region) = (i = j + 9)
      <4>1. CASE i \in 1 .. 8
        <5>1. AnonRegions[i] = A48(i - 1)
          BY <4>1, AnonInOrder
        <5>2. i # j + 9
          BY <2>2, <4>1
        <5> QED BY <2>4, <5>1, <5>2, RegionsApart
      <4>2. CASE i \in 9 .. 16
        <5>1. AnonRegions[i] = A384(i - 9)
          BY <4>2, AnonInOrder
        <5> QED BY <2>2, <2>4, <5>1, RegionsApart
      <4> QED BY <4>1, <4>2
    <3>2. places = {j + 9}
      BY <2>2, <3>1, AnonInOrder
    <3>3. Cardinality(places) = 1
      BY <3>2, FS_Singleton
    <3> QED BY <1>1, <3>3 DEF AnonUnmaps
  <2> QED BY <2>1, <2>3, <2>4
<1>2. CASE with_anon /\ region \notin AnonSet
  <2>1. ASSUME NEW i \in 1 .. 16 PROVE AnonRegions[i] # region
    <3>1. CASE i \in 1 .. 8
      <4>1. AnonRegions[i] = A48(i - 1) /\ i - 1 \in Numbers
        BY <3>1, AnonInOrder DEF Numbers, kBlockCount
      <4> QED BY <1>2, <4>1 DEF AnonSet
    <3>2. CASE i \in 9 .. 16
      <4>1. AnonRegions[i] = A384(i - 9) /\ i - 9 \in Numbers
        BY <3>2, AnonInOrder DEF Numbers, kBlockCount
      <4> QED BY <1>2, <4>1 DEF AnonSet
    <3> QED BY <3>1, <3>2
  <2>2. places = {}
    BY <2>1, AnonInOrder
  <2>3. Cardinality(places) = 0
    BY <2>2, FS_EmptySet
  <2> QED BY <1>2, <2>3 DEF AnonUnmaps
<1>3. CASE ~ with_anon
  BY <1>3 DEF AnonUnmaps, AnonSet
<1> QED BY <1>1, <1>2, <1>3

LEMMA AnonIsInOrder ==
    with_anon => { AnonRegions[i] : i \in DOMAIN AnonRegions } = AnonSet
<1> SUFFICES ASSUME with_anon PROVE { AnonRegions[i] : i \in DOMAIN AnonRegions } = AnonSet
  OBVIOUS
<1>1. ASSUME NEW i \in 1 .. 16 PROVE AnonRegions[i] \in AnonSet
  <2>1. CASE i \in 1 .. 8
    <3>1. AnonRegions[i] = A48(i - 1) /\ i - 1 \in Numbers
      BY <2>1, AnonInOrder DEF Numbers, kBlockCount
    <3> QED BY <3>1 DEF AnonSet
  <2>2. CASE i \in 9 .. 16
    <3>1. AnonRegions[i] = A384(i - 9) /\ i - 9 \in Numbers
      BY <2>2, AnonInOrder DEF Numbers, kBlockCount
    <3> QED BY <3>1 DEF AnonSet
  <2> QED BY <2>1, <2>2
<1>2. ASSUME NEW j \in Numbers
      PROVE  \E i, k \in DOMAIN AnonRegions : AnonRegions[i] = A48(j) /\ AnonRegions[k] = A384(j)
  <2>1. j \in Int /\ j + 1 \in 1 .. 8 /\ j + 9 \in 9 .. 16
    BY DEF Numbers, kBlockCount
  <2>2. (j + 1) - 1 = j /\ (j + 9) - 9 = j
    BY <2>1
  <2>3. AnonRegions[j + 1] = A48((j + 1) - 1) /\ AnonRegions[j + 9] = A384((j + 9) - 9)
    BY <2>1, AnonInOrder
  <2>4. j + 1 \in DOMAIN AnonRegions /\ j + 9 \in DOMAIN AnonRegions
    BY <2>1, AnonInOrder
  <2> QED BY <2>2, <2>3, <2>4
<1>3. DOMAIN AnonRegions = 1 .. 16
  BY AnonInOrder
<1> HIDE DEF AnonRegions
<1> QED BY <1>1, <1>2, <1>3 DEF AnonSet

LEMMA BlockUnmapsOnce ==
    ASSUME NEW region, span_kb \in Int, span_kb >= 0, nblocks \in Nat, BlocksAre(nblocks)
    PROVE  BlockUnmaps(region) =
             IF span_kb = 0 /\ region \in { Tcm(i) : i \in 0 .. nblocks - 1 } THEN 1 ELSE 0
<1> DEFINE places == { i \in OwnedBlocks : blocks[i].base = region }
<1>1. DOMAIN blocks = 1 .. nblocks
  BY LenProperties DEF BlocksAre
<1>2. \A i \in 1 .. nblocks : blocks[i].base = Tcm(i - 1) /\ blocks[i].owned = (span_kb = 0)
  BY DEF BlocksAre
<1>3. CASE span_kb # 0
  <2>1. places = {}
    BY <1>1, <1>2, <1>3 DEF OwnedBlocks
  <2>2. Cardinality(places) = 0
    BY <2>1, FS_EmptySet
  <2> QED BY <1>3, <2>2 DEF BlockUnmaps
<1>4. CASE span_kb = 0
  <2>1. OwnedBlocks = 1 .. nblocks
    BY <1>1, <1>2, <1>4 DEF OwnedBlocks
  <2>2. ASSUME NEW j \in 0 .. nblocks - 1, region = Tcm(j) PROVE BlockUnmaps(region) = 1
    <3>1. ASSUME NEW i \in 1 .. nblocks PROVE (blocks[i].base = region) = (i = j + 1)
      <4>1. (Tcm(i - 1) = Tcm(j)) = (i - 1 = j)
        BY RegionsApart
      <4> QED BY <1>2, <2>2, <4>1
    <3>2. j + 1 \in 1 .. nblocks
      OBVIOUS
    <3>3. places = {j + 1}
      BY <2>1, <3>1, <3>2
    <3>4. Cardinality(places) = 1
      BY <3>3, FS_Singleton
    <3> QED BY <3>4 DEF BlockUnmaps
  <2>3. ASSUME region \notin { Tcm(i) : i \in 0 .. nblocks - 1 } PROVE BlockUnmaps(region) = 0
    <3>1. ASSUME NEW i \in 1 .. nblocks PROVE blocks[i].base # region
      <4>1. i - 1 \in 0 .. nblocks - 1
        OBVIOUS
      <4> QED BY <1>2, <2>3, <4>1
    <3>2. places = {}
      BY <2>1, <3>1
    <3>3. Cardinality(places) = 0
      BY <3>2, FS_EmptySet
    <3> QED BY <3>3 DEF BlockUnmaps
  <2> QED BY <1>4, <2>2, <2>3
<1> QED BY <1>3, <1>4

\* munmap() is called once for every region that was mapped, but for the page of
\* --req-id, and for no other.
LEMMA UnmapsOnce ==
    ASSUME OptionsInv, MemoryInv, pc = "release"
    PROVE  /\ \A region : Unmaps(region) = IF Mapped(region) THEN 1 ELSE 0
           /\ \A region : region \in mapped => Mapped(region) \/ region \in ReqSet
           /\ ReqSet \subseteq mapped /\ \A region \in ReqSet : ~ Mapped(region)
<1>1. /\ span_kb \in Int /\ span_kb >= 0 /\ nblocks \in Nat /\ with_anon \in BOOLEAN
      /\ BlocksAre(nblocks)
  BY DEF OptionsInv, MemoryInv
<1>2. \A region : (with_anon /\ region \in { AnonRegions[i] : i \in DOMAIN AnonRegions })
                    = (region \in AnonSet)
  BY <1>1, AnonIsInOrder DEF AnonSet
<1>3. \A i : A48(i) # Span /\ A384(i) # Span /\ Tcm(i) # Span
  BY RegionsApart
<1>4. Span \notin AnonSet
  BY <1>3 DEF AnonSet
<1>5. \A region \in AnonSet : \A i : region # Tcm(i)
  BY RegionsApart DEF AnonSet
<1>6. ASSUME NEW region PROVE Unmaps(region) = IF Mapped(region) THEN 1 ELSE 0
  <2> DEFINE other == region \in AnonSet
             block == span_kb = 0 /\ region \in { Tcm(i) : i \in 0 .. nblocks - 1 }
             span == span_kb > 0 /\ region = Span
  <2>1. AnonUnmaps(region) = IF other THEN 1 ELSE 0
    BY <1>1, AnonUnmapsOnce
  <2>2. BlockUnmaps(region) = IF block THEN 1 ELSE 0
    BY <1>1, BlockUnmapsOnce
  <2>3. SpanUnmaps(region) = IF span THEN 1 ELSE 0
    BY DEF SpanUnmaps
  <2>4. Mapped(region) <=> other \/ block \/ span
    BY <1>2 DEF Mapped
  <2>5. ~ (other /\ block) /\ ~ (other /\ span)
    BY <1>4, <1>5
  <2>6. ~ (block /\ span)
    BY <1>1
  <2> HIDE DEF other, block, span
  <2> QED BY ONLY <2>1, <2>2, <2>3, <2>4, <2>5, <2>6 DEF Unmaps
<1>7. ASSUME NEW region, region \in mapped PROVE Mapped(region) \/ region \in ReqSet
  <2>1. mapped = TcmRegions(nblocks) \union AnonSet \union ReqSet
    BY DEF MemoryInv
  <2>2. CASE region \in AnonSet
    BY <1>2, <2>2 DEF Mapped
  <2>3. CASE region \in TcmRegions(nblocks)
    BY <1>1, <2>3 DEF Mapped, TcmRegions
  <2> QED BY <1>7, <2>1, <2>2, <2>3
<1>8. ReqSet \subseteq mapped
  BY DEF MemoryInv
<1>9. ~ Mapped(ReqPage)
  <2>1. ReqPage \notin AnonSet
    BY RegionsApart DEF AnonSet
  <2>2. ReqPage # Span /\ \A i : ReqPage # Tcm(i)
    BY RegionsApart
  <2> QED BY <1>2, <2>1, <2>2 DEF Mapped
<1>10. \A region \in ReqSet : ~ Mapped(region)
  BY <1>9 DEF ReqSet
<1> QED BY <1>6, <1>7, <1>8, <1>10

LEMMA ReleasedOnceInit == MainInit => ReleasedOnce
BY DEF MainInit, ReleasedOnce

LEMMA ReleasedOnceNext ==
    OptionsInv /\ MemoryInv /\ ReleasedOnce /\ [MainNext]_vars => ReleasedOnce'
<1> SUFFICES ASSUME OptionsInv, MemoryInv, ReleasedOnce, [MainNext]_vars PROVE ReleasedOnce'
  OBVIOUS
<1>1. CASE pc' # "returned" \/ code' # 0
  BY <1>1 DEF ReleasedOnce
<1>2. CASE Release
  <2>1. \A region : Mapped(region)' = Mapped(region)
    BY <1>2 DEF Release, Mapped, options, AnonRegions
  <2>2. /\ mapped' = { region \in mapped : Unmaps(region) = 0 }
        /\ released' = [region \in Regions |-> released[region] + Unmaps(region)]
        /\ pc = "release"
    BY <1>2 DEF Release
  <2>3. released = [region \in Regions |-> 0]
    BY <2>2 DEF MemoryInv
  <2>4. mapped' = IF req_id' THEN {ReqPage} ELSE {}
    <3>1. \A region : region \in mapped' <=> region \in ReqSet
      <4>1. \A region : Unmaps(region) = IF Mapped(region) THEN 1 ELSE 0
        BY <2>2, UnmapsOnce
      <4>2. \A region : Unmaps(region) = 0 <=> ~ Mapped(region)
        BY <4>1
      <4> QED BY <2>2, <4>2, UnmapsOnce
    <3>2. req_id' = req_id
      BY <1>2 DEF Release, options
    <3> QED BY <3>1, <3>2 DEF ReqSet
  <2>5. ASSUME NEW region \in Regions
        PROVE  released'[region] = IF Mapped(region)' THEN 1 ELSE 0
    <3>1. released'[region] = 0 + Unmaps(region)
      BY <2>2, <2>3
    <3>2. Unmaps(region) = IF Mapped(region) THEN 1 ELSE 0
      BY <2>2, UnmapsOnce
    <3> QED BY ONLY <2>1, <3>1, <3>2
  <2> QED BY <2>4, <2>5 DEF ReleasedOnce
<1>3. CASE pc = "returned" /\ UNCHANGED vars
  <2>1. \A region : Mapped(region)' = Mapped(region)
    BY <1>3 DEF vars, Mapped, options, AnonRegions
  <2> QED BY <1>3, <2>1 DEF ReleasedOnce, vars, memory, options
<1>4. CASE UNCHANGED vars
  <2>1. \A region : Mapped(region)' = Mapped(region)
    BY <1>4 DEF vars, Mapped, options, AnonRegions
  <2> QED BY <1>4, <2>1 DEF ReleasedOnce, vars, memory, options
<1>5. Options \/ Device \/ MapSpan \/ MapBlock \/ CheckBlocks \/ MapAnon
        => pc' # "returned" \/ code' # 0
  BY DEF Options, Device, MapSpan, MapBlock, CheckBlocks, MapAnon, Exit, GoOn
<1>6. Skip \/ Choose \/ RejectSample \/ TakeSample \/ Report => pc' # "returned"
  BY DEF Skip, Choose, RejectSample, TakeSample, Report, NextPoint, GoOn
<1> QED BY <1>1, <1>2, <1>3, <1>4, <1>5, <1>6 DEF MainNext

\* Whatever was mapped, and in whatever way: when the program ends well, every
\* block, slice and buffer was unmapped, once, and the page of --req-id is all that
\* is left mapped.
THEOREM ReleasedOnceAlways == MainSpec => []ReleasedOnce
<1>1. MainInit => OptionsInv /\ MemoryInv /\ ReleasedOnce
  BY OptionsInit, MemoryInit, ReleasedOnceInit
<1>2. OptionsInv /\ MemoryInv /\ ReleasedOnce /\ [MainNext]_vars
        => (OptionsInv /\ MemoryInv /\ ReleasedOnce)'
  BY OptionsNext, MemoryNext, ReleasedOnceNext
<1> QED BY <1>1, <1>2, PTL DEF MainSpec

----------------------------------------------------------------------------
(* The points.                                                              *)

\* The cases of TCM come first.
LEMMA CasesInOrder ==
    /\ Len(TcmCases) = 3 /\ Len(AllCases) = 7
    /\ AllCases[1] = Case(f_384k, FALSE, 384, 0)
    /\ AllCases[2] = Case(z_24k, FALSE, 384, 0)
    /\ AllCases[3] = Case(f_384k, TRUE, 1536, 3)
    /\ AllCases[4] = Case(f_48k, FALSE, 48, 1)
    /\ AllCases[5] = Case(z_24k, FALSE, 384, 1)
    /\ AllCases[6] = Case(f_384k, FALSE, 384, 2)
    /\ AllCases[7] = Case(f_384k, TRUE, 1536, 4)
<1> DEFINE c1 == Case(f_384k, FALSE, 384, 0)
           c2 == Case(z_24k, FALSE, 384, 0)
           c3 == Case(f_384k, TRUE, 1536, 3)
           c4 == Case(f_48k, FALSE, 48, 1)
           c5 == Case(z_24k, FALSE, 384, 1)
           c6 == Case(f_384k, FALSE, 384, 2)
           c7 == Case(f_384k, TRUE, 1536, 4)
           cases == {c1, c2, c3, c4, c5, c6, c7}
<1>1. TcmCases = <<c1, c2, c3>> /\ AnonCases = <<c4, c5, c6, c7>>
  <2>1. 16 * 24 = 384 /\ kBlockBytes = 384 /\ 4 * kBlockBytes = 1536
    BY DEF kBlockBytes
  <2> QED BY ONLY <2>1 DEF TcmCases, AnonCases
<1> HIDE DEF c1, c2, c3, c4, c5, c6, c7
<1>2. TcmCases \in Seq(cases) /\ AnonCases \in Seq(cases) /\ Len(TcmCases) = 3 /\ Len(AnonCases) = 4
  BY <1>1
<1>3. /\ TcmCases[1] = c1 /\ TcmCases[2] = c2 /\ TcmCases[3] = c3
      /\ AnonCases[1] = c4 /\ AnonCases[2] = c5 /\ AnonCases[3] = c6 /\ AnonCases[4] = c7
  BY <1>1
<1> HIDE DEF cases
<1>4. /\ Len(AllCases) = Len(TcmCases) + Len(AnonCases)
      /\ \A i \in 1 .. Len(TcmCases) + Len(AnonCases) :
           AllCases[i] = IF i <= Len(TcmCases) THEN TcmCases[i] ELSE AnonCases[i - Len(TcmCases)]
  BY ONLY <1>2, ConcatProperties DEF AllCases
<1>5. /\ Len(AllCases) = 7
      /\ \A i \in 1 .. 7 : AllCases[i] = IF i <= 3 THEN TcmCases[i] ELSE AnonCases[i - 3]
  BY ONLY <1>2, <1>4
<1>6. /\ AllCases[1] = c1 /\ AllCases[2] = c2 /\ AllCases[3] = c3
      /\ AllCases[4] = c4 /\ AllCases[5] = c5 /\ AllCases[6] = c6 /\ AllCases[7] = c7
  BY ONLY <1>3, <1>5
<1> QED BY ONLY <1>2, <1>5, <1>6 DEF c1, c2, c3, c4, c5, c6, c7

LEMMA CaseCounts == CaseCount = IF with_anon THEN 7 ELSE 3
BY CasesInOrder DEF CaseCount

LEMMA ConfigCounts == Len(configs) = IF cpu_override = <<>> THEN 4 ELSE 1
BY DEF configs, DefaultConfigs

LEMMA PointInit == MainInit => PointInv
BY CaseCounts, ConfigCounts DEF MainInit, PointInv

\* The next point is one of the points.
LEMMA PointMoves ==
    ASSUME PointInv, OptionsInv, NextPoint, UNCHANGED options
    PROVE  PointInv'
<1>1. CaseCount' = CaseCount /\ configs' = configs
  BY DEF CaseCount, configs, options
<1>2. CaseCount \in Nat /\ CaseCount >= 1 /\ Len(configs) \in Nat /\ Len(configs) >= 1
  BY CaseCounts, ConfigCounts
<1>3. point \in [case : 1 .. CaseCount, config : 1 .. Len(configs)]
  BY DEF PointInv
<1>4. pc' # "sample"
  BY DEF NextPoint
<1>5. point' \in [case : 1 .. CaseCount, config : 1 .. Len(configs)]
  <2>1. CASE point.config < Len(configs)
    <3>1. point' = [point EXCEPT !.config = @ + 1]
      BY <2>1 DEF NextPoint
    <3>2. point.config + 1 \in 1 .. Len(configs)
      BY <1>2, <1>3, <2>1
    <3> QED BY <1>3, <3>1, <3>2
  <2>2. CASE ~ point.config < Len(configs) /\ point.case < CaseCount
    <3>1. point' = [case |-> point.case + 1, config |-> 1]
      BY <2>2 DEF NextPoint
    <3>2. point.case + 1 \in 1 .. CaseCount /\ 1 \in 1 .. Len(configs)
      BY <1>2, <1>3, <2>2
    <3> QED BY <3>1, <3>2
  <2>3. CASE ~ point.config < Len(configs) /\ ~ point.case < CaseCount
    BY <1>3, <2>3 DEF NextPoint
  <2> QED BY <2>1, <2>2, <2>3
<1> QED BY <1>1, <1>4, <1>5 DEF PointInv

LEMMA PointNext == OptionsInv /\ PointInv /\ [MainNext]_vars => PointInv'
<1> SUFFICES ASSUME OptionsInv, PointInv, [MainNext]_vars PROVE PointInv'
  OBVIOUS
<1>1. ASSUME UNCHANGED options, point' = point, pc' # "sample" PROVE PointInv'
  BY <1>1 DEF PointInv, CaseCount, configs, options
<1>2. ASSUME UNCHANGED <<options, nblocks, blocks, point, per_worker>>, pc = "sample"
      PROVE  PointInv'
  <2>1. CaseCount' = CaseCount /\ configs' = configs /\ cpus' = cpus /\ Skipped' = Skipped
    BY <1>2 DEF CaseCount, configs, cpus, Skipped, needed, which, options
  <2>2. \A cpu : BuffersOf(cpu)' = BuffersOf(cpu)
    BY <1>2 DEF BuffersOf, BaseOf, which, options
  <2> HIDE DEF BuffersOf
  <2>3. /\ ~ Skipped
        /\ DOMAIN per_worker = 1 .. Len(cpus)
        /\ \A i \in 1 .. Len(cpus) : \A cpu : cpu = cpus[i] => per_worker[i] = BuffersOf(cpu)
    BY <1>2 DEF PointInv
  <2>4. point' \in [case : 1 .. CaseCount', config : 1 .. Len(configs')]
    BY <1>2, <2>1 DEF PointInv
  <2>5. /\ DOMAIN per_worker' = 1 .. Len(cpus')
        /\ \A i \in 1 .. Len(cpus') :
             \A cpu : cpu = cpus'[i] => per_worker'[i] = BuffersOf(cpu)'
    BY <1>2, <2>1, <2>2, <2>3
  <2> QED BY <2>1, <2>3, <2>4, <2>5 DEF PointInv
<1>3. CASE Options \/ Device \/ MapSpan \/ MapBlock \/ CheckBlocks \/ MapAnon
  BY <1>1, <1>3 DEF Options, Device, MapSpan, MapBlock, CheckBlocks, MapAnon, Exit, GoOn, measuring
<1>4. CASE Skip \/ Report
  BY <1>4, PointMoves DEF Skip, Report
<1>5. CASE Choose
  <2>1. /\ UNCHANGED <<options, nblocks, blocks, point>> /\ ~ Skipped
        /\ per_worker' = [i \in 1 .. Len(cpus) |-> BuffersOf(cpus[i])]
    BY <1>5 DEF Choose, memory
  <2>2. CaseCount' = CaseCount /\ configs' = configs /\ cpus' = cpus /\ Skipped' = Skipped
    BY <2>1 DEF CaseCount, configs, cpus, Skipped, needed, which, options
  <2>3. \A cpu : BuffersOf(cpu)' = BuffersOf(cpu)
    BY <2>1 DEF BuffersOf, BaseOf, which, options
  <2> HIDE DEF BuffersOf
  <2>4. point' \in [case : 1 .. CaseCount', config : 1 .. Len(configs')]
    BY <2>1, <2>2 DEF PointInv
  <2>5. /\ DOMAIN per_worker' = 1 .. Len(cpus')
        /\ \A i \in 1 .. Len(cpus') :
             \A cpu : cpu = cpus'[i] => per_worker'[i] = BuffersOf(cpu)'
    BY <2>1, <2>2, <2>3
  <2> QED BY <2>1, <2>2, <2>4, <2>5 DEF PointInv
<1>6. CASE RejectSample \/ TakeSample
  BY <1>2, <1>6 DEF RejectSample, TakeSample, memory
<1>7. CASE Release
  BY <1>1, <1>7 DEF Release, Exit, measuring
<1>8. CASE UNCHANGED vars
  BY <1>1, <1>2, <1>8 DEF vars, memory, measuring
<1> QED BY <1>3, <1>4, <1>5, <1>6, <1>7, <1>8 DEF MainNext

----------------------------------------------------------------------------
(* What the workers read.                                                   *)

\* How much of a buffer there is, by the kind of the case.
RoomOf(kind) == IF kind = 1 THEN 48 ELSE 384

\* What a kernel loads fits in the buffers of its case, and the bytes of a pass
\* are what it loads, over the four bases where there are four.
LEMMA CaseFacts ==
    ASSUME NEW n \in 1 .. 7, NEW c, c = AllCases[n]
    PROVE  /\ c.which \in 0 .. 4
           /\ n <= 3 <=> c.which \in {0, 3}
           /\ c.fn4 <=> c.which \in {3, 4}
           /\ c.bytes_per_pass = (IF c.fn4 THEN 4 ELSE 1) * Len(c.fn)
           /\ \A k \in DOMAIN c.fn : c.fn[k] < RoomOf(c.which)
<1>1. Len(f_384k) = 384 /\ \A k \in DOMAIN f_384k : f_384k[k] < 384
  BY DEF f_384k, Full
<1>2. Len(f_48k) = 48 /\ \A k \in DOMAIN f_48k : f_48k[k] < 48
  BY DEF f_48k, Full
<1>3. Len(z_24k) = 384 /\ \A k \in DOMAIN z_24k : z_24k[k] < 24
  <2>1. 16 * 24 = 384
    OBVIOUS
  <2>2. z_24k = [i \in 1 .. 384 |-> (i - 1) % 24]
    BY <2>1 DEF z_24k
  <2>3. \A i \in 1 .. 384 : (i - 1) % 24 < 24
    OBVIOUS
  <2> QED BY <2>2, <2>3
<1>4. \A k \in DOMAIN z_24k : z_24k[k] < 48 /\ z_24k[k] < 384
  <2>1. \A k \in DOMAIN z_24k : z_24k[k] \in Int
    <3>1. \A i \in 1 .. 16 * 24 : (i - 1) % 24 \in Int
      OBVIOUS
    <3> QED BY <3>1 DEF z_24k
  <2> QED BY <1>3, <2>1
<1>5. n = 1 \/ n = 2 \/ n = 3 \/ n = 4 \/ n = 5 \/ n = 6 \/ n = 7
  OBVIOUS
<1>6. RoomOf(0) = 384 /\ RoomOf(1) = 48 /\ RoomOf(2) = 384 /\ RoomOf(3) = 384 /\ RoomOf(4) = 384
  BY DEF RoomOf
<1> HIDE DEF RoomOf
<1>7. CASE n = 1
  <2>1. c = Case(f_384k, FALSE, 384, 0)
    BY <1>7, CasesInOrder
  <2>2. c.fn = f_384k /\ c.fn4 = FALSE /\ c.bytes_per_pass = 384 /\ c.which = 0
    BY ONLY <2>1 DEF Case
  <2>3. \A k \in DOMAIN c.fn : c.fn[k] < RoomOf(c.which)
    BY ONLY <1>1, <1>4, <1>6, <2>2
  <2>4. c.which \in 0 .. 4 /\ (n <= 3 <=> c.which \in {0, 3})
    BY ONLY <1>7, <2>2
  <2>5. ~ c.fn4 /\ (c.which \in {3, 4} <=> FALSE)
    BY ONLY <2>2
  <2>6. c.bytes_per_pass = (IF c.fn4 THEN 4 ELSE 1) * Len(c.fn)
    <3>1. (IF c.fn4 THEN 4 ELSE 1) = 1
      BY ONLY <2>5
    <3>2. Len(c.fn) = 384
      BY ONLY <1>1, <2>2
    <3>3. 1 * 384 = 384
      OBVIOUS
    <3> QED BY ONLY <2>2, <3>1, <3>2, <3>3
  <2> QED BY ONLY <2>3, <2>4, <2>5, <2>6
<1>8. CASE n = 2
  <2>1. c = Case(z_24k, FALSE, 384, 0)
    BY <1>8, CasesInOrder
  <2>2. c.fn = z_24k /\ c.fn4 = FALSE /\ c.bytes_per_pass = 384 /\ c.which = 0
    BY ONLY <2>1 DEF Case
  <2>3. \A k \in DOMAIN c.fn : c.fn[k] < RoomOf(c.which)
    BY ONLY <1>3, <1>4, <1>6, <2>2
  <2>4. c.which \in 0 .. 4 /\ (n <= 3 <=> c.which \in {0, 3})
    BY ONLY <1>8, <2>2
  <2>5. ~ c.fn4 /\ (c.which \in {3, 4} <=> FALSE)
    BY ONLY <2>2
  <2>6. c.bytes_per_pass = (IF c.fn4 THEN 4 ELSE 1) * Len(c.fn)
    <3>1. (IF c.fn4 THEN 4 ELSE 1) = 1
      BY ONLY <2>5
    <3>2. Len(c.fn) = 384
      BY ONLY <1>3, <2>2
    <3>3. 1 * 384 = 384
      OBVIOUS
    <3> QED BY ONLY <2>2, <3>1, <3>2, <3>3
  <2> QED BY ONLY <2>3, <2>4, <2>5, <2>6
<1>9. CASE n = 3
  <2>1. c = Case(f_384k, TRUE, 1536, 3)
    BY <1>9, CasesInOrder
  <2>2. c.fn = f_384k /\ c.fn4 = TRUE /\ c.bytes_per_pass = 1536 /\ c.which = 3
    BY ONLY <2>1 DEF Case
  <2>3. \A k \in DOMAIN c.fn : c.fn[k] < RoomOf(c.which)
    BY ONLY <1>1, <1>4, <1>6, <2>2
  <2>4. c.which \in 0 .. 4 /\ (n <= 3 <=> c.which \in {0, 3})
    BY ONLY <1>9, <2>2
  <2>5. c.fn4 /\ (c.which \in {3, 4} <=> TRUE)
    BY ONLY <2>2
  <2>6. c.bytes_per_pass = (IF c.fn4 THEN 4 ELSE 1) * Len(c.fn)
    <3>1. (IF c.fn4 THEN 4 ELSE 1) = 4
      BY ONLY <2>5
    <3>2. Len(c.fn) = 384
      BY ONLY <1>1, <2>2
    <3>3. 4 * 384 = 1536
      OBVIOUS
    <3> QED BY ONLY <2>2, <3>1, <3>2, <3>3
  <2> QED BY ONLY <2>3, <2>4, <2>5, <2>6
<1>10. CASE n = 4
  <2>1. c = Case(f_48k, FALSE, 48, 1)
    BY <1>10, CasesInOrder
  <2>2. c.fn = f_48k /\ c.fn4 = FALSE /\ c.bytes_per_pass = 48 /\ c.which = 1
    BY ONLY <2>1 DEF Case
  <2>3. \A k \in DOMAIN c.fn : c.fn[k] < RoomOf(c.which)
    BY ONLY <1>2, <1>4, <1>6, <2>2
  <2>4. c.which \in 0 .. 4 /\ (n <= 3 <=> c.which \in {0, 3})
    BY ONLY <1>10, <2>2
  <2>5. ~ c.fn4 /\ (c.which \in {3, 4} <=> FALSE)
    BY ONLY <2>2
  <2>6. c.bytes_per_pass = (IF c.fn4 THEN 4 ELSE 1) * Len(c.fn)
    <3>1. (IF c.fn4 THEN 4 ELSE 1) = 1
      BY ONLY <2>5
    <3>2. Len(c.fn) = 48
      BY ONLY <1>2, <2>2
    <3>3. 1 * 48 = 48
      OBVIOUS
    <3> QED BY ONLY <2>2, <3>1, <3>2, <3>3
  <2> QED BY ONLY <2>3, <2>4, <2>5, <2>6
<1>11. CASE n = 5
  <2>1. c = Case(z_24k, FALSE, 384, 1)
    BY <1>11, CasesInOrder
  <2>2. c.fn = z_24k /\ c.fn4 = FALSE /\ c.bytes_per_pass = 384 /\ c.which = 1
    BY ONLY <2>1 DEF Case
  <2>3. \A k \in DOMAIN c.fn : c.fn[k] < RoomOf(c.which)
    BY ONLY <1>3, <1>4, <1>6, <2>2
  <2>4. c.which \in 0 .. 4 /\ (n <= 3 <=> c.which \in {0, 3})
    BY ONLY <1>11, <2>2
  <2>5. ~ c.fn4 /\ (c.which \in {3, 4} <=> FALSE)
    BY ONLY <2>2
  <2>6. c.bytes_per_pass = (IF c.fn4 THEN 4 ELSE 1) * Len(c.fn)
    <3>1. (IF c.fn4 THEN 4 ELSE 1) = 1
      BY ONLY <2>5
    <3>2. Len(c.fn) = 384
      BY ONLY <1>3, <2>2
    <3>3. 1 * 384 = 384
      OBVIOUS
    <3> QED BY ONLY <2>2, <3>1, <3>2, <3>3
  <2> QED BY ONLY <2>3, <2>4, <2>5, <2>6
<1>12. CASE n = 6
  <2>1. c = Case(f_384k, FALSE, 384, 2)
    BY <1>12, CasesInOrder
  <2>2. c.fn = f_384k /\ c.fn4 = FALSE /\ c.bytes_per_pass = 384 /\ c.which = 2
    BY ONLY <2>1 DEF Case
  <2>3. \A k \in DOMAIN c.fn : c.fn[k] < RoomOf(c.which)
    BY ONLY <1>1, <1>4, <1>6, <2>2
  <2>4. c.which \in 0 .. 4 /\ (n <= 3 <=> c.which \in {0, 3})
    BY ONLY <1>12, <2>2
  <2>5. ~ c.fn4 /\ (c.which \in {3, 4} <=> FALSE)
    BY ONLY <2>2
  <2>6. c.bytes_per_pass = (IF c.fn4 THEN 4 ELSE 1) * Len(c.fn)
    <3>1. (IF c.fn4 THEN 4 ELSE 1) = 1
      BY ONLY <2>5
    <3>2. Len(c.fn) = 384
      BY ONLY <1>1, <2>2
    <3>3. 1 * 384 = 384
      OBVIOUS
    <3> QED BY ONLY <2>2, <3>1, <3>2, <3>3
  <2> QED BY ONLY <2>3, <2>4, <2>5, <2>6
<1>13. CASE n = 7
  <2>1. c = Case(f_384k, TRUE, 1536, 4)
    BY <1>13, CasesInOrder
  <2>2. c.fn = f_384k /\ c.fn4 = TRUE /\ c.bytes_per_pass = 1536 /\ c.which = 4
    BY ONLY <2>1 DEF Case
  <2>3. \A k \in DOMAIN c.fn : c.fn[k] < RoomOf(c.which)
    BY ONLY <1>1, <1>4, <1>6, <2>2
  <2>4. c.which \in 0 .. 4 /\ (n <= 3 <=> c.which \in {0, 3})
    BY ONLY <1>13, <2>2
  <2>5. c.fn4 /\ (c.which \in {3, 4} <=> TRUE)
    BY ONLY <2>2
  <2>6. c.bytes_per_pass = (IF c.fn4 THEN 4 ELSE 1) * Len(c.fn)
    <3>1. (IF c.fn4 THEN 4 ELSE 1) = 4
      BY ONLY <2>5
    <3>2. Len(c.fn) = 384
      BY ONLY <1>1, <2>2
    <3>3. 4 * 384 = 1536
      OBVIOUS
    <3> QED BY ONLY <2>2, <3>1, <3>2, <3>3
  <2> QED BY ONLY <2>3, <2>4, <2>5, <2>6
<1> QED BY <1>5, <1>7, <1>8, <1>9, <1>10, <1>11, <1>12, <1>13

\* The list of CPUs of a point is not empty.
LEMMA CpusAreListed ==
    ASSUME OptionsInv, PointInv
    PROVE  cpus \in Seq(Int) /\ Len(cpus) \in Nat \ {0} /\ DOMAIN cpus = 1 .. Len(cpus)
<1>1. point.config \in 1 .. Len(configs)
  BY DEF PointInv
<1>2. CASE cpu_override = <<>>
  <2>1. \/ point.config = 1 /\ cpus = <<8>>
        \/ point.config = 2 /\ cpus = <<8, 12>>
        \/ point.config = 3 /\ cpus = <<8, 9, 10, 11>>
        \/ point.config = 4 /\ cpus = <<8, 9, 10, 11, 12, 13, 14, 15>>
    BY <1>1, <1>2, ConfigCounts DEF cpus, configs, DefaultConfigs
  <2>2. CASE cpus = <<8>>
    BY ONLY <2>2
  <2>3. CASE cpus = <<8, 12>>
    BY ONLY <2>3
  <2>4. CASE cpus = <<8, 9, 10, 11>>
    BY ONLY <2>4
  <2>5. CASE cpus = <<8, 9, 10, 11, 12, 13, 14, 15>>
    BY ONLY <2>5
  <2> QED BY ONLY <2>1, <2>2, <2>3, <2>4, <2>5
<1>3. CASE cpu_override # <<>>
  <2>1. cpus = cpu_override /\ cpus \in Seq(Int)
    BY <1>1, <1>3, ConfigCounts DEF cpus, configs, OptionsInv
  <2>2. Len(cpus) \in Nat /\ DOMAIN cpus = 1 .. Len(cpus)
    BY <2>1, LenProperties
  <2>3. Len(cpus) # 0
    BY <1>3, <2>1, EmptySeq
  <2> QED BY <2>1, <2>2, <2>3
<1> QED BY <1>2, <1>3

\* The CPUs of the list, the last one among them, are those of the domain.
LEMMA CpusAreOnA100 ==
    ASSUME OptionsInv, PointInv, OnA100, NEW i \in DOMAIN cpus
    PROVE  cpus[i] \in 8 .. 15 /\ Last(cpus) \in 8 .. 15
<1>1. ToSet(cpus) \subseteq 8 .. 15
  BY DEF OnA100, kA100Cpus
<1>2. cpus[i] \in ToSet(cpus) /\ Last(cpus) \in ToSet(cpus)
  BY CpusAreListed DEF ToSet, Last
<1> QED BY <1>1, <1>2

\* What was mapped where a sample is taken.
LEMMA BlocksAreMapped ==
    ASSUME OptionsInv, MemoryInv, pc = "sample", NEW k \in 0 .. nblocks - 1
    PROVE  BaseOf(k) = Tcm(k) /\ IsMapped(Tcm(k))
<1>1. /\ span_kb \in Int /\ span_kb >= 0 /\ nblocks \in Nat /\ BlocksAre(nblocks)
      /\ span_kb > 0 => nblocks = span_kb \div kBlockBytes
      /\ mapped = TcmRegions(nblocks) \union AnonSet \union ReqSet
  BY DEF OptionsInv, MemoryInv
<1>2. k + 1 \in 1 .. nblocks /\ (k + 1) - 1 = k
  BY <1>1
<1>3. BaseOf(k) = Tcm(k)
  <2>1. Len(blocks) = nblocks /\ blocks[k + 1].base = Tcm((k + 1) - 1)
    BY <1>1, <1>2 DEF BlocksAre
  <2> QED BY <1>1, <1>2, <2>1 DEF BaseOf
<1>4. CASE span_kb = 0
  <2>1. Tcm(k) \in mapped
    BY <1>1, <1>4 DEF TcmRegions
  <2> QED BY <1>3, <2>1 DEF IsMapped
<1>5. CASE span_kb > 0
  <2>1. Span \in mapped
    BY <1>1, <1>5 DEF TcmRegions
  <2>2. Tcm(k)[1] = "tcm" /\ Tcm(k)[2] = k
    BY DEF Tcm
  <2>3. k < span_kb \div kBlockBytes
    BY <1>1, <1>5
  <2> QED BY <1>3, <2>1, <2>2, <2>3 DEF IsMapped
<1> QED BY <1>1, <1>3, <1>4, <1>5

LEMMA OthersAreMapped ==
    ASSUME OptionsInv, MemoryInv, PointInv, pc = "sample", which \notin {0, 3}, NEW k \in 0 .. 7
    PROVE  IsMapped(A48(k)) /\ IsMapped(A384(k))
<1>1. point.case \in 1 .. CaseCount
  BY DEF PointInv
<1>2. with_anon
  <2>1. point.case \in 1 .. 7
    BY <1>1, CaseCounts
  <2>2. ~ point.case <= 3
    BY <2>1, CaseFacts DEF which
  <2> QED BY <1>1, <2>2, CaseCounts
<1>3. A48(k) \in mapped /\ A384(k) \in mapped
  BY <1>2 DEF MemoryInv, AnonSet, Numbers, kBlockCount
<1> QED BY <1>3 DEF IsMapped

\* What lies past the blocks is no region of the program.
Outside(k) == <<"outside", k>>

LEMMA OutsideIsNotMapped ==
    ASSUME MemoryInv, pc = "sample", NEW k
    PROVE  ~ IsMapped(Outside(k))
<1>1. mapped = TcmRegions(nblocks) \union AnonSet \union ReqSet
  BY DEF MemoryInv
<1>2. /\ \A i : Outside(k) # Tcm(i) /\ Outside(k) # A48(i) /\ Outside(k) # A384(i)
      /\ Outside(k) # Span /\ Outside(k) # ReqPage /\ Outside(k)[1] # "tcm"
  BY DEF Outside, Tcm, A48, A384, Span, ReqPage
<1> QED BY <1>1, <1>2 DEF IsMapped, TcmRegions, AnonSet, ReqSet

\* The place of the blocks of a cluster.
LEMMA FirstOfCluster ==
    ASSUME NEW cpu \in 8 .. 15, NEW k \in 1 .. 4
    PROVE  first(cpu) + k - 1 \in 0 .. 7
BY DEF first, kBlocksPerCluster

\* What the worker on a CPU is given, in each kind of case.
LEMMA BuffersByKind ==
    ASSUME OptionsInv, MemoryInv, PointInv, pc = "sample", OnA100,
           NEW i \in DOMAIN cpus, NEW cpu, cpu = cpus[i]
    PROVE  /\ which = 3 => BuffersOf(cpu) = [k \in 1 .. 4 |-> Tcm(first(cpu) + k - 1)]
           /\ which = 4 => BuffersOf(cpu) = [k \in 1 .. 4 |-> A384(first(cpu) + k - 1)]
           /\ which = 0 => \/ \E k \in 0 .. nblocks - 1 :
                                 BuffersOf(cpu) = << Tcm(k) >> /\ (~ share => k = cpu - 8)
                           \/ BeyondNeeded(cpu) /\ BuffersOf(cpu) = << Outside(cpu - 8) >>
           /\ which = 1 => BuffersOf(cpu) = << A48(cpu - 8) >>
           /\ which = 2 => BuffersOf(cpu) = << A384(cpu - 8) >>
<1>1. cpu \in 8 .. 15 /\ Last(cpus) \in 8 .. 15
  BY CpusAreOnA100
<1>2. nblocks \in 1 .. 8 /\ share \in BOOLEAN
  BY DEF OptionsInv, kBlockCount
<1>3. ~ Skipped
  BY DEF PointInv
<1>4. ASSUME which = 3 PROVE BuffersOf(cpu) = [k \in 1 .. 4 |-> Tcm(first(cpu) + k - 1)]
  <2>1. needed = 8
    BY <1>4 DEF needed, kBlockCount
  <2>2. nblocks = 8
    BY <1>2, <1>3, <2>1 DEF Skipped
  <2>3. ASSUME NEW k \in 1 .. 4 PROVE BaseOf(first(cpu) + k - 1) = Tcm(first(cpu) + k - 1)
    <3>1. first(cpu) + k - 1 \in 0 .. nblocks - 1
      BY <1>1, <2>2, FirstOfCluster
    <3> QED BY <3>1, BlocksAreMapped
  <2>4. BuffersOf(cpu) = [k \in 1 .. 4 |-> BaseOf(first(cpu) + k - 1)]
    BY <1>4 DEF BuffersOf, kBlocksPerCluster
  <2> QED BY <2>3, <2>4
<1>5. ASSUME which = 4 PROVE BuffersOf(cpu) = [k \in 1 .. 4 |-> A384(first(cpu) + k - 1)]
  BY <1>5 DEF BuffersOf, kBlocksPerCluster
<1>6. ASSUME which = 0
      PROVE  \/ \E k \in 0 .. nblocks - 1 : BuffersOf(cpu) = << Tcm(k) >> /\ (~ share => k = cpu - 8)
             \/ BeyondNeeded(cpu) /\ BuffersOf(cpu) = << Outside(cpu - 8) >>
  <2>1. needed = IF share THEN 1 ELSE Last(cpus) - 8 + 1
    BY <1>6 DEF needed
  <2>2. ~ needed > nblocks
    BY <1>3 DEF Skipped
  <2> DEFINE place == IF share THEN (cpu - 8) % nblocks ELSE cpu - 8
  <2>3. BuffersOf(cpu) = << BaseOf(place) >>
    BY <1>6 DEF BuffersOf
  <2>4. CASE place \in 0 .. nblocks - 1
    <3>1. BaseOf(place) = Tcm(place)
      BY <2>4, BlocksAreMapped
    <3>2. BuffersOf(cpu) = << Tcm(place) >> /\ (~ share => place = cpu - 8)
      BY <2>3, <3>1
    <3> HIDE DEF place
    <3> QED BY ONLY <2>4, <3>2
  <2>5. CASE place \notin 0 .. nblocks - 1
    <3>1. ~ share
      <4>1. (cpu - 8) % nblocks \in 0 .. nblocks - 1
        BY <1>1, <1>2
      <4> QED BY <2>5, <4>1
    <3>2. cpu - 8 >= nblocks /\ cpu > Last(cpus)
      BY <1>1, <1>2, <2>1, <2>2, <2>5, <3>1
    <3>3. Len(blocks) = nblocks
      BY DEF MemoryInv, BlocksAre
    <3>4. BaseOf(cpu - 8) = Outside(cpu - 8)
      BY <1>1, <1>2, <3>2, <3>3 DEF BaseOf, Outside
    <3> QED BY <1>6, <2>3, <3>1, <3>2, <3>4 DEF BeyondNeeded
  <2> QED BY <2>4, <2>5
<1>7. which = 1 => BuffersOf(cpu) = << A48(cpu - 8) >>
  BY DEF BuffersOf
<1>8. which = 2 => BuffersOf(cpu) = << A384(cpu - 8) >>
  BY DEF BuffersOf
<1> QED BY <1>4, <1>5, <1>6, <1>7, <1>8

\* Where a buffer of a worker lies, and how much of it there is.
LEMMA BuffersAreThere ==
    ASSUME OptionsInv, MemoryInv, PointInv, pc = "sample", OnA100,
           NEW i \in DOMAIN cpus, NEW cpu, cpu = cpus[i], NEW buffer \in ToSet(BuffersOf(cpu))
    PROVE  \/ IsMapped(buffer) /\ ~ BeyondNeeded(cpu) /\ Room(buffer) = RoomOf(which)
           \/ BeyondNeeded(cpu) /\ ~ IsMapped(buffer)
<1>1. cpu \in 8 .. 15
  BY CpusAreOnA100
<1>2. which \in 0 .. 4
  <2>1. point.case \in 1 .. 7
    BY CaseCounts DEF PointInv
  <2> QED BY <2>1, CaseFacts DEF which
<1>3. \A k : Room(Tcm(k)) = 384 /\ Room(A384(k)) = 384 /\ Room(A48(k)) = 48
  BY DEF Room, Tcm, A384, A48, kBlockBytes
<1>4. which # 0 => ~ BeyondNeeded(cpu)
  BY DEF BeyondNeeded
<1>5. CASE which = 3
  <2>1. BuffersOf(cpu) = [k \in 1 .. 4 |-> Tcm(first(cpu) + k - 1)]
    BY <1>5, BuffersByKind
  <2>2. PICK k \in 1 .. 4 : buffer = Tcm(first(cpu) + k - 1)
    BY <2>1 DEF ToSet
  <2>3. nblocks = 8
    <3>1. needed = 8
      BY <1>5 DEF needed, kBlockCount
    <3> QED BY <3>1 DEF OptionsInv, PointInv, Skipped, kBlockCount
  <2>4. first(cpu) + k - 1 \in 0 .. nblocks - 1
    BY <1>1, <2>3, FirstOfCluster
  <2> QED BY <1>3, <1>4, <1>5, <2>2, <2>4, BlocksAreMapped DEF RoomOf
<1>6. CASE which = 4
  <2>1. BuffersOf(cpu) = [k \in 1 .. 4 |-> A384(first(cpu) + k - 1)]
    BY <1>6, BuffersByKind
  <2>2. PICK k \in 1 .. 4 : buffer = A384(first(cpu) + k - 1)
    BY <2>1 DEF ToSet
  <2>3. first(cpu) + k - 1 \in 0 .. 7
    BY <1>1, FirstOfCluster
  <2> QED BY <1>3, <1>4, <1>6, <2>2, <2>3, OthersAreMapped DEF RoomOf
<1>7. CASE which = 0
  <2>1. CASE BeyondNeeded(cpu) /\ BuffersOf(cpu) = << Outside(cpu - 8) >>
    <3>1. buffer = Outside(cpu - 8)
      BY <2>1 DEF ToSet
    <3> QED BY <2>1, <3>1, OutsideIsNotMapped
  <2>2. CASE \E k \in 0 .. nblocks - 1 : BuffersOf(cpu) = << Tcm(k) >> /\ (~ share => k = cpu - 8)
    <3>1. PICK k \in 0 .. nblocks - 1 : BuffersOf(cpu) = << Tcm(k) >> /\ (~ share => k = cpu - 8)
      BY <2>2
    <3>2. buffer = Tcm(k)
      BY <3>1 DEF ToSet
    <3>3. ~ BeyondNeeded(cpu)
      <4>1. nblocks \in 1 .. 8
        BY DEF OptionsInv, kBlockCount
      <4> QED BY <1>1, <3>1, <4>1 DEF BeyondNeeded
    <3> QED BY <1>3, <1>7, <3>2, <3>3, BlocksAreMapped DEF RoomOf
  <2> QED BY <1>7, <2>1, <2>2, BuffersByKind
<1>8. CASE which = 1
  <2>1. BuffersOf(cpu) = << A48(cpu - 8) >>
    BY <1>8, BuffersByKind
  <2>2. buffer = A48(cpu - 8)
    BY <2>1 DEF ToSet
  <2>3. cpu - 8 \in 0 .. 7
    BY <1>1
  <2> QED BY <1>3, <1>4, <1>8, <2>2, <2>3, OthersAreMapped DEF RoomOf
<1>9. CASE which = 2
  <2>1. BuffersOf(cpu) = << A384(cpu - 8) >>
    BY <1>9, BuffersByKind
  <2>2. buffer = A384(cpu - 8)
    BY <2>1 DEF ToSet
  <2>3. cpu - 8 \in 0 .. 7
    BY <1>1
  <2> QED BY <1>3, <1>4, <1>9, <2>2, <2>3, OthersAreMapped DEF RoomOf
<1> QED BY <1>2, <1>5, <1>6, <1>7, <1>8, <1>9

\* The rates are computed from what is loaded.
LEMMA LoadedIsCounted ==
    ASSUME OptionsInv, MemoryInv, PointInv, pc = "sample", OnA100,
           NEW i \in DOMAIN cpus, NEW cpu, cpu = cpus[i]
    PROVE  Loaded(BuffersOf(cpu)) = Counted
<1> DEFINE c == AllCases[point.case]
<1>1. point.case \in 1 .. 7
  BY CaseCounts DEF PointInv
<1>2. /\ c.fn4 <=> which \in {3, 4}
      /\ c.bytes_per_pass = (IF c.fn4 THEN 4 ELSE 1) * Len(c.fn)
  BY <1>1, CaseFacts DEF which
<1>3. which \in {3, 4} => Len(BuffersOf(cpu)) = 4
  <2>1. CASE which = 3
    <3>1. BuffersOf(cpu) = [k \in 1 .. 4 |-> Tcm(first(cpu) + k - 1)]
      BY <2>1, BuffersByKind
    <3> QED BY <3>1
  <2>2. CASE which = 4
    <3>1. BuffersOf(cpu) = [k \in 1 .. 4 |-> A384(first(cpu) + k - 1)]
      BY <2>2, BuffersByKind
    <3> QED BY <3>1
  <2> QED BY <2>1, <2>2
<1>4. (IF c.fn4 THEN Len(BuffersOf(cpu)) ELSE 1) = (IF c.fn4 THEN 4 ELSE 1)
  BY ONLY <1>2, <1>3
<1>5. Loaded(BuffersOf(cpu))
        = (IF c.fn4 THEN Len(BuffersOf(cpu)) ELSE 1) * Len(c.fn) * rep(c.bytes_per_pass)
  BY DEF Loaded
<1>6. Counted = c.bytes_per_pass * rep(c.bytes_per_pass)
  BY DEF Counted
<1> HIDE DEF c
<1> QED BY ONLY <1>2, <1>4, <1>5, <1>6

\* The CPUs of the cluster of a CPU.
LEMMA ClusterOf ==
    ASSUME NEW cpu \in 8 .. 15
    PROVE  { c - 8 : c \in { d \in kA100Cpus : (d <= 11) = (cpu <= 11) } }
             = { first(cpu) + k - 1 : k \in 1 .. 4 }
<1>1. CASE cpu <= 11
  <2>1. first(cpu) = 0
    BY <1>1 DEF first
  <2>2. { d \in kA100Cpus : (d <= 11) = (cpu <= 11) } = 8 .. 11
    BY <1>1 DEF kA100Cpus
  <2>3. \A x : (\E c \in 8 .. 11 : x = c - 8) <=> x \in 0 .. 3
    OBVIOUS
  <2>4. \A x : (\E k \in 1 .. 4 : x = 0 + k - 1) <=> x \in 0 .. 3
    OBVIOUS
  <2> QED BY <2>1, <2>2, <2>3, <2>4
<1>2. CASE ~ cpu <= 11
  <2>1. first(cpu) = 4
    BY <1>2 DEF first, kBlocksPerCluster
  <2>2. { d \in kA100Cpus : (d <= 11) = (cpu <= 11) } = 12 .. 15
    BY <1>2 DEF kA100Cpus
  <2>3. \A x : (\E c \in 12 .. 15 : x = c - 8) <=> x \in 4 .. 7
    OBVIOUS
  <2>4. \A x : (\E k \in 1 .. 4 : x = 4 + k - 1) <=> x \in 4 .. 7
    OBVIOUS
  <2> QED BY <2>1, <2>2, <2>3, <2>4
<1> QED BY <1>1, <1>2

\* The buffers of a cluster are those of its CPUs.
LEMMA OwnCluster ==
    ASSUME OptionsInv, MemoryInv, PointInv, pc = "sample", OnA100,
           NEW i \in DOMAIN cpus, NEW cpu, cpu = cpus[i], which \in {3, 4}
    PROVE  ToSet(BuffersOf(cpu)) =
             { IF which = 3 THEN Tcm(c - 8) ELSE A384(c - 8) :
                 c \in { d \in kA100Cpus : (d <= 11) = (cpu <= 11) } }
<1> DEFINE own == { d \in kA100Cpus : (d <= 11) = (cpu <= 11) }
           places == { first(cpu) + k - 1 : k \in 1 .. 4 }
<1>1. { c - 8 : c \in own } = places
  BY CpusAreOnA100, ClusterOf
<1> HIDE DEF own
<1>2. CASE which = 3
  <2>1. BuffersOf(cpu) = [k \in 1 .. 4 |-> Tcm(first(cpu) + k - 1)]
    BY <1>2, BuffersByKind
  <2>2. ToSet(BuffersOf(cpu)) = { Tcm(x) : x \in places }
    BY <2>1 DEF ToSet
  <2> HIDE DEF places
  <2>3. { Tcm(x) : x \in places } = { Tcm(c - 8) : c \in own }
    BY <1>1
  <2> QED BY <1>2, <2>2, <2>3 DEF own
<1>3. CASE which = 4
  <2>1. BuffersOf(cpu) = [k \in 1 .. 4 |-> A384(first(cpu) + k - 1)]
    BY <1>3, BuffersByKind
  <2>2. ToSet(BuffersOf(cpu)) = { A384(x) : x \in places }
    BY <2>1 DEF ToSet
  <2> HIDE DEF places
  <2>3. { A384(x) : x \in places } = { A384(c - 8) : c \in own }
    BY <1>1
  <2> QED BY <1>3, <2>2, <2>3 DEF own
<1> QED BY <1>2, <1>3

LEMMA OneElement == ASSUME NEW x, NEW y, << x >> = << y >> PROVE x = y
<1>1. << x >>[1] = x /\ << y >>[1] = y
  OBVIOUS
<1> QED BY <1>1

\* Two workers that read the same buffer run on the same CPU.
LEMMA ApartBuffers ==
    ASSUME OptionsInv, MemoryInv, PointInv, pc = "sample", OnA100, which \notin {3, 4},
           NEW i \in DOMAIN cpus, NEW j \in DOMAIN cpus, NEW a, a = cpus[i], NEW b, b = cpus[j],
           BuffersOf(a) = BuffersOf(b), ~ (share /\ which = 0)
    PROVE  a = b
<1>1. a \in 8 .. 15 /\ b \in 8 .. 15
  BY CpusAreOnA100
<1>2. which \in 0 .. 4
  <2>1. point.case \in 1 .. 7
    BY CaseCounts DEF PointInv
  <2> QED BY <2>1, CaseFacts DEF which
<1>3. CASE which = 0
  <2>1. BuffersOf(a) = << Tcm(a - 8) >> \/ BuffersOf(a) = << Outside(a - 8) >>
    BY <1>3, BuffersByKind
  <2>2. BuffersOf(b) = << Tcm(b - 8) >> \/ BuffersOf(b) = << Outside(b - 8) >>
    BY <1>3, BuffersByKind
  <2>3. PICK x, y : /\ BuffersOf(a) = << x >> /\ (x = Tcm(a - 8) \/ x = Outside(a - 8))
                    /\ BuffersOf(b) = << y >> /\ (y = Tcm(b - 8) \/ y = Outside(b - 8))
    BY <2>1, <2>2
  <2>4. x = y
    BY <2>3, OneElement
  <2>5. a - 8 = b - 8
    BY <2>3, <2>4 DEF Tcm, Outside
  <2> QED BY <1>1, <2>5
<1>4. CASE which = 1
  <2>1. BuffersOf(a) = << A48(a - 8) >> /\ BuffersOf(b) = << A48(b - 8) >>
    BY <1>4, BuffersByKind
  <2>2. << A48(a - 8) >> = << A48(b - 8) >>
    BY <2>1
  <2>3. a - 8 = b - 8
    BY <2>2, OneElement, RegionsApart
  <2> QED BY <1>1, <2>3
<1>5. CASE which = 2
  <2>1. BuffersOf(a) = << A384(a - 8) >> /\ BuffersOf(b) = << A384(b - 8) >>
    BY <1>5, BuffersByKind
  <2>2. << A384(a - 8) >> = << A384(b - 8) >>
    BY <2>1
  <2>3. a - 8 = b - 8
    BY <2>2, OneElement, RegionsApart
  <2> QED BY <1>1, <2>3
<1> QED BY <1>2, <1>3, <1>4, <1>5

LEMMA InvariantWorkersRead == OptionsInv /\ MemoryInv /\ PointInv => WorkersReadTheirOwn
<1> SUFFICES ASSUME OptionsInv, MemoryInv, PointInv, pc = "sample", OnA100
             PROVE  /\ \A i \in DOMAIN cpus :
                         (\A buffer \in ToSet(per_worker[i]) : IsMapped(buffer))
                           <=> ~ BeyondNeeded(cpus[i])
                    /\ BytesAreLoaded
                    /\ \A i \in DOMAIN cpus :
                         IF which \in {3, 4}
                         THEN LET own == { cpu \in kA100Cpus : (cpu <= 11) = (cpus[i] <= 11) }
                              IN  ToSet(per_worker[i]) =
                                    { IF which = 3 THEN Tcm(cpu - 8) ELSE A384(cpu - 8) : cpu \in own }
                         ELSE \A j \in DOMAIN cpus :
                                (per_worker[i] = per_worker[j] /\ ~ (share /\ which = 0))
                                  => cpus[i] = cpus[j]
  BY DEF WorkersReadTheirOwn
<1>1. DOMAIN per_worker = DOMAIN cpus
  BY CpusAreListed DEF PointInv
<1>2. \A i \in DOMAIN cpus : \A cpu : cpu = cpus[i] => per_worker[i] = BuffersOf(cpu)
  BY CpusAreListed DEF PointInv
<1>3. ASSUME NEW i \in DOMAIN per_worker, NEW buffer \in ToSet(per_worker[i])
      PROVE  \/ IsMapped(buffer) /\ ~ BeyondNeeded(cpus[i]) /\ Room(buffer) = RoomOf(which)
             \/ BeyondNeeded(cpus[i]) /\ ~ IsMapped(buffer)
  <2>1. PICK cpu : cpu = cpus[i]
    OBVIOUS
  <2>2. buffer \in ToSet(BuffersOf(cpu))
    BY <1>1, <1>2, <1>3, <2>1
  <2> QED BY <1>1, <2>1, <2>2, BuffersAreThere
<1>4. ASSUME NEW i \in DOMAIN cpus
      PROVE  (\A buffer \in ToSet(per_worker[i]) : IsMapped(buffer)) <=> ~ BeyondNeeded(cpus[i])
  <2>1. PICK cpu : cpu = cpus[i]
    OBVIOUS
  <2>2. per_worker[i] = BuffersOf(cpu) /\ cpu \in 8 .. 15
    BY <1>2, <2>1, CpusAreOnA100
  <2>3. BeyondNeeded(cpu) => \E x : BuffersOf(cpu) = << x >>
    BY <2>1, BuffersByKind DEF BeyondNeeded
  <2>4. BeyondNeeded(cpu) => \E buffer : buffer \in ToSet(BuffersOf(cpu))
    BY <2>3 DEF ToSet
  <2> QED BY <1>1, <1>3, <2>1, <2>2, <2>4
<1>5. BytesAreLoaded
  <2>1. ASSUME NEW i \in DOMAIN per_worker PROVE Loaded(per_worker[i]) = Counted
    <3>1. PICK cpu : cpu = cpus[i]
      OBVIOUS
    <3>2. per_worker[i] = BuffersOf(cpu)
      BY <1>1, <1>2, <3>1
    <3>3. Loaded(BuffersOf(cpu)) = Counted
      BY <1>1, <3>1, LoadedIsCounted
    <3> QED BY ONLY <3>2, <3>3
  <2>2. \A k \in DOMAIN AllCases[point.case].fn : AllCases[point.case].fn[k] < RoomOf(which)
    <3>1. point.case \in 1 .. 7
      BY CaseCounts DEF PointInv
    <3> QED BY <3>1, CaseFacts DEF which
  <2> QED BY <1>3, <2>1, <2>2 DEF BytesAreLoaded
<1>6. ASSUME NEW i \in DOMAIN cpus, which \in {3, 4}
      PROVE  ToSet(per_worker[i]) =
               { IF which = 3 THEN Tcm(cpu - 8) ELSE A384(cpu - 8) :
                   cpu \in { d \in kA100Cpus : (d <= 11) = (cpus[i] <= 11) } }
  <2>1. PICK x : x = cpus[i]
    OBVIOUS
  <2>2. per_worker[i] = BuffersOf(x)
    BY <1>2, <2>1
  <2>3. ToSet(BuffersOf(x)) =
          { IF which = 3 THEN Tcm(cpu - 8) ELSE A384(cpu - 8) :
              cpu \in { d \in kA100Cpus : (d <= 11) = (x <= 11) } }
    BY <1>6, <2>1, OwnCluster
  <2> QED BY ONLY <2>1, <2>2, <2>3
<1>7. ASSUME NEW i \in DOMAIN cpus, which \notin {3, 4}, NEW j \in DOMAIN cpus,
             per_worker[i] = per_worker[j], ~ (share /\ which = 0)
      PROVE  cpus[i] = cpus[j]
  <2>1. PICK a, b : a = cpus[i] /\ b = cpus[j]
    OBVIOUS
  <2>2. per_worker[i] = BuffersOf(a) /\ per_worker[j] = BuffersOf(b)
    BY <1>2, <2>1
  <2>3. a = b
    BY <1>7, <2>1, <2>2, ApartBuffers
  <2> QED BY <2>1, <2>3
<1> QED BY <1>4, <1>5, <1>6, <1>7

\* However the TCM was mapped, whatever the options and the order of the CPUs: the
\* workers of a point read memory that is mapped, no more than there is and as much
\* as is counted, and each of them its own; and a worker reads past the blocks exactly
\* where its CPU is larger than the last one of its list and has no block.
THEOREM WorkersReadTheirOwnAlways == MainSpec => []WorkersReadTheirOwn
<1>1. MainInit => OptionsInv /\ MemoryInv /\ PointInv
  BY OptionsInit, MemoryInit, PointInit
<1>2. OptionsInv /\ MemoryInv /\ PointInv /\ [MainNext]_vars
        => (OptionsInv /\ MemoryInv /\ PointInv)'
  BY OptionsNext, MemoryNext, PointNext
<1> QED BY <1>1, <1>2, InvariantWorkersRead, PTL DEF MainSpec

============================================================================
