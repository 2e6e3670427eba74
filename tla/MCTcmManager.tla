---------------------------- MODULE MCTcmManager ----------------------------
(* CPUs 1 and 2 have TCM, the ones before and after have none; four tiles    *)
(* on three workers.                                                         *)
EXTENDS TcmManagerArena

CONSTANTS t1, t2, t3

MCThreads == {t1, t2, t3}
MCCpus == {0, 1, 2, 3}
MCShare == [t \in MCThreads |-> IF t = t1 THEN 2 ELSE 1]
============================================================================
