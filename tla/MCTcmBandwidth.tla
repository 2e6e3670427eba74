---------------------------- MODULE MCTcmBandwidth ----------------------------
(* Every number of blocks, by one mapping and block by block; arguments on    *)
(* both sides of what is allowed; the default configurations and lists of     *)
(* CPUs in one cluster, in both, and out of order.                            *)
EXTENDS TcmBandwidth

MCSpanArguments == {-384, 0, 100, 384, 1152, 1536, 2688, 3072, 3456}
MCBlocksArguments == {0, 1, 2, 5, 7, 8, 9}
MCCpuLists == { <<>>, <<8, 9>>, <<15>>, <<8, 12>>, <<12, 8>>, <<9, 13, 14>> }
===============================================================================
