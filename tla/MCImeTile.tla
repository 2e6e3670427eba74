------------------------------ MODULE MCImeTile ------------------------------
(* All kernels; two by two tiles; batches and calls that are full and one    *)
(* block that is not.                                                        *)
EXTENDS ImeTile

MCKernels == KernelNames

Greater(a, b) == IF a > b THEN a ELSE b

\* One block, and one more than a batch or a call can take.
MCDepths == [k \in KernelNames |-> {1, Greater(Kernel[k].batch, Kernel[k].depth) + 1}]
=============================================================================
