------------------------------ MODULE MCRvvTile ------------------------------
(* All kernels; two by two tiles, a full panel and a short one.              *)
EXTENDS RvvTile

MCKernels == KernelNames

\* The kernels whose 16 bit lanes take 32 products of weights above eight.
MCMayWrap == {"q4_K_my", "q4_K_group", "q4_K_upstream", "iq2_br", "iq2_ir"}
=============================================================================
