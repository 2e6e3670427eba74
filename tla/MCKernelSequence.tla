-------------------------- MODULE MCKernelSequence --------------------------
(* Two workers of unequal shares and fewer buffers than workers; in the first *)
(* kernel two chunks, the last one with an incomplete group of scales; in the *)
(* second a full and an incomplete batch.                                     *)
EXTENDS KernelSequence
=============================================================================
