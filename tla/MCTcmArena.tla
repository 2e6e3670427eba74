----------------------------- MODULE MCTcmArena -----------------------------
(* A small arena whose base is odd, so that alignments 2 and 4 leave        *)
(* prefixes, and whose end is so near the top of the address space that    *)
(* aligning up wraps to address 0.                                          *)
EXTENDS TcmArena

MCRequests   == {0, 1, 2, 3, Size, Size + 1}
MCAlignments == {0, 1, 2, 3, 4}
MCPointers   == Base - 1 .. Base + Size
============================================================================
