-------------------------- MODULE MCCacheBlockedGemm --------------------------
(* A shape with a short last panel and unequal shares, for an adapter that  *)
(* pads its panels (m4i-CB, m8b-CB) and one that does not (m8b-DPU-CB).     *)
(* The first has a short last chunk; for the second the chunks of the short *)
(* panel are longer than those of the full one.                             *)
EXTENDS CacheBlockedGemm
MCAdapters ==
    { [blocks_per_panel |-> 2, block_bytes |-> 2, budget |-> 8, pre_unpack |-> FALSE],
      [blocks_per_panel |-> 3, block_bytes |-> 1, budget |-> 4, pre_unpack |-> TRUE] }
=============================================================================
