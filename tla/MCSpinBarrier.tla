--------------------------- MODULE MCSpinBarrier ---------------------------
(* Four threads  meet more often than the generation counter has values.    *)
EXTENDS SpinBarrier
============================================================================
