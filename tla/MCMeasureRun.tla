---------------------------- MODULE MCMeasureRun ----------------------------
(* Three workers that fail anywhere, two samples, every program.            *)
EXTENDS MeasureRun
============================================================================
