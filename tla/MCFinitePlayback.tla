-------------------------- MODULE MCFinitePlayback --------------------------
(* Small instances of FinitePlayback for TLC.                              *)
EXTENDS FinitePlayback

(* A run of several blocks whose lead is partial (rate 1 of 3), one whose  *)
(* queue is larger than the run, and one configure() refuses.              *)
MCConfigs ==
  { [total |-> 5, rate |-> 1, margin |-> 0, queue |-> 3, block |-> 2],
    [total |-> 2, rate |-> 4, margin |-> 1, queue |-> 3, block |-> 1],
    [total |-> 2, rate |-> 1, margin |-> 0, queue |-> 1, block |-> 2] }
=============================================================================
