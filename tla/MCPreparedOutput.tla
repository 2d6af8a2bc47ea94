-------------------------- MODULE MCPreparedOutput --------------------------
(* A small instance of PreparedOutput for TLC.                             *)
EXTENDS PreparedOutput

(* Two blocks, the second short, one frame more than the FIFO's queue; one *)
(* block that fills it, with a second source; one that admission refuses.  *)
MCRequests ==
  { [frames |-> 3, slip |-> FALSE, second |-> FALSE, sound |-> TRUE],
    [frames |-> 2, slip |-> FALSE, second |-> TRUE,  sound |-> TRUE],
    [frames |-> 1, slip |-> FALSE, second |-> FALSE, sound |-> FALSE] }

(* A producer slower than playback: the lead is part of the run.           *)
MCTransport == [total |-> 0, rate |-> 2, margin |-> 0, queue |-> 2, block |-> 2]
=============================================================================
