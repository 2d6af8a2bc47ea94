---------------------------- MODULE MCPrepareJob ----------------------------
(* Small instances of PrepareJob for TLC.                                  *)
EXTENDS PrepareJob

(* Two blocks, the second short; a slipping scenario; a secondary source;  *)
(* and a request that admission refuses.                                   *)
MCRequests ==
  { [frames |-> 3, slip |-> FALSE, second |-> TRUE,  sound |-> TRUE],
    [frames |-> 1, slip |-> TRUE,  second |-> FALSE, sound |-> TRUE],
    [frames |-> 1, slip |-> FALSE, second |-> FALSE, sound |-> FALSE] }
=============================================================================
