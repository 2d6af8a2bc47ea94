-------------------------- MODULE MCPrepareService --------------------------
(* Small instances of PrepareService for TLC.                              *)
EXTENDS PrepareService

(* One block, with and without a second source.                            *)
MCRequests ==
  { [frames |-> 1, slip |-> FALSE, second |-> TRUE,  sound |-> TRUE],
    [frames |-> 1, slip |-> FALSE, second |-> FALSE, sound |-> FALSE] }
=============================================================================
