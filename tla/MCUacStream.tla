----------------------------- MODULE MCUacStream -----------------------------
(* Two chunks of a file on a stream of at most three outstanding chunks,   *)
(* whose indices wrap after seven and whose frame numbers alias at three.  *)
EXTENDS UacStream
==============================================================================
