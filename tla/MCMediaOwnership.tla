-------------------------- MODULE MCMediaOwnership --------------------------
(* A small instance of MediaOwnership for TLC.                             *)
EXTENDS MediaOwnership
=============================================================================
