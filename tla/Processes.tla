------------------------------ MODULE Processes ------------------------------
(***************************************************************************)
(* The worker processes of the server, which share no memory.              *)
(***************************************************************************)
CONSTANT Workers
=============================================================================
