---------------------------- MODULE MCEdgeClient ----------------------------
(***************************************************************************)
(* A small instance of EdgeClient; the constants are numbers of the cfg.   *)
(***************************************************************************)
EXTENDS EdgeClient
=============================================================================
