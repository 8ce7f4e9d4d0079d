------------------------- MODULE MCSandboxTeardown -------------------------
(***************************************************************************)
(* A small instance of SandboxTeardown.                                    *)
(***************************************************************************)
EXTENDS SandboxTeardown
=============================================================================
