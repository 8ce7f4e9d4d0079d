-------------------------- MODULE MCSandboxPolicy --------------------------
(***************************************************************************)
(* A small instance of SandboxPolicy: paths that the patterns tell apart.  *)
(***************************************************************************)
EXTENDS SandboxPolicy

\* A critical path and one that is heavy only; no change at all is fast.
MCChangeable == {"terraform", "compose"}
=============================================================================
