------------------------- MODULE MCSandboxLifecycle -------------------------
(***************************************************************************)
(* Small instances of SandboxLifecycle, with one owner.                    *)
(***************************************************************************)
EXTENDS SandboxLifecycle

MCOwner == [p \in PRs |-> "dev"]
=============================================================================
