-------------------------- MODULE MCWorkflowContext --------------------------
(***************************************************************************)
(* A small instance of WorkflowContext: two devops branches, one feature   *)
(* branch, and owners with the longest logins whose names are not cut.     *)
(***************************************************************************)
EXTENDS WorkflowContext

CONSTANTS owner, other, admin, d1, d2, f, main

MCOwners == {owner, other}
MCDevops == {d1, d2}
MCFeatures == {f}

\* Digests that differ from the first character on.
MCDigest ==
    [o \in AllOwners |-> [b \in Branches |->
        LET first == CASE b = d1 -> 1 [] b = d2 -> 2 [] OTHER -> 3
            second == CASE o = owner -> 1 [] o = other -> 2 [] OTHER -> 3
        IN  <<first, second, 0, 0, 0, 0>>]]

MCStem == [o \in AllOwners |-> o]
MCShort == [o \in AllOwners |-> 9]
=============================================================================
