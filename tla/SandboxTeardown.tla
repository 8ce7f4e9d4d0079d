-------------------------- MODULE SandboxTeardown --------------------------
(***************************************************************************)
(* The destroy job of a sandbox (infrastructure.yml): the clean-up of what *)
(* Terraform does not know of (cleanup_sandbox_aws_orphans.py), terraform  *)
(* destroy, a second clean-up, a second attempt, and the verification that *)
(* lets the sandbox be marked inactive.  The janitor tries again later.    *)
(*                                                                         *)
(* AWS and Kubernetes are external: a deletion that was accepted happens   *)
(* some time later, a group launches its instances again, a controller its *)
(* load balancers, and any call may fail.  One resource of each kind.      *)
(***************************************************************************)
EXTENDS Naturals, Sequences

CONSTANT MaxFailures    \* bound: AWS calls that fail for no reason of ours

ASSUME TeardownAssumption == MaxFailures \in Nat

VARIABLES
    res,        \* state of the resource of each kind
    recorded,   \* Terraform's state still has the cluster, and the network
    app,        \* the application's namespace in the cluster exists
    job,        \* the step of the job, and what it has gone through
    inactive,   \* the sandbox was marked inactive
    failures    \* AWS calls that have failed

vars == <<res, recorded, app, job, inactive, failures>>

\* The order of main(); load balancers of both kinds, and endpoints and
\* peering connections, are one each.
CleanupOrder == <<"nodegroup", "asg", "instance", "lb", "volume", "eni",
                  "endpoint", "sg">>
Orphans == {CleanupOrder[i] : i \in DOMAIN CleanupOrder}
Kinds == Orphans \cup {"cluster", "vpc"}

\* clean_before, pre_clean, destroy, clean_after, retry, verify, unmark.
Phases == {"idle", "before", "namespace", "destroy", "after", "retry",
           "verify", "unmark"}

Idle == [phase |-> "idle", next |-> 1, failed |-> FALSE, again |-> FALSE]

TypeOK ==
    /\ res \in [Kinds -> {"there", "leaving", "gone"}]
    /\ recorded \in BOOLEAN
    /\ app \in BOOLEAN
    /\ job \in [phase : Phases, next : 1..Len(CleanupOrder),
                failed : BOOLEAN, again : BOOLEAN]
    /\ inactive \in BOOLEAN
    /\ failures \in 0..MaxFailures

Gone(kinds) == \A k \in kinds : res[k] = "gone"

\* A sandbox whose apply got as far as it did: everything or parts of it,
\* with or without leftovers of earlier nodes.
Init ==
    /\ res \in [Kinds -> {"there", "gone"}]
    /\ res["vpc"] = "gone" => Gone(Kinds \ {"vpc", "volume"})
    /\ res["cluster"] = "gone" => Gone({"nodegroup"})
    /\ res["instance"] = "there" => res["asg"] = "there"
    /\ recorded = (res["vpc"] = "there")
    /\ app = (res["cluster"] = "there")
    /\ job = Idle
    /\ inactive = FALSE
    /\ failures = 0

(***************************************************************************)
(* What the cloud does by itself.                                          *)
(***************************************************************************)
Becomes(k, state) == res' = [res EXCEPT ![k] = state]
Alone == UNCHANGED <<recorded, app, job, inactive, failures>>

\* An instance goes with what it held; its volumes become available.
DeletionHappens(k) ==
    /\ res[k] = "leaving"
    /\ k \in {"nodegroup", "asg"} => res["instance"] = "gone"
    /\ Becomes(k, "gone")
    /\ Alone

\* The group of a node group, and the instance of a group, go with it.
DeletionSpreads ==
    /\ \/ res["nodegroup"] = "leaving" /\ res["asg"] = "there"
          /\ Becomes("asg", "leaving")
       \/ res["asg"] = "leaving" /\ res["instance"] = "there"
          /\ Becomes("instance", "leaving")
    /\ Alone

GroupLaunches ==
    /\ res["asg"] = "there" /\ res["vpc"] = "there"
    /\ res["instance"] = "gone"
    /\ Becomes("instance", "there")
    /\ Alone

\* The controller in the cluster serves the application's services.
ControllerCreates ==
    /\ app /\ res["cluster"] = "there" /\ res["instance"] = "there"
    /\ res["lb"] = "gone"
    /\ Becomes("lb", "there")
    /\ Alone

NamespaceEnds ==
    /\ app
    /\ job.phase \notin {"idle", "before", "namespace"}
    /\ app' = FALSE
    /\ UNCHANGED <<res, recorded, job, inactive, failures>>

CloudStep ==
    \/ \E k \in Kinds : DeletionHappens(k)
    \/ DeletionSpreads \/ GroupLaunches \/ ControllerCreates \/ NamespaceEnds

(***************************************************************************)
(* The clean-up script.                                                    *)
(***************************************************************************)
Cleaning == job.phase \in {"before", "after"}
Attached == ~Gone({"instance"})

\* Defect: the load balancers are left to Terraform.
DeletableButBalancers(k) ==
    /\ res[k] = "there" /\ k # "lb"
    /\ k = "nodegroup" => res["cluster"] = "there"
    /\ k \in {"volume", "eni"} => ~Attached
    /\ k = "sg" => Gone({"eni", "instance", "lb", "endpoint"})

\* What is deleted of a kind that is listed with the cluster's mark: volumes
\* and interfaces only when nothing uses them, a security group only when no
\* interface does.
Deletable(k) ==
    /\ res[k] = "there"
    /\ k = "nodegroup" => res["cluster"] = "there"
    /\ k \in {"volume", "eni"} => ~Attached
    /\ k = "sg" => Gone({"eni", "instance", "lb", "endpoint"})

\* Unused things go at once, machines and balancers take their time.
Deletion(k) == IF k \in {"volume", "eni", "sg"} THEN "gone" ELSE "leaving"

AfterCleanup ==
    IF job.failed THEN Idle
    ELSE IF job.phase = "before" THEN [job EXCEPT !.phase = "namespace"]
    ELSE [job EXCEPT !.phase = IF job.again THEN "retry" ELSE "verify"]

Advanced ==
    IF job.next < Len(CleanupOrder) THEN [job EXCEPT !.next = @ + 1]
    ELSE [AfterCleanup EXCEPT !.next = 1]

\* Defect: groups are taken to go with their instances.
CleanKindButGroups ==
    LET k == CleanupOrder[job.next] IN
    /\ Cleaning
    /\ res' = IF k \notin {"nodegroup", "asg"} /\ Deletable(k)
              THEN [res EXCEPT ![k] = Deletion(k)] ELSE res
    /\ job' = Advanced
    /\ UNCHANGED <<recorded, app, inactive, failures>>

CleanKind ==
    LET k == CleanupOrder[job.next] IN
    /\ Cleaning
    /\ res' = IF Deletable(k) THEN [res EXCEPT ![k] = Deletion(k)] ELSE res
    /\ job' = Advanced
    /\ UNCHANGED <<recorded, app, inactive, failures>>

\* An error other than "not found" ends the script and fails the job, of
\* which only the second clean-up is still to run; so does one of the access
\* to the cluster, before the namespace is deleted.
CleanupFails ==
    /\ Cleaning \/ job.phase = "namespace"
    /\ failures < MaxFailures
    /\ failures' = failures + 1
    /\ job' = IF job.phase \in {"before", "namespace"}
              THEN [Idle EXCEPT !.phase = "after", !.failed = TRUE] ELSE Idle
    /\ UNCHANGED <<res, recorded, app, inactive>>

(***************************************************************************)
(* The other steps of the job.                                             *)
(***************************************************************************)
StartDestroy ==
    /\ job = Idle /\ ~inactive
    /\ job' = [Idle EXCEPT !.phase = "before"]
    /\ UNCHANGED <<res, recorded, app, inactive, failures>>

\* The namespace is deleted, by force in the end, or goes on terminating.
CleanNamespace ==
    /\ job.phase = "namespace"
    /\ app' \in {app, FALSE}
    /\ job' = [job EXCEPT !.phase = "destroy"]
    /\ UNCHANGED <<res, recorded, inactive, failures>>

Destroying == job.phase \in {"destroy", "retry"}

\* The node group goes with its own group and instance.
NodeGroup ==
    IF res["nodegroup"] = "gone" THEN {}
                                 ELSE {"nodegroup", "asg", "instance"}

Without(kinds) == [k \in Kinds |-> IF k \in kinds THEN "gone" ELSE res[k]]

\* The network cannot go while something is in it that Terraform does not
\* take away itself.
NetworkInUse ==
    /\ res["vpc"] = "there"
    /\ ~Gone({"lb", "endpoint", "eni", "sg", "instance"} \ NodeGroup)

\* What Terraform knows goes, in the order of dependence, and it waits.
TerraformDestroys ==
    /\ Destroying
    /\ ~NetworkInUse
    /\ res' = Without({"cluster", "vpc"} \cup NodeGroup)
    /\ recorded' = FALSE
    /\ app' = FALSE
    /\ job' = [job EXCEPT !.phase = IF @ = "destroy" THEN "after" ELSE "verify"]
    /\ UNCHANGED <<inactive, failures>>

\* It stops at a dependency or an error, before or after it has deleted the
\* node group and the cluster.  The first attempt may fail, not the second.
TerraformFails ==
    /\ Destroying
    /\ \/ NetworkInUse /\ UNCHANGED failures
       \/ failures < MaxFailures /\ failures' = failures + 1
    /\ \E done \in {{}, NodeGroup, NodeGroup \cup {"cluster"}} :
           /\ res' = Without(done)
           /\ app' = (app /\ "cluster" \notin done)
    /\ job' = IF job.phase = "destroy"
              THEN [job EXCEPT !.phase = "after", !.again = TRUE] ELSE Idle
    /\ UNCHANGED <<recorded, inactive>>

\* What is looked for with the cluster's mark: not its groups and instances,
\* and volumes only when nothing uses them.
Residual(k) ==
    /\ k \in {"vpc", "sg", "eni", "volume", "endpoint", "lb", "cluster"}
    /\ IF k = "endpoint" THEN res[k] = "there" ELSE res[k] # "gone"
    /\ k = "volume" => ~Attached

Residue == recorded \/ \E k \in Kinds : Residual(k)

Verify ==
    /\ job.phase = "verify"
    /\ job' = IF Residue THEN Idle ELSE [job EXCEPT !.phase = "unmark"]
    /\ UNCHANGED <<res, recorded, app, inactive, failures>>

MarkInactive ==
    /\ job.phase = "unmark"
    /\ inactive' = TRUE
    /\ job' = Idle
    /\ UNCHANGED <<res, recorded, app, failures>>

JobStep ==
    \/ StartDestroy \/ CleanKind \/ CleanNamespace \/ TerraformDestroys
    \/ TerraformFails \/ Verify \/ MarkInactive

Next == JobStep \/ CleanupFails \/ CloudStep

Spec == Init /\ [][Next]_vars

\* The job goes on and is started again by the janitor; accepted deletions
\* happen.  A call fails a bounded number of times.
FairSpec ==
    /\ Spec
    /\ WF_vars(JobStep)
    /\ \A k \in Kinds : WF_vars(DeletionHappens(k))
    /\ WF_vars(DeletionSpreads)
    /\ WF_vars(NamespaceEnds)

(***************************************************************************)
(* Properties.                                                             *)
(***************************************************************************)

\* A sandbox marked inactive has nothing left that costs money or is not on
\* its way out, groups, instances and volumes included, which the
\* verification does not look at.
InactiveMeansGone == inactive => \A k \in Kinds : res[k] # "there"

\* A second run of the job, or one after a failure, gets done with whatever
\* the first one left: no order of asynchronous deletions, relaunched
\* instances and recreated load balancers makes it fail for ever.
DestroyConverges == <>inactive
=============================================================================
