-------------------------- MODULE SandboxLifecycle --------------------------
(***************************************************************************)
(* The sandboxes of pull requests: the workflows that build one            *)
(* (sandbox-auto-apply.yml), tear it down (sandbox-auto-destroy.yml,       *)
(* sandbox-janitor.yml) and do either to the cloud (infrastructure.yml).   *)
(*                                                                         *)
(* A workflow run works from the event that triggered it, while labels,    *)
(* heads and states of the pull request move on.  GitHub is external: of   *)
(* an apply run and a newer one of the same branch the newer one cancels   *)
(* the older; a concurrency group of infrastructure runs one job and keeps *)
(* one waiting, and a newer one replaces the one that waits.  Labels set   *)
(* by the workflows trigger no workflow.                                   *)
(***************************************************************************)
EXTENDS Naturals

CONSTANTS
    PRs,            \* pull requests of branches of the repository
    Owner,          \* [PRs -> who opened it]
    MaxHead,        \* bound: commits written for a pull request
    MaxEvents       \* bound: things people do

ASSUME BoundsAssumption == MaxHead \in Nat \ {0} /\ MaxEvents \in Nat

VARIABLES
    pr,         \* state of each pull request, its head and its deploy label
    written,    \* commits written for it, pushed or not
    green,      \* heads whose CI runs have all succeeded
    active,     \* label sandbox-active
    validated,  \* label sandbox-validated: commits written when it was set
    apply,      \* the apply run of its branch
    group,      \* its concurrency group of infrastructure jobs
    picked,     \* chosen by the janitor, job not started yet
    sandbox,    \* what exists in the cloud
    events      \* things people have done so far

vars == <<pr, written, green, active, validated, apply, group, picked,
          sandbox, events>>

Heads == 1..MaxHead
NoRun == [at |-> "none", head |-> 0, eligible |-> FALSE]
Building == {"applying", "marking"}
ApplyPlaces == {"evaluate", "quota", "enter", "queued", "bootstrap",
                "validate"} \cup Building

\* A job of a group: "idle" is a destroy run that has nothing to destroy,
\* "unmark" one that has verified that all is gone.
Jobs == {"none", "apply", "idle", "destroy", "unmark"}

TypeOK ==
    /\ pr \in [PRs -> [closed : BOOLEAN, draft : BOOLEAN, head : Heads,
                       deploy : BOOLEAN]]
    /\ written \in [PRs -> Heads]
    /\ green \in [PRs -> SUBSET Heads]
    /\ active \in [PRs -> BOOLEAN]
    /\ validated \in [PRs -> 0..MaxHead]
    /\ apply \in [PRs -> {NoRun} \cup [at : ApplyPlaces, head : Heads,
                                       eligible : BOOLEAN]]
    /\ group \in [PRs -> [running : Jobs, waiting : Jobs]]
    /\ picked \subseteq PRs
    /\ sandbox \in [PRs -> {"none", "partial", "up"}]
    /\ events \in 0..MaxEvents

Init ==
    /\ pr = [p \in PRs |-> [closed |-> FALSE, draft |-> FALSE, head |-> 1,
                            deploy |-> FALSE]]
    /\ written = [p \in PRs |-> 1]
    /\ green \in [PRs -> {{}, {1}}]
    /\ active = [p \in PRs |-> FALSE]
    /\ validated = [p \in PRs |-> 0]
    /\ apply = [p \in PRs |-> NoRun]
    /\ group = [p \in PRs |-> [running |-> "none", waiting |-> "none"]]
    /\ picked = {}
    /\ sandbox = [p \in PRs |-> "none"]
    /\ events = 0

(***************************************************************************)
(* Trust and eligibility, at the time of an event.                         *)
(***************************************************************************)

\* A system label is fresh when it was set after the head was committed.
ValidatedTrusted(p, head) == validated[p] # 0 /\ head <= validated[p]

\* autoApplyEligible: no draft, deploy label of the owner, not validated.
Eligible(p, state) ==
    state.deploy /\ ~state.draft /\ ~ValidatedTrusted(p, state.head)

(***************************************************************************)
(* Concurrency groups.                                                     *)
(***************************************************************************)
Promoted(g) == [running |-> g.waiting, waiting |-> "none"]

WithoutApply(g) ==
    IF g.running = "apply" THEN Promoted(g)
    ELSE IF g.waiting = "apply" THEN [g EXCEPT !.waiting = "none"] ELSE g

Entered(g, job) ==
    IF g.running = "none" THEN [g EXCEPT !.running = job]
                          ELSE [g EXCEPT !.waiting = job]

Release(p) == group' = [group EXCEPT ![p] = Promoted(@)]

\* A newer run of the branch cancels the one in progress, wherever it is.
CancelApply(p, newRun) ==
    /\ apply' = [apply EXCEPT ![p] = newRun]
    /\ group' = [group EXCEPT ![p] = WithoutApply(@)]
    /\ \/ UNCHANGED sandbox
       \/ /\ apply[p].at = "applying"
          /\ sandbox' = [sandbox EXCEPT ![p] = "partial"]

\* An event of sandbox-auto-apply.yml, which carries the pull request; the
\* owner may have waived its sandbox (skip-sandbox-approved).
TriggerApply(p) ==
    \E waived \in BOOLEAN :
        CancelApply(p, [at |-> "evaluate", head |-> pr'[p].head,
                        eligible |-> Eligible(p, pr'[p]) /\ ~waived])

\* An event of sandbox-auto-destroy.yml enters the group once, although it
\* and the infrastructure workflow it calls both name the group; an apply
\* that waited there is cancelled.
TriggerDestroy(p, job) ==
    /\ group' = [group EXCEPT ![p] = Entered(@, job)]
    /\ apply' = IF group[p].waiting = "apply"
                THEN [apply EXCEPT ![p] = NoRun] ELSE apply
    /\ UNCHANGED sandbox

\* What shouldDestroy makes of an event that ends the sandbox's purpose.
DestroyJob(p) == IF active[p] THEN "destroy" ELSE "idle"

(***************************************************************************)
(* What people do.                                                         *)
(***************************************************************************)
Human ==
    /\ events < MaxEvents
    /\ events' = events + 1
    /\ UNCHANGED <<active, validated, picked>>

SetPR(p, state) == pr' = [pr EXCEPT ![p] = state]

AddDeployLabel(p) ==
    /\ Human
    /\ ~pr[p].closed /\ ~pr[p].deploy
    /\ SetPR(p, [pr[p] EXCEPT !.deploy = TRUE])
    /\ TriggerApply(p)
    /\ UNCHANGED <<written, green>>

RemoveDeployLabel(p) ==
    /\ Human
    /\ pr[p].deploy
    /\ SetPR(p, [pr[p] EXCEPT !.deploy = FALSE])
    /\ TriggerDestroy(p, DestroyJob(p))
    /\ UNCHANGED <<written, green>>

AddOtherLabel(p) ==
    /\ Human
    /\ UNCHANGED <<pr, written, green>>
    /\ TriggerApply(p)

RemoveOtherLabel(p) ==
    /\ Human
    /\ TriggerDestroy(p, "idle")
    /\ UNCHANGED <<pr, written, green>>

WriteCommit(p) ==
    /\ Human
    /\ written[p] < MaxHead
    /\ written' = [written EXCEPT ![p] = @ + 1]
    /\ UNCHANGED <<pr, green, apply, group, sandbox>>

Push(p) ==
    /\ Human
    /\ ~pr[p].closed /\ pr[p].head < written[p]
    /\ SetPR(p, [pr[p] EXCEPT !.head = written[p]])
    /\ TriggerApply(p)
    /\ UNCHANGED <<written, green>>

ConvertToDraft(p) ==
    /\ Human
    /\ ~pr[p].closed /\ ~pr[p].draft
    /\ SetPR(p, [pr[p] EXCEPT !.draft = TRUE])
    /\ TriggerDestroy(p, DestroyJob(p))
    /\ UNCHANGED <<written, green>>

ReadyForReview(p) ==
    /\ Human
    /\ ~pr[p].closed /\ pr[p].draft
    /\ SetPR(p, [pr[p] EXCEPT !.draft = FALSE])
    /\ TriggerApply(p)
    /\ UNCHANGED <<written, green>>

Close(p) ==
    /\ Human
    /\ ~pr[p].closed
    /\ SetPR(p, [pr[p] EXCEPT !.closed = TRUE])
    /\ TriggerDestroy(p, DestroyJob(p))
    /\ UNCHANGED <<written, green>>

Reopen(p) ==
    /\ Human
    /\ pr[p].closed
    /\ SetPR(p, [pr[p] EXCEPT !.closed = FALSE])
    /\ TriggerApply(p)
    /\ UNCHANGED <<written, green>>

\* A CI workflow of the head completes, for the first time or run again.
\* The run this triggers cancels the one in progress, and itself only
\* refreshes the label ready-for-deploy, which nothing here reads.
WorkflowCompletes(p) ==
    /\ Human
    /\ green' = [green EXCEPT ![p] = @ \cup {pr[p].head}]
    /\ CancelApply(p, NoRun)
    /\ UNCHANGED <<pr, written>>

HumanStep(p) ==
    \/ AddDeployLabel(p) \/ RemoveDeployLabel(p)
    \/ AddOtherLabel(p) \/ RemoveOtherLabel(p)
    \/ WriteCommit(p) \/ Push(p) \/ WorkflowCompletes(p)
    \/ ConvertToDraft(p) \/ ReadyForReview(p) \/ Close(p) \/ Reopen(p)

(***************************************************************************)
(* The apply run.                                                          *)
(***************************************************************************)
RunGoes(p, from, to) ==
    /\ apply[p].at = from
    /\ apply' = [apply EXCEPT ![p] = IF to = "none" THEN NoRun
                                     ELSE [@ EXCEPT !.at = to]]

Unlabelled == <<pr, written, green, picked, events>>

\* evaluate-policy, from the event's labels and the CI runs of its head.
Evaluate(p) ==
    /\ RunGoes(p, "evaluate",
               IF apply[p].eligible /\ apply[p].head \in green[p]
               THEN "quota" ELSE "none")
    /\ UNCHANGED <<Unlabelled, active, validated, group, sandbox>>

OverQuota(p) ==
    \E q \in PRs \ {p} : /\ Owner[q] = Owner[p]
                         /\ ~pr[q].closed /\ ~pr[q].draft
                         /\ active[q]

EnforceQuota(p) ==
    /\ RunGoes(p, "quota", IF OverQuota(p) THEN "none" ELSE "enter")
    /\ UNCHANGED <<Unlabelled, active, validated, group, sandbox>>

\* Defect: the apply job is not in the concurrency group.
StartApplyAnyTime(p) ==
    /\ RunGoes(p, "enter", "applying")
    /\ UNCHANGED <<Unlabelled, active, validated, group, sandbox>>

\* The infrastructure job of the run enters the group.
EnterApply(p) ==
    /\ RunGoes(p, "enter", "queued")
    /\ group' = [group EXCEPT ![p] = Entered(@, "apply")]
    /\ UNCHANGED <<Unlabelled, active, validated, sandbox>>

StartApply(p) ==
    /\ RunGoes(p, "queued", "applying")
    /\ group[p].running = "apply"
    /\ UNCHANGED <<Unlabelled, active, validated, group, sandbox>>

ApplySucceeds(p) ==
    /\ RunGoes(p, "applying", "marking")
    /\ sandbox' = [sandbox EXCEPT ![p] = "up"]
    /\ UNCHANGED <<Unlabelled, active, validated, group>>

\* terraform fails, having built nothing or something; no label says so.
ApplyFails(p) ==
    /\ RunGoes(p, "applying", "none")
    /\ \/ UNCHANGED sandbox
       \/ sandbox' = [sandbox EXCEPT ![p] = "partial"]
    /\ Release(p)
    /\ UNCHANGED <<Unlabelled, active, validated>>

MarkActive(p) ==
    /\ RunGoes(p, "marking", "bootstrap")
    /\ active' = [active EXCEPT ![p] = TRUE]
    /\ Release(p)
    /\ UNCHANGED <<Unlabelled, validated, sandbox>>

\* app-cd.yml deploys into the sandbox and runs the smoke tests.
Bootstrap(p) ==
    /\ \/ RunGoes(p, "bootstrap", "validate") /\ sandbox[p] = "up"
       \/ RunGoes(p, "bootstrap", "none")
    /\ UNCHANGED <<Unlabelled, active, validated, group, sandbox>>

MarkValidated(p) ==
    /\ RunGoes(p, "validate", "none")
    /\ validated' = [validated EXCEPT ![p] = written[p]]
    /\ UNCHANGED <<Unlabelled, active, group, sandbox>>

ApplyStep(p) ==
    \/ Evaluate(p) \/ EnforceQuota(p) \/ EnterApply(p) \/ StartApply(p)
    \/ ApplySucceeds(p) \/ ApplyFails(p) \/ MarkActive(p)
    \/ Bootstrap(p) \/ MarkValidated(p)

(***************************************************************************)
(* The destroy job, of an event or of the janitor.                         *)
(***************************************************************************)
NothingToDestroy(p) ==
    /\ group[p].running = "idle"
    /\ Release(p)
    /\ UNCHANGED <<Unlabelled, active, validated, apply, sandbox>>

\* terraform destroy, the orphan cleanup and the verification succeed.
DestroySucceeds(p) ==
    /\ group[p].running = "destroy"
    /\ sandbox' = [sandbox EXCEPT ![p] = "none"]
    /\ group' = [group EXCEPT ![p].running = "unmark"]
    /\ UNCHANGED <<Unlabelled, active, validated, apply>>

\* Defect: the labels go although the destroy has failed.
DestroyFailsUnmarked(p) ==
    /\ group[p].running = "destroy"
    /\ sandbox' = [sandbox EXCEPT ![p] = IF @ = "none" THEN @ ELSE "partial"]
    /\ active' = [active EXCEPT ![p] = FALSE]
    /\ Release(p)
    /\ UNCHANGED <<Unlabelled, validated, apply>>

\* A destroy fails half way, or before it has begun: also when GitHub takes
\* it for a deadlock that the workflow that calls it is in the same group.
DestroyFails(p) ==
    /\ group[p].running = "destroy"
    /\ \/ UNCHANGED sandbox
       \/ /\ sandbox[p] # "none"
          /\ sandbox' = [sandbox EXCEPT ![p] = "partial"]
    /\ Release(p)
    /\ UNCHANGED <<Unlabelled, active, validated, apply>>

MarkInactive(p) ==
    /\ group[p].running = "unmark"
    /\ active' = [active EXCEPT ![p] = FALSE]
    /\ validated' = [validated EXCEPT ![p] = 0]
    /\ Release(p)
    /\ UNCHANGED <<Unlabelled, apply, sandbox>>

DestroyStep(p) ==
    NothingToDestroy(p) \/ DestroySucceeds(p) \/ DestroyFails(p)
    \/ MarkInactive(p)

(***************************************************************************)
(* The janitor.  Only the age of a sandbox that is not a draft's may spare *)
(* it, and not at night: when it is picked is left open.                   *)
(***************************************************************************)

\* Defect: drafts are passed over.
JanitorSkipsDrafts(p) ==
    /\ p \notin picked
    /\ ~pr[p].closed /\ ~pr[p].draft /\ active[p]
    /\ picked' = picked \cup {p}
    /\ UNCHANGED <<pr, written, green, active, validated, apply, group,
                   sandbox, events>>

JanitorPicks(p) ==
    /\ p \notin picked
    /\ ~pr[p].closed /\ active[p]
    /\ picked' = picked \cup {p}
    /\ UNCHANGED <<pr, written, green, active, validated, apply, group,
                   sandbox, events>>

JanitorDestroys(p) ==
    /\ p \in picked
    /\ picked' = picked \ {p}
    /\ TriggerDestroy(p, "destroy")
    /\ UNCHANGED <<pr, written, green, active, validated, events>>

JanitorStep(p) == JanitorPicks(p) \/ JanitorDestroys(p)

Next ==
    \E p \in PRs : \/ HumanStep(p)
                   \/ ApplyStep(p)
                   \/ DestroyStep(p)
                   \/ JanitorStep(p)

Spec == Init /\ [][Next]_vars

\* Workflow runs go on, the janitor comes every hour, and a destroy that is
\* tried again and again succeeds once.
FairSpec ==
    /\ Spec
    /\ \A p \in PRs : /\ WF_vars(ApplyStep(p))
                      /\ WF_vars(DestroyStep(p))
                      /\ SF_vars(DestroySucceeds(p))
                      /\ SF_vars(JanitorPicks(p))
                      /\ WF_vars(JanitorDestroys(p))

(***************************************************************************)
(* Properties.                                                             *)
(***************************************************************************)

\* A pull request that counts against its owner's quota has a sandbox, up,
\* half built, or just gone in a job that is about to unmark it: however
\* runs are cancelled, replaced in their group and fail.
ActiveMeansBuilt ==
    \A p \in PRs : active[p] => \/ sandbox[p] # "none"
                                \/ group[p].running = "unmark"

\* The label is taken off only when nothing is left: no apply has built it
\* again between the verification of a destroy and its unmarking.
UnmarkedMeansGone ==
    [][\A p \in PRs : active[p] /\ ~active'[p] => sandbox'[p] = "none"]_vars

\* A marked sandbox of a pull request that stays open, draft or not, is torn
\* down in the end, although destroys fail and are replaced in their group.
OpenSandboxesExpire ==
    \A p \in PRs : active[p] ~> ~active[p] \/ pr[p].closed

\* docs/sandbox-decision-matrix.md: auto-destroy is mandatory on close.
ClosedSandboxesGo ==
    \A p \in PRs : pr[p].closed ~> ~pr[p].closed \/ sandbox[p] = "none"
=============================================================================
