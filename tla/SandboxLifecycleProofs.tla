----------------------- MODULE SandboxLifecycleProofs -----------------------
(***************************************************************************)
(* Proofs about SandboxLifecycle for any pull requests, owners, numbers of *)
(* commits and of events: its type invariant, that a marked sandbox was    *)
(* built, and that one is unmarked only when it is gone.                   *)
(***************************************************************************)
EXTENDS SandboxLifecycle, TLAPS

(***************************************************************************)
(* The inductive invariant, of one pull request: where its apply run is,   *)
(* what its concurrency group holds, what exists in the cloud and whether  *)
(* it is marked.  The run is in the group exactly while it is one of its   *)
(* jobs, so that nothing is built while a destroy is between its           *)
(* verification and its unmarking.                                         *)
(***************************************************************************)
RunType == {NoRun} \cup [at : ApplyPlaces, head : Heads, eligible : BOOLEAN]
GroupType == [running : Jobs, waiting : Jobs]
CloudType == {"none", "partial", "up"}
InGroup == {"queued"} \cup Building

Consistent(run, g, cloud, marked) ==
    /\ run.at \in InGroup <=> g.running = "apply" \/ g.waiting = "apply"
    /\ ~(g.running = "apply" /\ g.waiting = "apply")
    /\ run.at \in Building => g.running = "apply"
    /\ run.at = "marking" => cloud = "up"
    /\ g.running = "unmark" => cloud = "none"
    /\ g.waiting # "unmark"
    /\ g.running = "none" => g.waiting = "none"
    /\ marked => cloud # "none" \/ g.running = "unmark"

PRInv(p) == Consistent(apply[p], group[p], sandbox[p], active[p])

\* The part of the state that Consistent is about, and the rest.
RunsOK ==
    /\ apply \in [PRs -> RunType]
    /\ group \in [PRs -> GroupType]
    /\ sandbox \in [PRs -> CloudType]
    /\ active \in [PRs -> BOOLEAN]
    /\ \A p \in PRs : PRInv(p)

PullType == [closed : BOOLEAN, draft : BOOLEAN, head : Heads, deploy : BOOLEAN]

PullsOK ==
    /\ pr \in [PRs -> PullType]
    /\ written \in [PRs -> Heads]
    /\ green \in [PRs -> SUBSET Heads]
    /\ validated \in [PRs -> 0..MaxHead]
    /\ picked \subseteq PRs
    /\ events \in 0..MaxEvents

LifecycleInv == RunsOK /\ PullsOK

(***************************************************************************)
(* Groups.                                                                 *)
(***************************************************************************)

\* Cancelling a run takes it out of its group and leaves the rest in order.
LEMMA CancelConsistent ==
    ASSUME NEW run, NEW g \in GroupType, NEW cloud, NEW marked \in BOOLEAN,
           Consistent(run, g, cloud, marked),
           NEW newRun, newRun.at \in {"none", "evaluate"},
           NEW left, \/ left = cloud
                     \/ run.at = "applying" /\ left = "partial"
    PROVE  /\ WithoutApply(g) \in GroupType
           /\ Consistent(newRun, WithoutApply(g), left, marked)
<1>1. CASE g.running = "apply"
  <2>1. /\ WithoutApply(g) = [running |-> g.waiting, waiting |-> "none"]
        /\ WithoutApply(g) \in GroupType
    BY <1>1 DEF WithoutApply, Promoted, GroupType, Jobs
  <2>2. QED
    BY <1>1, <2>1 DEF Consistent, InGroup, Building
<1>2. CASE g.running # "apply" /\ g.waiting = "apply"
  <2>1. /\ WithoutApply(g) \in GroupType
        /\ WithoutApply(g).running = g.running
        /\ WithoutApply(g).waiting = "none"
    BY <1>2 DEF WithoutApply, GroupType, Jobs
  <2>2. QED
    BY <1>2, <2>1 DEF Consistent, InGroup, Building
<1>3. CASE g.running # "apply" /\ g.waiting # "apply"
  BY <1>3 DEF WithoutApply, Consistent, InGroup, Building
<1>4. QED
  BY <1>1, <1>2, <1>3

\* A destroy run that enters the group cancels an apply that waits there.
LEMMA EnterDestroyConsistent ==
    ASSUME NEW run, NEW g \in GroupType, NEW cloud, NEW marked \in BOOLEAN,
           Consistent(run, g, cloud, marked),
           NEW job \in {"idle", "destroy"}
    PROVE  /\ Entered(g, job) \in GroupType
           /\ Consistent(IF g.waiting = "apply" THEN NoRun ELSE run,
                         Entered(g, job), cloud, marked)
<1>1. CASE g.running = "none"
  <2>1. /\ Entered(g, job) \in GroupType
        /\ Entered(g, job).running = job
        /\ Entered(g, job).waiting = g.waiting
    BY <1>1 DEF Entered, GroupType, Jobs
  <2>2. QED
    BY <1>1, <2>1 DEF Consistent, InGroup, Building
<1>2. CASE g.running # "none"
  <2>1. /\ Entered(g, job) \in GroupType
        /\ Entered(g, job).running = g.running
        /\ Entered(g, job).waiting = job
    BY <1>2 DEF Entered, GroupType, Jobs
  <2>2. QED
    BY <1>2, <2>1 DEF Consistent, NoRun, InGroup, Building
<1>3. QED
  BY <1>1, <1>2

\* The infrastructure job of an apply run enters the group.
LEMMA EnterApplyConsistent ==
    ASSUME NEW run, NEW g \in GroupType, NEW cloud, NEW marked \in BOOLEAN,
           Consistent(run, g, cloud, marked), run.at = "enter",
           NEW newRun, newRun.at = "queued"
    PROVE  /\ Entered(g, "apply") \in GroupType
           /\ Consistent(newRun, Entered(g, "apply"), cloud, marked)
<1>1. CASE g.running = "none"
  <2>1. /\ Entered(g, "apply") \in GroupType
        /\ Entered(g, "apply").running = "apply"
        /\ Entered(g, "apply").waiting = g.waiting
    BY <1>1 DEF Entered, GroupType, Jobs
  <2>2. QED
    BY <1>1, <2>1 DEF Consistent, InGroup, Building
<1>2. CASE g.running # "none"
  <2>1. /\ Entered(g, "apply") \in GroupType
        /\ Entered(g, "apply").running = g.running
        /\ Entered(g, "apply").waiting = "apply"
    BY <1>2 DEF Entered, GroupType, Jobs
  <2>2. QED
    BY <1>2, <2>1 DEF Consistent, InGroup, Building
<1>3. QED
  BY <1>1, <1>2

\* The job that runs ends and the one that waits is promoted.
LEMMA ReleaseConsistent ==
    ASSUME NEW run, NEW g \in GroupType, NEW cloud, NEW marked \in BOOLEAN,
           Consistent(run, g, cloud, marked),
           NEW newRun,
           \/ g.running = "apply" /\ newRun.at \notin InGroup
           \/ g.running # "apply" /\ newRun = run,
           NEW left, NEW mark \in BOOLEAN, mark => left # "none"
    PROVE  /\ Promoted(g) \in GroupType
           /\ Consistent(newRun, Promoted(g), left, mark)
BY DEF Promoted, GroupType, Jobs, Consistent, InGroup, Building

(***************************************************************************)
(* A step that changes one pull request's part of the state.               *)
(***************************************************************************)
LEMMA Same ==
    ASSUME NEW S, NEW T, NEW f \in [S -> T], NEW x \in S
    PROVE  f = [f EXCEPT ![x] = f[x]] /\ f[x] \in T
OBVIOUS

LEMMA Frame ==
    ASSUME RunsOK, NEW p \in PRs,
           NEW run \in RunType, NEW g \in GroupType,
           NEW cloud \in CloudType, NEW marked \in BOOLEAN,
           Consistent(run, g, cloud, marked),
           apply' = [apply EXCEPT ![p] = run],
           group' = [group EXCEPT ![p] = g],
           sandbox' = [sandbox EXCEPT ![p] = cloud],
           active' = [active EXCEPT ![p] = marked]
    PROVE  RunsOK'
<1>1. /\ apply' \in [PRs -> RunType]
      /\ group' \in [PRs -> GroupType]
      /\ sandbox' \in [PRs -> CloudType]
      /\ active' \in [PRs -> BOOLEAN]
  BY DEF RunsOK
<1>2. ASSUME NEW q \in PRs
      PROVE  PRInv(q)'
  <2>1. CASE q = p
    BY <2>1 DEF RunsOK, PRInv
  <2>2. CASE q # p
    BY <2>2 DEF RunsOK, PRInv
  <2>3. QED
    BY <2>1, <2>2
<1>3. QED
  BY <1>1, <1>2 DEF RunsOK

\* What is known of the pull request that a step is about.
LEMMA Unfolded ==
    ASSUME RunsOK, NEW p \in PRs
    PROVE  /\ Consistent(apply[p], group[p], sandbox[p], active[p])
           /\ apply[p] \in RunType /\ apply = [apply EXCEPT ![p] = apply[p]]
           /\ group[p] \in GroupType /\ group = [group EXCEPT ![p] = group[p]]
           /\ sandbox[p] \in CloudType
           /\ sandbox = [sandbox EXCEPT ![p] = sandbox[p]]
           /\ active[p] \in BOOLEAN
           /\ active = [active EXCEPT ![p] = active[p]]
<1>1. Consistent(apply[p], group[p], sandbox[p], active[p])
  BY DEF RunsOK, PRInv
<1>2. QED
  BY <1>1, Same DEF RunsOK

\* A newer event takes the run of the branch out of wherever it is.
LEMMA CancelKeeps ==
    ASSUME RunsOK, NEW p \in PRs,
           NEW newRun \in RunType, newRun.at \in {"none", "evaluate"},
           CancelApply(p, newRun), UNCHANGED active
    PROVE  RunsOK'
<1>1. PICK left \in CloudType :
         /\ left = sandbox[p] \/ (apply[p].at = "applying" /\ left = "partial")
         /\ sandbox' = [sandbox EXCEPT ![p] = left]
  BY Unfolded DEF CancelApply, CloudType
<1>2. /\ WithoutApply(group[p]) \in GroupType
      /\ Consistent(newRun, WithoutApply(group[p]), left, active[p])
  BY <1>1, Unfolded, CancelConsistent
<1>3. /\ apply' = [apply EXCEPT ![p] = newRun]
      /\ group' = [group EXCEPT ![p] = WithoutApply(group[p])]
      /\ active' = [active EXCEPT ![p] = active[p]]
  BY Unfolded DEF CancelApply
<1>4. active[p] \in BOOLEAN
  BY Unfolded
<1>5. QED
  BY <1>1, <1>2, <1>3, <1>4, Frame

\* Events of a destroy enter the group.
LEMMA DestroyKeeps ==
    ASSUME RunsOK, NEW p \in PRs, NEW job \in {"idle", "destroy"},
           TriggerDestroy(p, job), UNCHANGED active
    PROVE  RunsOK'
<1> DEFINE run == IF group[p].waiting = "apply" THEN NoRun ELSE apply[p]
<1>1. /\ Entered(group[p], job) \in GroupType
      /\ Consistent(run, Entered(group[p], job), sandbox[p], active[p])
  BY Unfolded, EnterDestroyConsistent
<1>2. run \in RunType
  BY Unfolded DEF RunType
<1>3. /\ apply' = [apply EXCEPT ![p] = run]
      /\ group' = [group EXCEPT ![p] = Entered(group[p], job)]
      /\ sandbox' = [sandbox EXCEPT ![p] = sandbox[p]]
      /\ active' = [active EXCEPT ![p] = active[p]]
  BY Unfolded DEF TriggerDestroy
<1>4. active[p] \in BOOLEAN /\ sandbox[p] \in CloudType
  BY Unfolded
<1> HIDE DEF run
<1>5. QED
  BY <1>1, <1>2, <1>3, <1>4, Frame

LEMMA TriggerKeeps ==
    ASSUME RunsOK, NEW p \in PRs, pr' \in [PRs -> PullType],
           TriggerApply(p), UNCHANGED active
    PROVE  RunsOK'
<1>1. PICK waived \in BOOLEAN :
         CancelApply(p, [at |-> "evaluate", head |-> pr'[p].head,
                         eligible |-> Eligible(p, pr'[p]) /\ ~waived])
  BY DEF TriggerApply
<1> DEFINE newRun == [at |-> "evaluate", head |-> pr'[p].head,
                      eligible |-> Eligible(p, pr'[p]) /\ ~waived]
<1>2. pr'[p].head \in Heads /\ (Eligible(p, pr'[p]) /\ ~waived) \in BOOLEAN
  BY DEF PullType, Eligible
<1>3. newRun \in RunType /\ newRun.at \in {"none", "evaluate"}
  BY <1>2 DEF RunType, ApplyPlaces
<1>4. CancelApply(p, newRun)
  BY <1>1
<1> HIDE DEF newRun
<1>5. QED
  BY <1>3, <1>4, CancelKeeps

(***************************************************************************)
(* What people do.                                                         *)
(***************************************************************************)
LEMMA PullChange ==
    ASSUME PullsOK, NEW p \in PRs, NEW state \in PullType, SetPR(p, state)
    PROVE  pr' \in [PRs -> PullType]
BY DEF PullsOK, SetPR

LEMMA HumanKeeps ==
    ASSUME LifecycleInv, NEW p \in PRs, HumanStep(p)
    PROVE  LifecycleInv'
<1> USE DEF LifecycleInv
<1>1. pr[p] \in PullType
  BY DEF PullsOK
<1>2. /\ UNCHANGED <<active, validated, picked>>
      /\ events' \in 0..MaxEvents
  <2>1. Human
    BY DEF HumanStep, AddDeployLabel, RemoveDeployLabel, AddOtherLabel,
           RemoveOtherLabel, WriteCommit, Push, WorkflowCompletes,
           ConvertToDraft, ReadyForReview, Close, Reopen
  <2>2. QED
    BY <2>1, BoundsAssumption DEF Human, PullsOK
<1>3. CASE AddDeployLabel(p) \/ Push(p) \/ ReadyForReview(p) \/ Reopen(p)
  <2>1. written[p] \in Heads
    BY DEF PullsOK
  <2>2. /\ \/ SetPR(p, [pr[p] EXCEPT !.deploy = TRUE])
           \/ SetPR(p, [pr[p] EXCEPT !.head = written[p]])
           \/ SetPR(p, [pr[p] EXCEPT !.draft = FALSE])
           \/ SetPR(p, [pr[p] EXCEPT !.closed = FALSE])
        /\ TriggerApply(p)
        /\ UNCHANGED <<written, green>>
    BY <1>3 DEF AddDeployLabel, Push, ReadyForReview, Reopen
  <2>3. /\ [pr[p] EXCEPT !.deploy = TRUE] \in PullType
        /\ [pr[p] EXCEPT !.head = written[p]] \in PullType
        /\ [pr[p] EXCEPT !.draft = FALSE] \in PullType
        /\ [pr[p] EXCEPT !.closed = FALSE] \in PullType
    BY <1>1, <2>1 DEF PullType
  <2>4. pr' \in [PRs -> PullType]
    BY <2>2, <2>3, PullChange
  <2>5. RunsOK'
    BY <1>2, <2>2, <2>4, TriggerKeeps
  <2>6. QED
    BY <1>2, <2>2, <2>4, <2>5 DEF PullsOK
<1>4. CASE RemoveDeployLabel(p) \/ ConvertToDraft(p) \/ Close(p)
  <2>1. /\ \/ SetPR(p, [pr[p] EXCEPT !.deploy = FALSE])
           \/ SetPR(p, [pr[p] EXCEPT !.draft = TRUE])
           \/ SetPR(p, [pr[p] EXCEPT !.closed = TRUE])
        /\ TriggerDestroy(p, DestroyJob(p))
        /\ UNCHANGED <<written, green>>
    BY <1>4 DEF RemoveDeployLabel, ConvertToDraft, Close
  <2>2. /\ [pr[p] EXCEPT !.deploy = FALSE] \in PullType
        /\ [pr[p] EXCEPT !.draft = TRUE] \in PullType
        /\ [pr[p] EXCEPT !.closed = TRUE] \in PullType
    BY <1>1 DEF PullType
  <2>3. pr' \in [PRs -> PullType]
    BY <2>1, <2>2, PullChange
  <2>4. DestroyJob(p) \in {"idle", "destroy"}
    BY DEF DestroyJob
  <2>5. RunsOK'
    BY <1>2, <2>1, <2>4, DestroyKeeps
  <2>6. QED
    BY <1>2, <2>1, <2>3, <2>5 DEF PullsOK
<1>5. CASE AddOtherLabel(p)
  <2>1. UNCHANGED <<pr, written, green>> /\ TriggerApply(p)
    BY <1>5 DEF AddOtherLabel
  <2>2. PullsOK'
    BY <1>2, <2>1 DEF PullsOK
  <2>3. QED
    BY <1>2, <2>1, <2>2, TriggerKeeps DEF PullsOK
<1>6. CASE RemoveOtherLabel(p)
  <2>1. UNCHANGED <<pr, written, green>> /\ TriggerDestroy(p, "idle")
    BY <1>6 DEF RemoveOtherLabel
  <2>2. RunsOK'
    BY <1>2, <2>1, DestroyKeeps
  <2>3. QED
    BY <1>2, <2>1, <2>2 DEF PullsOK
<1>7. CASE WriteCommit(p)
  <2>1. written' \in [PRs -> Heads]
    BY <1>7, BoundsAssumption DEF WriteCommit, PullsOK, Heads
  <2>2. QED
    BY <1>2, <1>7, <2>1 DEF WriteCommit, RunsOK, PRInv, PullsOK
<1>8. CASE WorkflowCompletes(p)
  <2>1. /\ UNCHANGED <<pr, written>>
        /\ green' = [green EXCEPT ![p] = @ \cup {pr[p].head}]
        /\ CancelApply(p, NoRun)
    BY <1>8 DEF WorkflowCompletes
  <2>2. green' \in [PRs -> SUBSET Heads]
    BY <1>1, <2>1 DEF PullsOK, PullType
  <2>3. NoRun \in RunType /\ NoRun.at \in {"none", "evaluate"}
    BY DEF RunType, NoRun
  <2>4. RunsOK'
    BY <1>2, <2>1, <2>3, CancelKeeps
  <2>5. QED
    BY <1>2, <2>1, <2>2, <2>4 DEF PullsOK
<1>9. QED
  BY <1>3, <1>4, <1>5, <1>6, <1>7, <1>8 DEF HumanStep

(***************************************************************************)
(* The apply run, the destroy job and the janitor.                         *)
(***************************************************************************)

\* A step of the run outside its group, or one that stays in its job.
LEMMA Advance ==
    ASSUME RunsOK, NEW p \in PRs, NEW from, NEW to \in ApplyPlaces \cup {"none"},
           RunGoes(p, from, to), from # "none"
    PROVE  \E run \in RunType :
              /\ run.at = to
              /\ apply[p].at = from
              /\ apply' = [apply EXCEPT ![p] = run]
<1> DEFINE run == IF to = "none" THEN NoRun ELSE [apply[p] EXCEPT !.at = to]
<1>1. apply[p] \in RunType /\ apply[p].at = from
  BY Unfolded DEF RunGoes
<1>2. apply[p] \in [at : ApplyPlaces, head : Heads, eligible : BOOLEAN]
  BY <1>1 DEF RunType, NoRun
<1>3. run \in RunType /\ run.at = to
  BY <1>2 DEF RunType, NoRun
<1>4. apply' = [apply EXCEPT ![p] = run]
  BY DEF RunGoes
<1>5. QED
  BY <1>1, <1>3, <1>4

\* A step between places that are outside the group.
LEMMA OutsideKeeps ==
    ASSUME RunsOK, NEW p \in PRs, NEW from \in ApplyPlaces, from \notin InGroup,
           NEW to \in ApplyPlaces \cup {"none"}, to \notin InGroup,
           RunGoes(p, from, to), UNCHANGED <<group, sandbox, active>>
    PROVE  RunsOK'
<1>1. PICK run \in RunType : /\ run.at = to
                            /\ apply[p].at = from
                            /\ apply' = [apply EXCEPT ![p] = run]
  BY Advance DEF ApplyPlaces, Building
<1> DEFINE g == group[p]
           cloud == sandbox[p]
           marked == active[p]
<1>2. Consistent(run, g, cloud, marked)
  BY <1>1, Unfolded DEF Consistent, InGroup, Building
<1>3. g \in GroupType /\ cloud \in CloudType /\ marked \in BOOLEAN
  BY Unfolded
<1>4. /\ group' = [group EXCEPT ![p] = g]
      /\ sandbox' = [sandbox EXCEPT ![p] = cloud]
      /\ active' = [active EXCEPT ![p] = marked]
  BY Unfolded
<1> HIDE DEF g, cloud, marked
<1>5. /\ RunsOK /\ p \in PRs /\ run \in RunType
      /\ apply' = [apply EXCEPT ![p] = run]
  BY <1>1
<1>6. QED
  BY ONLY <1>2, <1>3, <1>4, <1>5, Frame

LEMMA ApplyKeeps ==
    ASSUME LifecycleInv, NEW p \in PRs, ApplyStep(p)
    PROVE  LifecycleInv'
<1> USE DEF LifecycleInv
<1>1. UNCHANGED <<pr, written, green, picked, events>>
  BY DEF ApplyStep, Evaluate, EnforceQuota, EnterApply, StartApply,
         ApplySucceeds, ApplyFails, MarkActive, Bootstrap, MarkValidated,
         Unlabelled
<1>2. PullsOK'
  <2>1. validated' \in [PRs -> 0..MaxHead]
    <3>1. CASE MarkValidated(p)
      <4>1. written[p] \in 0..MaxHead
        BY BoundsAssumption DEF PullsOK, Heads
      <4>2. QED
        BY <3>1, <4>1 DEF MarkValidated, PullsOK
    <3>2. CASE UNCHANGED validated
      BY <3>2 DEF PullsOK
    <3>3. QED
      BY <3>1, <3>2 DEF ApplyStep, Evaluate, EnforceQuota, EnterApply,
         StartApply, ApplySucceeds, ApplyFails, MarkActive, Bootstrap
  <2>2. QED
    BY <1>1, <2>1 DEF PullsOK
<1> DEFINE run == apply[p]
           g == group[p]
           cloud == sandbox[p]
           marked == active[p]
<1>3. /\ Consistent(run, g, cloud, marked)
      /\ g \in GroupType /\ cloud \in CloudType /\ marked \in BOOLEAN
  BY Unfolded
<1>0. /\ group = [group EXCEPT ![p] = g]
         /\ sandbox = [sandbox EXCEPT ![p] = cloud]
         /\ active = [active EXCEPT ![p] = marked]
  BY Unfolded
<1>4. CASE Evaluate(p) \/ EnforceQuota(p) \/ Bootstrap(p) \/ MarkValidated(p)
  <2>1. \E from \in {"evaluate", "quota", "bootstrap", "validate"},
           to \in {"quota", "enter", "validate", "none"} : RunGoes(p, from, to)
    BY <1>4 DEF Evaluate, EnforceQuota, Bootstrap, MarkValidated
  <2>2. UNCHANGED <<group, sandbox, active>>
    BY <1>4 DEF Evaluate, EnforceQuota, Bootstrap, MarkValidated
  <2>3. RunsOK'
    BY <2>1, <2>2, OutsideKeeps DEF ApplyPlaces, InGroup, Building
  <2>4. QED
    BY <1>2, <2>3
<1>5. CASE EnterApply(p)
  <2>1. PICK new \in RunType : /\ new.at = "queued" /\ run.at = "enter"
                              /\ apply' = [apply EXCEPT ![p] = new]
    BY <1>5, Advance DEF EnterApply, ApplyPlaces
  <2>2. /\ Entered(g, "apply") \in GroupType
        /\ Consistent(new, Entered(g, "apply"), cloud, marked)
    BY <1>3, <2>1, EnterApplyConsistent
  <2>3. /\ group' = [group EXCEPT ![p] = Entered(g, "apply")]
        /\ sandbox' = [sandbox EXCEPT ![p] = cloud]
        /\ active' = [active EXCEPT ![p] = marked]
    BY <1>0, <1>5 DEF EnterApply
  <2> HIDE DEF g, cloud, marked
  <2>4. QED
    BY <1>2, <1>3, <2>1, <2>2, <2>3, Frame
<1>6. CASE StartApply(p)
  <2>1. PICK new \in RunType : /\ new.at = "applying" /\ run.at = "queued"
                              /\ apply' = [apply EXCEPT ![p] = new]
    BY <1>6, Advance DEF StartApply, ApplyPlaces, Building
  <2>2. Consistent(new, g, cloud, marked)
    BY <1>3, <1>6, <2>1 DEF StartApply, Consistent, InGroup, Building
  <2>3. /\ group' = [group EXCEPT ![p] = g]
        /\ sandbox' = [sandbox EXCEPT ![p] = cloud]
        /\ active' = [active EXCEPT ![p] = marked]
    BY <1>0, <1>6 DEF StartApply
  <2> HIDE DEF g, cloud, marked
  <2>4. QED
    BY <1>2, <1>3, <2>1, <2>2, <2>3, Frame
<1>7. CASE ApplySucceeds(p)
  <2>1. PICK new \in RunType : /\ new.at = "marking" /\ run.at = "applying"
                              /\ apply' = [apply EXCEPT ![p] = new]
    BY <1>7, Advance DEF ApplySucceeds, ApplyPlaces, Building
  <2>2. Consistent(new, g, "up", marked)
    BY <1>3, <2>1 DEF Consistent, InGroup, Building
  <2>3. /\ group' = [group EXCEPT ![p] = g]
        /\ sandbox' = [sandbox EXCEPT ![p] = "up"]
        /\ active' = [active EXCEPT ![p] = marked]
        /\ "up" \in CloudType
    BY <1>0, <1>7 DEF ApplySucceeds, CloudType
  <2> HIDE DEF run, g, cloud, marked
  <2>4. RunsOK'
    BY <1>3, <2>1, <2>2, <2>3, Frame
  <2>5. QED
    BY <1>2, <2>4
<1>8. CASE ApplyFails(p)
  <2>1. PICK new \in RunType : /\ new.at = "none" /\ run.at = "applying"
                              /\ apply' = [apply EXCEPT ![p] = new]
    BY <1>8, Advance DEF ApplyFails
  <2>2. PICK left \in CloudType : /\ left = cloud \/ left = "partial"
                                 /\ sandbox' = [sandbox EXCEPT ![p] = left]
    BY <1>3, <1>0, <1>8 DEF ApplyFails, CloudType
  <2>3. g.running = "apply" /\ (marked => left # "none")
    BY <1>3, <2>1, <2>2 DEF Consistent, Building
  <2>4. /\ Promoted(g) \in GroupType
        /\ Consistent(new, Promoted(g), left, marked)
    BY <1>3, <2>1, <2>3, ReleaseConsistent DEF InGroup, Building
  <2>5. /\ group' = [group EXCEPT ![p] = Promoted(g)]
        /\ active' = [active EXCEPT ![p] = marked]
    BY <1>0, <1>8 DEF ApplyFails, Release
  <2> HIDE DEF g, cloud, marked
  <2>6. QED
    BY <1>2, <1>3, <2>1, <2>2, <2>4, <2>5, Frame
<1>9. CASE MarkActive(p)
  <2>1. PICK new \in RunType : /\ new.at = "bootstrap" /\ run.at = "marking"
                              /\ apply' = [apply EXCEPT ![p] = new]
    BY <1>9, Advance DEF MarkActive, ApplyPlaces
  <2>2. g.running = "apply" /\ cloud # "none"
    BY <1>3, <2>1 DEF Consistent, Building
  <2>3. /\ Promoted(g) \in GroupType
        /\ Consistent(new, Promoted(g), cloud, TRUE)
    BY <1>3, <2>1, <2>2, ReleaseConsistent DEF InGroup, Building
  <2>4. /\ group' = [group EXCEPT ![p] = Promoted(g)]
        /\ active' = [active EXCEPT ![p] = TRUE]
        /\ sandbox' = [sandbox EXCEPT ![p] = cloud]
    BY <1>0, <1>9 DEF MarkActive, Release
  <2> HIDE DEF g, cloud
  <2>5. QED
    BY <1>2, <1>3, <2>1, <2>3, <2>4, Frame
<1>10. QED
  BY <1>4, <1>5, <1>6, <1>7, <1>8, <1>9 DEF ApplyStep

LEMMA DestroyStepKeeps ==
    ASSUME LifecycleInv, NEW p \in PRs, DestroyStep(p)
    PROVE  LifecycleInv'
<1> USE DEF LifecycleInv
<1> DEFINE run == apply[p]
           g == group[p]
           cloud == sandbox[p]
           marked == active[p]
<1>1. UNCHANGED <<pr, written, green, picked, events, apply>>
  BY DEF DestroyStep, NothingToDestroy, DestroySucceeds, DestroyFails,
         MarkInactive, Unlabelled
<1>2. PullsOK'
  <2>1. validated' \in [PRs -> 0..MaxHead]
    <3>1. CASE MarkInactive(p)
      BY <3>1, BoundsAssumption DEF MarkInactive, PullsOK
    <3>2. CASE UNCHANGED validated
      BY <3>2 DEF PullsOK
    <3>3. QED
      BY <3>1, <3>2 DEF DestroyStep, NothingToDestroy, DestroySucceeds,
                        DestroyFails
  <2>2. QED
    BY <1>1, <2>1 DEF PullsOK
<1>3. /\ Consistent(run, g, cloud, marked) /\ run \in RunType
      /\ g \in GroupType /\ cloud \in CloudType /\ marked \in BOOLEAN
  BY Unfolded
<1>4. apply' = [apply EXCEPT ![p] = run]
  BY <1>1, Unfolded
<1>0. /\ sandbox = [sandbox EXCEPT ![p] = cloud]
      /\ active = [active EXCEPT ![p] = marked]
  BY Unfolded
<1>5. CASE NothingToDestroy(p) \/ DestroyFails(p)
  <2>1. g.running \in {"idle", "destroy"}
    BY <1>5 DEF NothingToDestroy, DestroyFails
  <2>2. PICK left \in CloudType : /\ left = cloud \/ left = "partial"
                                 /\ sandbox' = [sandbox EXCEPT ![p] = left]
    BY <1>0, <1>3, <1>5 DEF NothingToDestroy, DestroyFails, CloudType
  <2>3. /\ Promoted(g) \in GroupType
        /\ Consistent(run, Promoted(g), left, marked)
    <3>1. marked => left # "none"
      BY <1>3, <2>1, <2>2 DEF Consistent
    <3>2. QED
      BY <1>3, <2>1, <3>1, ReleaseConsistent
  <2>4. /\ group' = [group EXCEPT ![p] = Promoted(g)]
        /\ active' = [active EXCEPT ![p] = marked]
    BY <1>0, <1>5 DEF NothingToDestroy, DestroyFails, Release
  <2> HIDE DEF run, g, cloud, marked
  <2>5. QED
    BY <1>2, <1>3, <1>4, <2>2, <2>3, <2>4, Frame
<1>6. CASE DestroySucceeds(p)
  <2> DEFINE gone == [g EXCEPT !.running = "unmark"]
  <2>1. g.running = "destroy"
    BY <1>6 DEF DestroySucceeds
  <2>2. gone \in GroupType /\ "none" \in CloudType
    BY <1>3 DEF GroupType, Jobs, CloudType
  <2>3. gone.running = "unmark" /\ gone.waiting = g.waiting
    BY <1>3 DEF GroupType
  <2>4. Consistent(run, gone, "none", marked)
    <3> HIDE DEF gone
    <3>1. QED
      BY <1>3, <2>1, <2>3 DEF Consistent, InGroup, Building
  <2>5. /\ group' = [group EXCEPT ![p] = gone]
        /\ sandbox' = [sandbox EXCEPT ![p] = "none"]
        /\ active' = [active EXCEPT ![p] = marked]
    BY <1>0, <1>6 DEF DestroySucceeds
  <2> HIDE DEF run, gone, marked
  <2>6. QED
    BY <1>2, <1>3, <1>4, <2>2, <2>4, <2>5, Frame
<1>7. CASE MarkInactive(p)
  <2>1. g.running = "unmark"
    BY <1>7 DEF MarkInactive
  <2>2. /\ Promoted(g) \in GroupType
        /\ Consistent(run, Promoted(g), cloud, FALSE)
    BY <1>3, <2>1, ReleaseConsistent
  <2>3. /\ group' = [group EXCEPT ![p] = Promoted(g)]
        /\ sandbox' = [sandbox EXCEPT ![p] = cloud]
        /\ active' = [active EXCEPT ![p] = FALSE]
    BY <1>0, <1>7 DEF MarkInactive, Release
  <2> HIDE DEF run, g, cloud
  <2>4. QED
    BY <1>2, <1>3, <1>4, <2>2, <2>3, Frame
<1>8. QED
  BY <1>5, <1>6, <1>7 DEF DestroyStep

LEMMA JanitorKeeps ==
    ASSUME LifecycleInv, NEW p \in PRs, JanitorStep(p)
    PROVE  LifecycleInv'
<1> USE DEF LifecycleInv
<1>1. CASE JanitorPicks(p)
  BY <1>1 DEF JanitorPicks, RunsOK, PRInv, PullsOK
<1>2. CASE JanitorDestroys(p)
  <2>1. TriggerDestroy(p, "destroy") /\ UNCHANGED active
    BY <1>2 DEF JanitorDestroys
  <2>2. RunsOK'
    BY <2>1, DestroyKeeps
  <2>3. QED
    BY <1>2, <2>2 DEF JanitorDestroys, PullsOK
<1>3. QED
  BY <1>1, <1>2 DEF JanitorStep

(***************************************************************************)
(* Invariance.                                                             *)
(***************************************************************************)
LEMMA LifecycleInit == Init => LifecycleInv
BY BoundsAssumption
   DEF Init, LifecycleInv, RunsOK, PullsOK, PRInv, Consistent, RunType,
       GroupType, CloudType, PullType, Heads, Jobs, NoRun, InGroup, Building

LEMMA LifecycleStep == LifecycleInv /\ [Next]_vars => LifecycleInv'
<1> SUFFICES ASSUME LifecycleInv, [Next]_vars
             PROVE  LifecycleInv'
  OBVIOUS
<1>1. CASE UNCHANGED vars
  BY <1>1 DEF vars, LifecycleInv, RunsOK, PullsOK, PRInv
<1>2. CASE Next
  BY <1>2, HumanKeeps, ApplyKeeps, DestroyStepKeeps, JanitorKeeps DEF Next
<1>3. QED
  BY <1>1, <1>2

LEMMA LifecycleInvariant == Spec => []LifecycleInv
BY LifecycleInit, LifecycleStep, PTL DEF Spec

\* Pull requests, runs, groups and sandboxes keep their types.
THEOREM LifecycleTypeCorrect == Spec => []TypeOK
<1>1. LifecycleInv => TypeOK
  BY DEF LifecycleInv, RunsOK, PullsOK, TypeOK, RunType, GroupType, CloudType,
         PullType
<1>2. QED
  BY LifecycleInvariant, <1>1, PTL

\* Whatever is cancelled, replaced or fails, and for any number of pull
\* requests: a pull request that is marked active was built and is not gone,
\* or is just being unmarked.
THEOREM MarkedSandboxesExist == Spec => []ActiveMeansBuilt
<1>1. LifecycleInv => ActiveMeansBuilt
  BY DEF LifecycleInv, RunsOK, PRInv, Consistent, ActiveMeansBuilt
<1>2. QED
  BY LifecycleInvariant, <1>1, PTL

\* A sandbox loses its mark only when nothing of it is left, also when an
\* apply was waiting for the destroy.
THEOREM UnmarkingIsSafe == Spec => UnmarkedMeansGone
<1>1. LifecycleInv /\ [Next]_vars
        => [\A p \in PRs : active[p] /\ ~active'[p] => sandbox'[p] = "none"]_vars
  <2> SUFFICES ASSUME LifecycleInv, Next,
                      NEW p \in PRs, active[p] /\ ~active'[p]
               PROVE  sandbox'[p] = "none"
    OBVIOUS
  <2>1. PICK q \in PRs : \/ HumanStep(q)
                        \/ ApplyStep(q)
                        \/ DestroyStep(q)
                        \/ JanitorStep(q)
    BY DEF Next
  <2>2. CASE HumanStep(q)
    BY <2>2 DEF HumanStep, AddDeployLabel, RemoveDeployLabel, AddOtherLabel,
                RemoveOtherLabel, WriteCommit, Push, WorkflowCompletes,
                ConvertToDraft, ReadyForReview, Close, Reopen, Human
  <2>3. CASE ApplyStep(q)
    <3>1. active' = active \/ active' = [active EXCEPT ![q] = TRUE]
      BY <2>3 DEF ApplyStep, Evaluate, EnforceQuota, EnterApply, StartApply,
                  ApplySucceeds, ApplyFails, MarkActive, Bootstrap, MarkValidated
    <3>2. QED
      BY <3>1 DEF LifecycleInv, RunsOK
  <2>4. CASE DestroyStep(q)
    <3>1. CASE UNCHANGED active
      BY <3>1
    <3>2. CASE MarkInactive(q)
      <4>1. /\ active' = [active EXCEPT ![q] = FALSE]
            /\ group[q].running = "unmark"
            /\ UNCHANGED sandbox
        BY <3>2 DEF MarkInactive
      <4>2. p = q
        BY <4>1 DEF LifecycleInv, RunsOK
      <4>3. QED
        BY <4>1, <4>2 DEF LifecycleInv, RunsOK, PRInv, Consistent
    <3>3. QED
      BY <2>4, <3>1, <3>2 DEF DestroyStep, NothingToDestroy, DestroySucceeds,
                              DestroyFails
  <2>5. CASE JanitorStep(q)
    BY <2>5 DEF JanitorStep, JanitorPicks, JanitorDestroys
  <2>6. QED
    BY <2>1, <2>2, <2>3, <2>4, <2>5
<1>2. QED
  BY LifecycleInvariant, <1>1, PTL DEF Spec, UnmarkedMeansGone
=============================================================================
