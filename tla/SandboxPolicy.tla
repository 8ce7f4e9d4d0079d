--------------------------- MODULE SandboxPolicy ---------------------------
(***************************************************************************)
(* The check "Sandbox Policy" of a pull request: the workflow that runs it *)
(* (sandbox-policy.yml) and the evaluator it calls                         *)
(* (evaluate_sandbox_requirement.py).                                      *)
(*                                                                         *)
(* A run works from the event that triggered it, which carries the labels  *)
(* and the head, and asks who set each label last when it gets there.  A   *)
(* newer event cancels the run in progress and waits for it: steps that    *)
(* have not begun are skipped, except those with always(), which write     *)
(* labels once there is a report.  What workflows do to labels triggers no *)
(* run.  Review approvals end up in the report only and are left out, as   *)
(* is a pull request with merge conflicts, for which GitHub runs nothing.  *)
(*                                                                         *)
(* A path stands for every path that matches the same patterns.            *)
(***************************************************************************)
EXTENDS Naturals, FiniteSets

CONSTANTS
    Changeable,     \* paths that the pull request may change
    MaxEvents       \* bound: things people do, and the time they take

ControlPaths == {"workflows", "aws", "deploy", "nginx", "policies", "terraform"}
ContractPaths == {"CODEOWNERS", "compose", "backend_Dockerfile",
                  "resolve_workflow_context"}
StatePaths == {"alembic"}
CriticalPaths == ControlPaths \cup StatePaths \cup
                 {"CODEOWNERS", "resolve_workflow_context", "iam", "network",
                  "auth", "evaluate_sandbox_requirement"}
Surface == [backend  |-> {"backend", "alembic", "backend_Dockerfile"},
            frontend |-> {"frontend"},
            edge     |-> {"edge"},
            nginx    |-> {"nginx"}]
Paths == ContractPaths \cup CriticalPaths \cup {"docs"}
         \cup UNION {Surface[s] : s \in DOMAIN Surface}

ASSUME PolicyAssumption == Changeable \subseteq Paths /\ MaxEvents \in Nat

VARIABLES
    pull,           \* the pull request: files, commit, push, draft, kind
    present,        \* its labels
    latest,         \* who labelled it last with those that are judged, and when
    run,            \* the last run that was started
    waiting,        \* the event whose run waits for the cancelled one to end
    report,         \* what the last evaluation has reported
    check,          \* the conclusion of the check for the current head
    events          \* things people have done so far; also the time

vars == <<pull, present, latest, run, waiting, report, check, events>>

\* The labels whose trust the evaluator asks for, and those it only gives.
HumanTrusted == {"deploy", "skip"}
SystemTrusted == {"validated"}
Judged == HumanTrusted \cup SystemTrusted
Governance == {"required", "recommended"}
Labels == Judged \cup Governance \cup {"ready"}
Times == 0..MaxEvents
People == {"owner", "other"}

\* date: when the head was written; pushed: when it became the head.
Pulls == [files : SUBSET Changeable, date : Times, pushed : Times,
          draft : BOOLEAN, kind : {"own", "fork", "dependabot"}]
Events == [pull : Pulls, labels : SUBSET Labels, when : Times]
Runs == [at : {"resolve", "evaluate", "reconcile", "conclude", "done"},
         event : Events,
         waited : BOOLEAN,              \* behind a run that it cancelled
         files : SUBSET Changeable,     \* resolved
         trusted : SUBSET Judged,       \* resolved
         failed : BOOLEAN]              \* a step has failed

\* collect_reason_groups finds a reason.
Heavy(files) ==
    \/ files \cap (ControlPaths \cup ContractPaths \cup StatePaths) # {}
    \/ Cardinality({s \in DOMAIN Surface : files \cap Surface[s] # {}}) >= 2

Critical(files) == files \cap CriticalPaths # {}

Enforceable(p) == p.kind = "own" /\ ~p.draft
Required(p) == Heavy(p.files) /\ Critical(p.files) /\ Enforceable(p)
Recommended(p) == Heavy(p.files) /\ ~Critical(p.files) /\ Enforceable(p)

(***************************************************************************)
(* evaluate_policy.                                                        *)
(***************************************************************************)

Waived(trusted) == trusted \cap {"validated", "skip"} # {}

Decision(p, trusted) ==
    CASE ~Heavy(p.files) -> "pass"
      [] Heavy(p.files) /\ ~Enforceable(p) -> "advisory"
      [] Required(p) /\ Waived(trusted) -> "pass"
      [] Required(p) /\ ~Waived(trusted) -> "fail"
      [] Recommended(p) -> "pass"

\* The modes that only a waiver or a label leads to, then the gate.
GovernanceMode(p, trusted) ==
    IF ~Heavy(p.files) THEN "fast"
    ELSE IF "validated" \in trusted THEN "sandbox_validated"
    ELSE IF "skip" \in trusted THEN "sandbox_waived"
    ELSE IF "deploy" \in trusted THEN "sandbox_deploy_requested"
    ELSE IF Required(p) THEN "sandbox_required"
    ELSE IF Recommended(p) THEN "sandbox_recommended"
    ELSE "reviewed"

Blocks(p, trusted) == Required(p) /\ ~Waived(trusted)

Evaluated(p, trusted) ==
    [decision |-> Decision(p, trusted),
     mode |-> GovernanceMode(p, trusted),
     block |-> Blocks(p, trusted),
     labels |-> (IF Required(p) THEN {"required"} ELSE {})
                \cup (IF Recommended(p) THEN {"recommended"} ELSE {}),
     files |-> p.files]

\* The report of an evaluator that raised.
Broken == [decision |-> "error", mode |-> "unknown", block |-> FALSE,
           labels |-> {}, files |-> {}]
Reports == [decision : {"pass", "advisory", "fail", "error"},
            mode : {"fast", "sandbox_validated", "sandbox_waived",
                    "sandbox_deploy_requested", "sandbox_required",
                    "sandbox_recommended", "reviewed", "unknown"},
            block : BOOLEAN,
            labels : SUBSET Governance,
            files : SUBSET Changeable]

TypeOK ==
    /\ pull \in Pulls
    /\ present \subseteq Labels
    /\ latest \in [Judged -> [by : People \cup {"nobody", "bot"}, at : Times]]
    /\ run \in Runs
    /\ waiting \in SUBSET Events
    /\ report \in Reports
    /\ check \in {"pending", "success", "blocked", "error"}
    /\ events \in Times

Started(event, waited) ==
    [at |-> "resolve", event |-> event, waited |-> waited, files |-> {},
     trusted |-> {}, failed |-> FALSE]

\* A pull request that was just opened, which is an event like others.
Init ==
    /\ pull \in {p \in Pulls : p.date = 0 /\ p.pushed = 0}
    /\ present = {}
    /\ latest = [l \in Judged |-> [by |-> "nobody", at |-> 0]]
    /\ run = Started([pull |-> pull, labels |-> {}, when |-> 0], FALSE)
    /\ waiting = {}
    /\ report = Broken
    /\ check = "pending"
    /\ events = 0

(***************************************************************************)
(* Events.                                                                 *)
(***************************************************************************)
Human ==
    /\ events < MaxEvents
    /\ events' = events + 1
    /\ UNCHANGED report

\* An event of the list in sandbox-policy.yml starts a run with what it
\* carries, or takes the place of the event that waits for the run in
\* progress, which is cancelled.
Trigger ==
    LET event == [pull |-> pull', labels |-> present', when |-> events']
    IN  /\ check' = "pending"
        /\ IF run.at = "done"
           THEN run' = Started(event, FALSE) /\ UNCHANGED waiting
           ELSE waiting' = {event} /\ UNCHANGED run

LabelledBy(l, by) ==
    IF l \in Judged
    THEN [latest EXCEPT ![l] = [by |-> by, at |-> events']]
    ELSE latest

AddLabel(l, person) ==
    /\ Human
    /\ l \notin present
    /\ present' = present \cup {l}
    /\ latest' = LabelledBy(l, person)
    /\ UNCHANGED pull
    /\ Trigger

RemoveLabel(l) ==
    /\ Human
    /\ l \in present
    /\ present' = present \ {l}
    /\ UNCHANGED <<pull, latest>>
    /\ Trigger

\* A commit may have been written long before it is pushed.
Push ==
    /\ Human
    /\ \E files \in SUBSET Changeable, date \in 0..events' :
           pull' = [pull EXCEPT !.files = files, !.date = date,
                                !.pushed = events']
    /\ UNCHANGED <<present, latest>>
    /\ Trigger

\* converted_to_draft is not in the list of events.
ConvertToDraft ==
    /\ Human
    /\ ~pull.draft
    /\ pull' = [pull EXCEPT !.draft = TRUE]
    /\ UNCHANGED <<present, latest, run, waiting, check>>

ReadyForReview ==
    /\ Human
    /\ pull.draft
    /\ pull' = [pull EXCEPT !.draft = FALSE]
    /\ UNCHANGED <<present, latest>>
    /\ Trigger

\* A review, or a pull request that is closed and opened again.
ReviewOrReopen ==
    /\ Human
    /\ UNCHANGED <<pull, present, latest>>
    /\ Trigger

HumanStep ==
    \/ \E l \in Labels : \/ \E person \in People : AddLabel(l, person)
                         \/ RemoveLabel(l)
    \/ Push \/ ConvertToDraft \/ ReadyForReview \/ ReviewOrReopen

\* sandbox-auto-apply.yml has applied and tested the head, once the owner
\* asked for it; a push cancels it.  It takes the label off before it sets
\* it again: that state is the one after SandboxDestroyed.
SandboxValidated ==
    /\ pull.kind = "own" /\ latest["deploy"].by = "owner"
    /\ present' = present \cup {"validated"}
    /\ latest' = [latest EXCEPT !["validated"] = [by |-> "bot", at |-> events]]
    /\ UNCHANGED <<pull, run, waiting, report, check, events>>

\* When a CI workflow completes, sandbox-auto-apply.yml takes off and sets
\* ready-for-deploy again, whatever the check says.
SignalReady ==
    /\ pull.kind = "own" /\ latest["deploy"].by = "owner"
    /\ present' \in {present \ {"ready"}, present \cup {"ready"}}
    /\ UNCHANGED <<pull, latest, run, waiting, report, check, events>>

\* infrastructure.yml has destroyed the sandbox.
SandboxDestroyed ==
    /\ "validated" \in present
    /\ present' = present \ {"validated"}
    /\ UNCHANGED <<pull, latest, run, waiting, report, check, events>>

BotStep == SandboxValidated \/ SignalReady \/ SandboxDestroyed

(***************************************************************************)
(* The run.  Once an event waits it is cancelled: it resolves nothing any  *)
(* more, an evaluator that is about to write its report may still do so,   *)
(* and the steps after it have always().                                   *)
(***************************************************************************)

\* Defect: a system label counts whatever head it was set for.
TrustedForAnyHead(labels, since) ==
    {l \in labels : \/ l \in HumanTrusted /\ latest[l].by = "owner"
                    \/ l \in SystemTrusted /\ latest[l].by = "bot"}

\* Labels of the event whose last labelling is known now to be trusted.
Trusted(labels, since) ==
    {l \in labels : \/ /\ l \in HumanTrusted
                       /\ latest[l].by = "owner"
                    \/ /\ l \in SystemTrusted
                       /\ latest[l].by = "bot"
                       /\ latest[l].at >= since}

\* The failure of the diff, which finds no merge base once the base has
\* moved, is lost in its process substitution: the list is empty then.
\* Without an answer about the commit, the time of the event stands in for
\* that of the commit.
Resolve ==
    /\ run.at = "resolve" /\ waiting = {}
    /\ \E files \in {run.event.pull.files, {}},
          since \in {run.event.pull.date, run.event.when} :
           run' = [run EXCEPT !.at = "evaluate", !.files = files,
                              !.trusted = Trusted(run.event.labels, since)]
    /\ UNCHANGED <<pull, present, latest, waiting, report, check, events>>

Evaluate ==
    /\ run.at = "evaluate"
    /\ run' = [run EXCEPT !.at = "reconcile"]
    /\ report' = Evaluated([run.event.pull EXCEPT !.files = run.files],
                           run.trusted)
    /\ UNCHANGED <<pull, present, latest, waiting, check, events>>

EvaluatorRaises ==
    /\ run.at = "evaluate"
    /\ run' = [run EXCEPT !.at = "reconcile", !.failed = TRUE]
    /\ report' = Broken
    /\ UNCHANGED <<pull, present, latest, waiting, check, events>>

\* Defect: labels that are not desired any more stay.
ReconcileAddingOnly ==
    /\ run.at = "reconcile"
    /\ run' = [run EXCEPT !.at = "conclude"]
    /\ present' = present \cup (report.labels \ run.event.labels)
    /\ UNCHANGED <<pull, latest, waiting, report, check, events>>

\* Only labels of pull requests of the repository; from the labels that the
\* event carried; "required" first, until a call fails.
Reconcile ==
    /\ run.at = "reconcile"
    /\ \E dealt \in {{}, {"required"}, Governance} :
           LET added == dealt \cap (report.labels \ run.event.labels)
               gone == dealt \cap (run.event.labels \ report.labels)
           IN  /\ run.event.pull.kind = "fork" => dealt = Governance
               /\ present' = IF run.event.pull.kind = "fork" THEN present
                             ELSE (present \ gone) \cup added
               /\ run' = [run EXCEPT !.at = "conclude",
                              !.failed = run.failed \/ dealt # Governance]
    /\ UNCHANGED <<pull, latest, waiting, report, check, events>>

\* The run has ended.  If it was cancelled the next one starts, and its
\* conclusion is of no interest.
Ends(conclusion) ==
    \/ /\ waiting = {}
       /\ run' = [run EXCEPT !.at = "done"]
       /\ check' = conclusion
       /\ UNCHANGED waiting
    \/ /\ \E event \in waiting : run' = Started(event, TRUE)
       /\ waiting' = {}
       /\ UNCHANGED check

Conclusion ==
    IF run.failed THEN "error"
    ELSE IF report.block THEN "blocked" ELSE "success"

\* ready-for-deploy is taken off unless the decision is "pass", but if that
\* fails it stays; it is set if the CI runs of the head are green.
MarkReady ==
    \/ UNCHANGED present
    \/ /\ run.event.pull.kind # "fork" /\ report.decision # "pass"
       /\ present' = present \ {"ready"}
    \/ /\ run.event.pull.kind # "fork" /\ report.decision = "pass"
       /\ "ready" \notin run.event.labels
       /\ present' = present \cup {"ready"}

Conclude ==
    /\ run.at = "conclude"
    /\ MarkReady
    /\ Ends(Conclusion)
    /\ UNCHANGED <<pull, latest, report, events>>

\* A step fails and nothing follows it, for want of a report or after the
\* last label; or the run is stopped in it, loses its runner or its time.
RunDies ==
    /\ run.at # "done"
    /\ Ends("error")
    /\ UNCHANGED <<pull, present, latest, report, events>>

RunStep ==
    Resolve \/ Evaluate \/ EvaluatorRaises \/ Reconcile \/ Conclude \/ RunDies

Next == HumanStep \/ BotStep \/ RunStep

Spec == Init /\ [][Next]_vars

(***************************************************************************)
(* Properties.                                                             *)
(***************************************************************************)

\* What opens the gate of a pull request, by the workflow's own lights: a
\* validation counts from the date of the commit on, not from its push.
Gated(p) ==
    \/ "skip" \in present /\ latest["skip"].by = "owner"
    \/ latest["validated"].by = "bot" /\ latest["validated"].at >= p.date

\* A critical change passes the check only with the owner's waiver or a
\* validation not older than its commit, or in a run that resolved no files:
\* over every order of label events, pushes, drafts, cancelled and dying
\* runs.  So whoever finds files in the report may trust the check, if the
\* head was pushed when it was committed.
SuccessMeansGated ==
    check = "success" /\ Required(pull) /\ report.files # {} => Gated(pull)

\* Labels are written from those the event carried.  Still, after a run that
\* cancelled none and did not fail, sandbox-required says of a pull request
\* of the repository whether its present state is critical, unless the files
\* were not resolved, whatever earlier runs have left.
LabelsTellTheCheck ==
    run.at = "done" /\ ~run.waited /\ check # "error"
        /\ pull.kind = "own" /\ ~pull.draft
    => ("required" \in present <=> Required(pull) /\ report.files # {})

(***************************************************************************)
(* What the documents say and the workflow does not do: each of these is   *)
(* violated.                                                               *)
(***************************************************************************)

\* docs/sandbox-decision-matrix.md:13: critical changes block merge until
\* validation or a waiver, whatever becomes of a run on the way.
CriticalChangesBlock ==
    check = "success" /\ Required(pull) => Gated(pull)

\* docs/sandbox-policy.md:30: a system label is valid only when it was added
\* for the current head, also when that was committed before it was pushed.
ValidationIsForHead ==
    check = "success" /\ Required(pull) /\ report.mode = "sandbox_validated"
    => latest["validated"].at >= pull.pushed

\* docs/sandbox-decision-matrix.md:13: critical changes get the label
\* sandbox-required, also when a run was cancelled for theirs.
CriticalChangesAreLabelled ==
    run.at = "done" /\ check # "error" /\ Required(pull) /\ report.files # {}
    => "required" \in present

(***************************************************************************)
(* A fact about the evaluator, for SandboxPolicyProofs.                    *)
(***************************************************************************)

\* The three answers of a report, computed one by one, agree: it fails what
\* it blocks, and gives no waiver or recommendation as the mode of a block.
ReportAgrees ==
    /\ report.decision = "fail" <=> report.block
    /\ report.block => report.mode \in {"sandbox_required",
                                        "sandbox_deploy_requested"}
    /\ "required" \in report.labels /\ report.decision = "pass"
       => report.mode \in {"sandbox_validated", "sandbox_waived"}

=============================================================================
