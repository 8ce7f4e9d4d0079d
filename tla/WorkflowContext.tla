--------------------------- MODULE WorkflowContext ---------------------------
(***************************************************************************)
(* scripts/resolve_workflow_context.py: from the inputs of a workflow run  *)
(* it derives the identity of an environment, the name of its cluster and  *)
(* the key of its Terraform state, or refuses the run.                     *)
(*                                                                         *)
(* Around it are the lanes whose runs call it: the automatic pull request  *)
(* lane, the DevOps verify lane, and the manual dispatches of the          *)
(* infrastructure and of the bootstrap workflow.  What a run builds is a   *)
(* stack: its resources are recorded under the state key and carry the     *)
(* cluster's name, by which the orphan clean-up of a destroy finds them.   *)
(*                                                                         *)
(* A login stands for its slug (at most 24 characters); names are compared *)
(* and cut, so a slug has a length, a stem (its first 16 characters) and,  *)
(* with a branch, a digest of six characters.                              *)
(***************************************************************************)
EXTENDS Integers, Sequences, FiniteSets

CONSTANTS
    Owners,         \* logins
    Admin,          \* the owner of a run that names none
    Devops,         \* devops/* branches
    Features,       \* other branches
    Default,        \* the default branch
    SlugLength,     \* of each owner
    Stem,           \* of each owner
    Digest,         \* of each owner and branch
    PrefixLength,   \* of SANDBOX_EKS_CLUSTER_PREFIX
    Lanes,          \* the lanes that are used
    MaxPulls,       \* bound: pull requests that are opened
    MaxRuns         \* bound: runs under way at a time

Branches == Devops \cup Features \cup {Default}
AllOwners == Owners \cup {Admin}

ASSUME OwnerAssumption ==
    /\ SlugLength \in [AllOwners -> 1..24]
    /\ \A o \in AllOwners : Digest[o] \in [Branches -> Seq(Nat)]
    /\ \A o \in AllOwners, b \in Branches : Len(Digest[o][b]) = 6
ASSUME LaneAssumption == Lanes \subseteq {"pull", "verify", "rescue", "manual"}
ASSUME BoundAssumption ==
    MaxPulls \in Nat /\ MaxRuns \in Nat /\ PrefixLength \in Nat

VARIABLES
    pulls,          \* every pull request ever opened: branch, user, open
    runs,           \* the runs under way
    stacks          \* what applies have built

vars == <<pulls, runs, stacks>>

Lower(a, b) == IF a < b THEN a ELSE b
Higher(a, b) == IF a < b THEN b ELSE a

(***************************************************************************)
(* Sandbox identities.                                                     *)
(***************************************************************************)
PullKey(n) == [kind |-> "pr", number |-> n]
AdminKey(o, b) == [kind |-> "admin", owner |-> o, branch |-> b]
SharedKey(e) == [kind |-> "shared", environment |-> e]

OpenPullsOf(ref) == {n \in DOMAIN pulls : pulls[n].open /\ pulls[n].branch = ref}

\* A run as its workflow calls the script; number 0 is no number.
Unnumbered(r) == r.number = 0

\* Defect: the number of a closed pull request is refused.
SandboxIdentityOfOpen(r) ==
    CASE ~Unnumbered(r) -> IF pulls[r.number].open THEN {PullKey(r.number)} ELSE {}
      [] Unnumbered(r) /\ r.ref \in Devops -> {AdminKey(r.owner, r.ref)}
      [] OTHER -> IF Cardinality(OpenPullsOf(r.ref)) = 1
                  THEN {PullKey(n) : n \in OpenPullsOf(r.ref)}
                  ELSE {}

\* resolve_sandbox_identity: the number, the devops branch, or the one open
\* pull request of the branch; otherwise the run is refused.
SandboxIdentity(r) ==
    CASE ~Unnumbered(r) -> {PullKey(r.number)}
      [] Unnumbered(r) /\ r.ref \in Devops -> {AdminKey(r.owner, r.ref)}
      [] OTHER -> IF Cardinality(OpenPullsOf(r.ref)) = 1
                  THEN {PullKey(n) : n \in OpenPullsOf(r.ref)}
                  ELSE {}

\* Defect: the name of a sandbox's cluster may be given by hand.
SandboxAcceptsOverride(r) == r.ref # Default

\* A sandbox is not run from the default branch or under another name.
SandboxAccepts(r) == r.ref # Default /\ ~r.overridden

\* Defect: shared environments can be destroyed.
SharedAcceptsAnyAction(r) ==
    /\ r.ref = Default \/ (r.environment = "production" /\ r.released)
    /\ ~r.overridden

SharedAccepts(r) ==
    /\ r.ref = Default \/ (r.environment = "production" /\ r.released)
    /\ r.action \in {"apply", "bootstrap"}
    /\ ~r.overridden

\* The identities of a run: none when it is refused, otherwise one.
Identity(r) ==
    IF r.environment = "sandbox"
    THEN IF SandboxAccepts(r) THEN SandboxIdentity(r) ELSE {}
    ELSE IF SharedAccepts(r) THEN {SharedKey(r.environment)} ELSE {}

(***************************************************************************)
(* Cluster names: 29 characters for a prefix, a dash and the sandbox key.  *)
(* The prefix keeps at least 6, and the name is cut at its end.            *)
(***************************************************************************)
StemLength(o) == Lower(16, SlugLength[o])
AdminKeyLength(o) == 6 + StemLength(o) + 1 + 6          \* admin-<stem>-<digest>
KeyRoom(length) == 28 - Lower(PrefixLength, Higher(6, 28 - length))

\* Defect: names are cut to 20 characters.
DigestKeptOf20(o) ==
    Lower(6, Higher(0, 6 + KeyRoom(AdminKeyLength(o)) - 9 - AdminKeyLength(o)))

\* What is left of the digest.
DigestKept(o) ==
    Lower(6, Higher(0, 6 + KeyRoom(AdminKeyLength(o)) - AdminKeyLength(o)))

ClusterName(key) ==
    IF key.kind = "admin"
    THEN [kind |-> "admin", stem |-> Stem[key.owner],
          digest |-> SubSeq(Digest[key.owner][key.branch], 1, DigestKept(key.owner))]
    ELSE key

\* A run takes the name it is given.
ClusterOf(r, key) ==
    IF r.overridden THEN [kind |-> "override"] ELSE ClusterName(key)

\* The state key names owner and branch in full.
StateKey(key) ==
    IF key.kind = "admin"
    THEN [kind |-> "admin", owner |-> key.owner, branch |-> key.branch,
          digest |-> Digest[key.owner][key.branch]]
    ELSE key

(***************************************************************************)
(* The lanes.                                                              *)
(***************************************************************************)

\* A run that another workflow calls: nothing is overridden.
CalledRun(a, n, o, ref) ==
    [environment |-> "sandbox", action |-> a, number |-> n, owner |-> o,
     ref |-> ref, called |-> TRUE, overridden |-> FALSE, released |-> FALSE]

\* A run that a person dispatches.
Dispatch(e, a, n, o, ref, overridden, released) ==
    [environment |-> e, action |-> a, number |-> n, owner |-> o, ref |-> ref,
     called |-> FALSE, overridden |-> overridden, released |-> released]

Actions == {"apply", "destroy", "bootstrap"}

\* Sandbox Auto Apply, Sandbox Auto Destroy and the janitor.
PullRuns ==
    {CalledRun(a, n, pulls[n].user, pulls[n].branch) :
        a \in Actions, n \in DOMAIN pulls}

\* Sandbox DevOps Verify, for a devops branch with exactly one open pull.
VerifyRuns ==
    {CalledRun(a, 0, o, b) : a \in Actions, o \in Owners,
        b \in {d \in Devops : Cardinality(OpenPullsOf(d)) = 1}}

\* Dispatches of infrastructure.yml, which names the actor as the owner.
\* They run from the default branch, for a source ref, or a devops branch.
RescueRuns ==
    {Dispatch(e, a, n, o, b, FALSE, t) :
        e \in {"sandbox", "staging", "production"}, a \in {"apply", "destroy"},
        n \in {0} \cup DOMAIN pulls, o \in Owners, b \in Branches, t \in BOOLEAN}

\* Dispatches of app-cd.yml, whose owner is an input that may be empty.
ManualBootstraps ==
    {Dispatch(e, "bootstrap", n, o, b, v, FALSE) :
        e \in {"sandbox", "staging", "production"},
        n \in {0} \cup DOMAIN pulls, o \in AllOwners, b \in Branches,
        v \in BOOLEAN}

Requests ==
    (IF "pull" \in Lanes THEN PullRuns ELSE {})
    \cup (IF "verify" \in Lanes THEN VerifyRuns ELSE {})
    \cup (IF "rescue" \in Lanes THEN RescueRuns ELSE {})
    \cup (IF "manual" \in Lanes THEN ManualBootstraps ELSE {})

\* Defect: an apply and a destroy are not queued behind each other.
GroupByAction(r) ==
    CASE r.environment # "sandbox" -> <<r.environment>>
      [] r.environment = "sandbox" /\ ~Unnumbered(r) -> <<r.action, r.number>>
      [] OTHER -> <<r.action, r.owner, r.ref>>

\* The concurrency group of infrastructure.yml; a dispatch has no
\* owner_login, and "admin" takes its place.
Group(r) ==
    CASE r.environment # "sandbox" -> <<r.environment>>
      [] r.environment = "sandbox" /\ ~Unnumbered(r) -> <<"sandbox", r.number>>
      [] OTHER -> <<"sandbox", IF r.called THEN r.owner ELSE Admin, r.ref>>

(***************************************************************************)
(* Behaviour.                                                              *)
(***************************************************************************)
Init ==
    /\ pulls = <<>>
    /\ runs = {}
    /\ stacks = {}

OpenPull(b, o) ==
    /\ Len(pulls) < MaxPulls
    /\ pulls' = Append(pulls, [branch |-> b, user |-> o, open |-> TRUE])
    /\ UNCHANGED <<runs, stacks>>

ClosePull(n) ==
    /\ pulls[n].open
    /\ pulls' = [pulls EXCEPT ![n].open = FALSE]
    /\ UNCHANGED <<runs, stacks>>

Begun(r, key) ==
    [action |-> r.action, called |-> r.called, group |-> Group(r),
     state |-> StateKey(key), cluster |-> ClusterOf(r, key)]

\* A run waits for the run under way in its group.  A bootstrap has none.
Begin(r) ==
    /\ r.action # "bootstrap" =>
            \A x \in runs : x.action # "bootstrap" => x.group # Group(r)
    /\ \E key \in Identity(r) : runs' = runs \cup {Begun(r, key)}
    /\ UNCHANGED <<pulls, stacks>>

Apply(x) ==
    /\ x \in runs /\ x.action = "apply"
    /\ stacks' = stacks \cup {[state |-> x.state, cluster |-> x.cluster]}
    /\ runs' = runs \ {x}
    /\ UNCHANGED pulls

\* terraform destroy goes by the state, the orphan clean-up by the name or
\* by the sandbox key, which holds the whole digest and adds nothing.
Destroy(x) ==
    /\ x \in runs /\ x.action = "destroy"
    /\ stacks' = {s \in stacks : s.state # x.state /\ s.cluster # x.cluster}
    /\ runs' = runs \ {x}
    /\ UNCHANGED pulls

\* A bootstrap changes what runs in the cluster; a run may also fail.
EndRun(x) ==
    /\ x \in runs
    /\ runs' = runs \ {x}
    /\ UNCHANGED <<pulls, stacks>>

Next ==
    \/ \E b \in Branches \ {Default}, o \in Owners : OpenPull(b, o)
    \/ \E n \in DOMAIN pulls : ClosePull(n)
    \/ Cardinality(runs) < MaxRuns /\ \E r \in Requests : Begin(r)
    \/ \E x \in runs : Apply(x) \/ Destroy(x) \/ EndRun(x)

Spec == Init /\ [][Next]_vars

(***************************************************************************)
(* Properties.                                                             *)
(***************************************************************************)
TypeOK ==
    /\ pulls \in Seq([branch : Branches \ {Default}, user : Owners, open : BOOLEAN])
    /\ Len(pulls) <= MaxPulls
    /\ \A x \in runs : x.action \in Actions
    /\ \A x, y \in runs :
            /\ x.action # "bootstrap" /\ y.action # "bootstrap"
            /\ x.group = y.group
            => x = y

\* A destroy, which looks for its resources by the cluster's name too,
\* removes nothing of a stack that is recorded under another state key.
DestroysOnlyItsOwn ==
    [][\A s \in stacks \ stacks' :
            \E x \in runs : x.action = "destroy" /\ x.state = s.state]_vars

\* No lane takes a shared environment down: the script refuses every destroy
\* of one, and no other destroy reaches it.  README.md:190 wants the contrary
\* of people's dispatches, see SharedCanBeDestroyed.
SharedStaysUp ==
    [][\A s \in stacks : s.state.kind = "shared" => s \in stacks']_vars

\* Whatever the lane, the mode, the owner and the inputs: runs with one
\* state key address one cluster, so that a bootstrap meets what was applied.
StateNamesOneCluster ==
    \A x, y \in stacks \cup runs : x.state = y.state => x.cluster = y.cluster

\* Whatever became of its pull requests, there is a destroy, of somebody,
\* that is accepted and addresses it.
NoStackIsStranded ==
    \A s \in stacks : runs = {} /\ s.state.kind # "shared" =>
        \E r \in Requests : r.action = "destroy"
                            /\ \E key \in Identity(r) : StateKey(key) = s.state

\* README.md:184-191 has staging or production created by a dispatch and
\* taken down by one when the day is over.  The script refuses the latter:
\* this is violated, and states where the code and that document differ.
SharedCanBeDestroyed ==
    \A s \in stacks : runs = {} /\ s.state.kind = "shared" =>
        \E r \in Requests : r.action = "destroy"
                            /\ \E key \in Identity(r) : StateKey(key) = s.state

\* Two runs of the automatic lanes that change one Terraform state are never
\* under way together, although they are queued by their inputs and not by
\* the state that the script makes of them.
OneRunPerState ==
    \A x, y \in runs :
        /\ x.called /\ x.action # "bootstrap"
        /\ y.called /\ y.action # "bootstrap"
        /\ x.state = y.state
        => x = y
=============================================================================
