----------------------- MODULE WorkflowContextProofs -----------------------
(***************************************************************************)
(* Proofs about WorkflowContext for any owners and branches, any lanes and *)
(* any number of pull requests and runs.                                   *)
(***************************************************************************)
EXTENDS WorkflowContext, SequenceTheorems, TLAPS

SandboxKeys == {PullKey(n) : n \in Nat}
               \cup {AdminKey(o, b) : o \in AllOwners, b \in Devops}
SharedKeys == {SharedKey(e) : e \in {"staging", "production"}}
Keys == SandboxKeys \cup SharedKeys

States == {StateKey(key) : key \in Keys}

(***************************************************************************)
(* The inductive invariant.  A state key determines the name of its        *)
(* cluster: ClusterName reads of a state key what it reads of the sandbox  *)
(* key the state key was made from.                                        *)
(***************************************************************************)
Addressed(x) == x.state \in States /\ x.cluster = ClusterName(x.state)

\* The group of the runs that other workflows call, read off the state key.
QueueOf(state) ==
    IF state.kind = "pr" THEN <<"sandbox", state.number>>
                         ELSE <<"sandbox", state.owner, state.branch>>

PullsOK ==
    /\ pulls \in Seq([branch : Branches \ {Default}, user : Owners, open : BOOLEAN])
    /\ Len(pulls) <= MaxPulls

Queued ==
    \A x, y \in runs :
        /\ x.action # "bootstrap" /\ y.action # "bootstrap"
        /\ x.group = y.group
        => x = y

ContextInv ==
    /\ PullsOK
    /\ Queued
    /\ \A x \in runs : /\ x.action \in Actions
                       /\ Addressed(x)
                       /\ x.action = "destroy" => x.state.kind # "shared"
                       /\ x.called => x.group = QueueOf(x.state)
    /\ \A s \in stacks : Addressed(s)

(***************************************************************************)
(* Keys.                                                                   *)
(***************************************************************************)

LEMMA KeyCases ==
    ASSUME NEW key \in Keys
    PROVE  \/ \E n \in Nat : key = [kind |-> "pr", number |-> n]
           \/ \E o \in AllOwners, b \in Devops :
                 key = [kind |-> "admin", owner |-> o, branch |-> b]
           \/ \E e \in {"staging", "production"} :
                 key = [kind |-> "shared", environment |-> e]
BY DEF Keys, SandboxKeys, SharedKeys, PullKey, AdminKey, SharedKey

\* The state key says of which kind the key was and what its cluster is.
LEMMA StateTellsCluster ==
    ASSUME NEW key \in Keys
    PROVE  /\ StateKey(key).kind = key.kind
           /\ ClusterName(StateKey(key)) = ClusterName(key)
           /\ ClusterName(key).kind = key.kind
<1>1. CASE \E n \in Nat : key = [kind |-> "pr", number |-> n]
  BY <1>1 DEF StateKey, ClusterName
<1>2. CASE \E o \in AllOwners, b \in Devops :
              key = [kind |-> "admin", owner |-> o, branch |-> b]
  BY <1>2 DEF StateKey, ClusterName
<1>3. CASE \E e \in {"staging", "production"} :
              key = [kind |-> "shared", environment |-> e]
  BY <1>3 DEF StateKey, ClusterName
<1>4. QED
  BY <1>1, <1>2, <1>3, KeyCases

LEMMA ClusterKind ==
    ASSUME NEW s \in States
    PROVE  ClusterName(s).kind = s.kind
BY StateTellsCluster DEF States

(***************************************************************************)
(* Requests: what they ask for and what they are given.                    *)
(***************************************************************************)
LEMMA RequestShape ==
    ASSUME PullsOK, NEW r \in Requests
    PROVE  /\ r.action \in Actions
           /\ r.owner \in AllOwners
           /\ r.number \in {0} \cup DOMAIN pulls
           /\ r.environment \in {"sandbox", "staging", "production"}
           /\ r.called /\ ~Unnumbered(r) => r.environment = "sandbox"
           /\ r.called /\ Unnumbered(r) =>
                 r.environment = "sandbox" /\ r.ref \in Devops
<1> USE DEF CalledRun, Unnumbered, Dispatch, Actions, AllOwners
<1>1. CASE r \in PullRuns
  <2>1. PICK a \in Actions, n \in DOMAIN pulls :
            r = CalledRun(a, n, pulls[n].user, pulls[n].branch)
    BY <1>1 DEF PullRuns
  <2> DEFINE Pull == [branch : Branches \ {Default}, user : Owners, open : BOOLEAN]
  <2>2. pulls \in Seq(Pull)
    BY DEF PullsOK
  <2>3. n \in 1..Len(pulls)
    BY <2>2, LenProperties
  <2> HIDE DEF Pull
  <2>4. pulls[n] \in Pull
    BY <2>2, <2>3, ElementOfSeq
  <2>5. pulls[n].user \in Owners /\ n # 0
    BY <2>3, <2>4 DEF Pull
  <2>6. QED
    BY <2>1, <2>5
<1>2. CASE r \in VerifyRuns
  BY <1>2 DEF VerifyRuns
<1>3. CASE r \in RescueRuns
  <2>1. PICK e \in {"sandbox", "staging", "production"}, a \in {"apply", "destroy"},
             n \in {0} \cup DOMAIN pulls, o \in Owners, b \in Branches, t \in BOOLEAN :
            r = Dispatch(e, a, n, o, b, FALSE, t)
    BY <1>3 DEF RescueRuns
  <2>2. QED
    BY <2>1
<1>4. CASE r \in ManualBootstraps
  <2>1. PICK e \in {"sandbox", "staging", "production"},
             n \in {0} \cup DOMAIN pulls, o \in AllOwners, b \in Branches,
             v \in BOOLEAN :
            r = Dispatch(e, "bootstrap", n, o, b, v, FALSE)
    BY <1>4 DEF ManualBootstraps
  <2>2. QED
    BY <2>1
<1>5. QED
  BY <1>1, <1>2, <1>3, <1>4 DEF Requests

\* A run that is not refused gets a key, of a shared environment only to
\* apply or to bootstrap it, and its cluster's name is not given by hand.
LEMMA Granted ==
    ASSUME PullsOK, NEW r \in Requests, NEW key \in Identity(r)
    PROVE  /\ key \in Keys
           /\ ClusterOf(r, key) = ClusterName(key)
           /\ r.action = "destroy" => key.kind # "shared"
           /\ r.called => Group(r) = QueueOf(StateKey(key))
<1>1. CASE r.environment = "sandbox"
  <2>1. key \in SandboxIdentity(r) /\ ~r.overridden
    BY <1>1 DEF Identity, SandboxAccepts
  <2>2. r.number \in Nat
    BY RequestShape, LenProperties DEF PullsOK
  <2>3. CASE ~Unnumbered(r)
    <3>1. key = [kind |-> "pr", number |-> r.number]
      BY <2>1, <2>3 DEF SandboxIdentity, PullKey
    <3>2. key \in Keys /\ ClusterOf(r, key) = ClusterName(key)
      BY <2>1, <2>2, <3>1 DEF Keys, SandboxKeys, PullKey, ClusterOf
    <3>3. Group(r) = QueueOf(StateKey(key))
      BY <1>1, <2>3, <3>1 DEF Group, QueueOf, StateKey
    <3>4. QED
      BY <3>1, <3>2, <3>3
  <2>4. CASE Unnumbered(r) /\ r.ref \in Devops
    <3>1. key = [kind |-> "admin", owner |-> r.owner, branch |-> r.ref]
      BY <2>1, <2>4 DEF SandboxIdentity, AdminKey
    <3>2. key \in Keys /\ ClusterOf(r, key) = ClusterName(key)
      BY <2>1, <2>4, <3>1, RequestShape
         DEF Keys, SandboxKeys, AdminKey, ClusterOf
    <3>3. r.called => Group(r) = QueueOf(StateKey(key))
      BY <1>1, <2>4, <3>1 DEF Group, QueueOf, StateKey
    <3>4. QED
      BY <3>1, <3>2, <3>3
  <2>5. CASE Unnumbered(r) /\ r.ref \notin Devops
    <3>1. PICK n \in OpenPullsOf(r.ref) : key = PullKey(n)
      BY <2>1, <2>5 DEF SandboxIdentity
    <3>2. n \in Nat
      BY LenProperties DEF OpenPullsOf, PullsOK
    <3>3. ~r.called
      BY <2>5, RequestShape
    <3>4. QED
      BY <2>1, <3>1, <3>2, <3>3
         DEF Keys, SandboxKeys, PullKey, ClusterOf
  <2>6. QED
    BY <2>3, <2>4, <2>5
<1>2. CASE r.environment # "sandbox"
  <2>1. SharedAccepts(r) /\ key = SharedKey(r.environment)
    BY <1>2 DEF Identity
  <2>2. r.environment \in {"staging", "production"} /\ ~r.called
    BY <1>2, RequestShape
  <2>3. QED
    BY <2>1, <2>2 DEF SharedAccepts, Keys, SharedKeys, SharedKey, ClusterOf
<1>3. QED
  BY <1>1, <1>2

(***************************************************************************)
(* Invariance.                                                             *)
(***************************************************************************)
LEMMA ContextInit == Init => ContextInv
BY BoundAssumption, EmptySeq DEF Init, ContextInv, PullsOK, Queued

LEMMA ContextStep == ContextInv /\ [Next]_vars => ContextInv'
<1> SUFFICES ASSUME ContextInv, [Next]_vars
             PROVE  ContextInv'
  OBVIOUS
<1> USE DEF ContextInv
<1>1. ASSUME NEW b \in Branches \ {Default}, NEW o \in Owners, OpenPull(b, o)
      PROVE  ContextInv'
  <2>1. PullsOK'
    BY <1>1, BoundAssumption, AppendProperties DEF OpenPull, PullsOK
  <2>2. QED
    BY <1>1, <2>1 DEF OpenPull, Queued, Addressed
<1>2. ASSUME NEW n \in DOMAIN pulls, ClosePull(n)
      PROVE  ContextInv'
  <2> DEFINE Pull == [branch : Branches \ {Default}, user : Owners, open : BOOLEAN]
  <2>1. pulls \in Seq(Pull) /\ n \in 1..Len(pulls)
    BY LenProperties DEF PullsOK
  <2>2. pulls[n] \in Pull
    BY ONLY <2>1, ElementOfSeq
  <2>3. [pulls[n] EXCEPT !.open = FALSE] \in Pull
    BY <2>2
  <2>4. pulls' = [pulls EXCEPT ![n] = [pulls[n] EXCEPT !.open = FALSE]]
    BY <1>2 DEF ClosePull
  <2>5. pulls' \in Seq(Pull) /\ Len(pulls') = Len(pulls)
    BY <2>1, <2>3, <2>4, ExceptSeq
  <2>6. PullsOK'
    BY <2>5 DEF PullsOK
  <2>7. QED
    BY <1>2, <2>6 DEF ClosePull, Queued, Addressed
<1>3. ASSUME NEW r \in Requests, Begin(r)
      PROVE  ContextInv'
  <2>1. PICK key \in Identity(r) : runs' = runs \cup {Begun(r, key)}
    BY <1>3 DEF Begin
  <2> DEFINE new == Begun(r, key)
  <2>2. /\ key \in Keys
        /\ ClusterOf(r, key) = ClusterName(key)
        /\ r.action = "destroy" => key.kind # "shared"
        /\ r.called => Group(r) = QueueOf(StateKey(key))
    BY Granted
  <2>3. /\ new.action \in Actions
        /\ Addressed(new)
        /\ new.action = "destroy" => new.state.kind # "shared"
        /\ new.called => new.group = QueueOf(new.state)
    BY <2>2, RequestShape, StateTellsCluster DEF Begun, Addressed, States
  <2>4. new.action # "bootstrap" =>
            \A x \in runs : x.action # "bootstrap" => x.group # new.group
    BY <1>3 DEF Begin, Begun
  <2>5. Queued'
    BY <2>1, <2>4 DEF Queued
  <2>6. QED
    BY <1>3, <2>1, <2>3, <2>5 DEF Begin, PullsOK, Addressed
<1>4. ASSUME NEW x \in runs, Apply(x)
      PROVE  ContextInv'
  <2>1. Addressed([state |-> x.state, cluster |-> x.cluster])
    BY DEF Addressed
  <2>2. QED
    BY <1>4, <2>1 DEF Apply, PullsOK, Queued, Addressed
<1>5. ASSUME NEW x \in runs, Destroy(x)
      PROVE  ContextInv'
  BY <1>5 DEF Destroy, PullsOK, Queued, Addressed
<1>6. ASSUME NEW x \in runs, EndRun(x)
      PROVE  ContextInv'
  BY <1>6 DEF EndRun, PullsOK, Queued, Addressed
<1>7. CASE UNCHANGED vars
  BY <1>7 DEF vars, PullsOK, Queued, Addressed
<1>8. QED
  BY <1>1, <1>2, <1>3, <1>4, <1>5, <1>6, <1>7 DEF Next

LEMMA ContextInvariant == Spec => []ContextInv
BY ContextInit, ContextStep, PTL DEF Spec

\* Pull requests, runs and queues keep their types, with any lanes.
THEOREM ContextTypeCorrect == Spec => []TypeOK
<1>1. ContextInv => TypeOK
  BY DEF ContextInv, PullsOK, Queued, TypeOK
<1>2. QED
  BY ContextInvariant, <1>1, PTL

\* Whatever lane, mode, owner and inputs they have: runs and stacks with one
\* state key have one cluster.
THEOREM OneClusterPerState == Spec => []StateNamesOneCluster
<1>1. ContextInv => StateNamesOneCluster
  BY DEF ContextInv, Addressed, StateNamesOneCluster
<1>2. QED
  BY ContextInvariant, <1>1, PTL

\* The automatic lanes never have two runs under way that change one
\* Terraform state: the group of each can be read off the state it changes.
THEOREM RunsAreQueuedByState == Spec => []OneRunPerState
<1>1. ContextInv => OneRunPerState
  BY DEF ContextInv, Queued, OneRunPerState
<1>2. QED
  BY ContextInvariant, <1>1, PTL

\* No run of any lane takes away what was built for staging or production:
\* neither by its state key nor by the name of its cluster.
THEOREM SharedSafety == Spec => SharedStaysUp
<1>1. ContextInv /\ [Next]_vars
        => [\A s \in stacks : s.state.kind = "shared" => s \in stacks']_vars
  <2> SUFFICES ASSUME ContextInv, Next,
                      NEW s \in stacks, s.state.kind = "shared"
               PROVE  s \in stacks'
    OBVIOUS
  <2>1. ASSUME NEW b \in Branches, NEW o \in Owners, OpenPull(b, o)
        PROVE  s \in stacks'
    BY <2>1 DEF OpenPull
  <2>2. ASSUME NEW n \in DOMAIN pulls, ClosePull(n)
        PROVE  s \in stacks'
    BY <2>2 DEF ClosePull
  <2>3. ASSUME NEW r \in Requests, Begin(r)
        PROVE  s \in stacks'
    BY <2>3 DEF Begin
  <2>4. ASSUME NEW x \in runs, Apply(x) \/ EndRun(x)
        PROVE  s \in stacks'
    BY <2>4 DEF Apply, EndRun
  <2>5. ASSUME NEW x \in runs, Destroy(x)
        PROVE  s \in stacks'
    <3>1. x.state.kind # "shared" /\ Addressed(x) /\ Addressed(s)
      BY <2>5 DEF Destroy, ContextInv
    <3>2. x.cluster.kind # "shared" /\ s.cluster.kind = "shared"
      BY <3>1, ClusterKind DEF Addressed
    <3>3. QED
      BY <2>5, <3>1, <3>2 DEF Destroy
  <2>6. QED
    BY <2>1, <2>2, <2>3, <2>4, <2>5 DEF Next
<1>2. QED
  BY ContextInvariant, <1>1, PTL DEF Spec, SharedStaysUp

(***************************************************************************)
(* A destroy also looks for its resources by the name of the cluster.      *)
(* Names of different sandboxes differ if what they keep of stem and       *)
(* digest does.  With logins of at most 9 characters they keep all of it.  *)
(***************************************************************************)
KeptDigest(o, b) == SubSeq(Digest[o][b], 1, DigestKept(o))

NamesDiffer ==
    \A o, p \in AllOwners, b, c \in Devops :
        Stem[o] = Stem[p] /\ KeptDigest(o, b) = KeptDigest(p, c) => o = p /\ b = c

LEMMA NamesApart ==
    ASSUME NamesDiffer, NEW s \in States, NEW t \in States,
           ClusterName(s) = ClusterName(t)
    PROVE  s = t
<1>1. s.kind = t.kind
  BY ClusterKind
<1>2. CASE s.kind # "admin"
  BY <1>1, <1>2 DEF ClusterName
<1>3. CASE s.kind = "admin"
  <2>1. ASSUME NEW u \in States, u.kind = "admin"
        PROVE  \E o \in AllOwners, b \in Devops :
                  /\ u = StateKey(AdminKey(o, b))
                  /\ ClusterName(u).stem = Stem[o]
                  /\ ClusterName(u).digest = KeptDigest(o, b)
    <3>1. PICK key \in Keys : u = StateKey(key)
      BY DEF States
    <3>2. PICK o \in AllOwners, b \in Devops : key = AdminKey(o, b)
      BY <2>1, <3>1, StateTellsCluster, KeyCases DEF AdminKey
    <3>3. ClusterName(u).stem = Stem[o] /\ ClusterName(u).digest = KeptDigest(o, b)
      BY <2>1, <3>1, <3>2, StateTellsCluster DEF ClusterName, AdminKey, KeptDigest
    <3>4. QED
      BY <3>1, <3>2, <3>3
  <2>2. PICK o \in AllOwners, b \in Devops :
            /\ s = StateKey(AdminKey(o, b))
            /\ ClusterName(s).stem = Stem[o]
            /\ ClusterName(s).digest = KeptDigest(o, b)
    BY <1>3, <2>1
  <2>3. PICK p \in AllOwners, c \in Devops :
            /\ t = StateKey(AdminKey(p, c))
            /\ ClusterName(t).stem = Stem[p]
            /\ ClusterName(t).digest = KeptDigest(p, c)
    BY <1>1, <1>3, <2>1
  <2>4. o = p /\ b = c
    BY <2>2, <2>3 DEF NamesDiffer
  <2>5. QED
    BY <2>2, <2>3, <2>4
<1>4. QED
  BY <1>2, <1>3

\* A destroy removes nothing of a stack that is recorded under another state
\* key, although it looks for clusters by name, as long as no two owners and
\* branches have names that keep the same.
THEOREM DestroysAreConfined ==
    ASSUME NamesDiffer
    PROVE  Spec => DestroysOnlyItsOwn
<1>1. ContextInv /\ [Next]_vars
        => [\A s \in stacks \ stacks' :
              \E x \in runs : x.action = "destroy" /\ x.state = s.state]_vars
  <2> SUFFICES ASSUME ContextInv, Next, NEW s \in stacks \ stacks'
               PROVE  \E x \in runs : x.action = "destroy" /\ x.state = s.state
    OBVIOUS
  <2>1. PICK x \in runs : Destroy(x)
    BY DEF Next, OpenPull, ClosePull, Begin, Apply, EndRun
  <2>2. x.action = "destroy" /\ (s.state = x.state \/ s.cluster = x.cluster)
    BY <2>1 DEF Destroy
  <2>3. Addressed(x) /\ Addressed(s)
    BY DEF ContextInv
  <2>4. s.state = x.state
    BY <2>2, <2>3, NamesApart DEF Addressed
  <2>5. QED
    BY <2>2, <2>4
<1>2. QED
  BY ContextInvariant, <1>1, PTL DEF Spec, DestroysOnlyItsOwn

ShortLogins == \A o \in AllOwners : SlugLength[o] <= 9

DigestsDiffer ==
    \A o, p \in AllOwners, b, c \in Devops :
        Digest[o][b] = Digest[p][c] => o = p /\ b = c

\* Whatever the prefix of the cluster names is.
LEMMA ShortLoginsKeepDigests ==
    ASSUME ShortLogins, NEW o \in AllOwners, NEW b \in Branches
    PROVE  KeptDigest(o, b) = Digest[o][b]
<1>1. SlugLength[o] \in 1..9
  BY OwnerAssumption DEF ShortLogins
<1>2. StemLength(o) = SlugLength[o]
  BY <1>1 DEF StemLength, Lower
<1>3. AdminKeyLength(o) = 13 + SlugLength[o]
  BY <1>1, <1>2 DEF AdminKeyLength
<1>4. KeyRoom(AdminKeyLength(o)) \in Int
      /\ KeyRoom(AdminKeyLength(o)) >= 13 + SlugLength[o]
  BY <1>1, <1>3, BoundAssumption DEF KeyRoom, Lower, Higher
<1>5. DigestKept(o) = 6
  BY <1>1, <1>3, <1>4 DEF DigestKept, Lower, Higher
<1>6. Digest[o][b] \in Seq(Nat) /\ Len(Digest[o][b]) = 6
  BY OwnerAssumption
<1>7. QED
  BY <1>5, <1>6, SubSeqFull DEF KeptDigest

\* So it is with logins of at most nine characters, as long as no two digests
\* in use are the same.
THEOREM ShortLoginsAreConfined ==
    ASSUME ShortLogins, DigestsDiffer
    PROVE  Spec => DestroysOnlyItsOwn
<1>1. NamesDiffer
  BY ShortLoginsKeepDigests DEF NamesDiffer, DigestsDiffer, Branches
<1>2. QED
  BY <1>1, DestroysAreConfined

(***************************************************************************)
(* Every stack can be taken down.  Its state key, and that of an apply     *)
(* that will build it, is of a pull request that was opened, or of an      *)
(* owner whom the rescue lane knows and a branch that it may be run for:   *)
(* the bootstraps, which may name another owner, build nothing.            *)
(***************************************************************************)
Rescuable(state) ==
    \/ state.kind = "shared"
    \/ \E n \in DOMAIN pulls : state = StateKey(PullKey(n))
    \/ \E o \in Owners, b \in Devops \ {Default} :
          state = StateKey(AdminKey(o, b))

RescueInv ==
    /\ \A x \in runs : x.action = "apply" => Rescuable(x.state)
    /\ \A s \in stacks : Rescuable(s.state)

LEMMA AppliesAreRescuable ==
    ASSUME PullsOK, NEW r \in Requests, r.action = "apply",
           NEW key \in Identity(r)
    PROVE  Rescuable(StateKey(key))
<1>1. CASE r.environment = "sandbox"
  <2>1. key \in SandboxIdentity(r) /\ r.ref # Default
    BY <1>1 DEF Identity, SandboxAccepts
  <2>2. r.owner \in Owners \/ ~Unnumbered(r)
    <3>1. CASE r \in PullRuns
      <4>1. PICK a \in Actions, n \in DOMAIN pulls :
                r = CalledRun(a, n, pulls[n].user, pulls[n].branch)
        BY <3>1 DEF PullRuns
      <4>2. n \in 1..Len(pulls) /\ Len(pulls) \in Nat
        BY LenProperties DEF PullsOK
      <4>3. QED
        BY <4>1, <4>2 DEF CalledRun, Unnumbered
    <3>2. CASE r \in VerifyRuns \cup RescueRuns
      BY <3>2 DEF VerifyRuns, RescueRuns, CalledRun, Dispatch
    <3>3. CASE r \in ManualBootstraps
      BY <3>3 DEF ManualBootstraps, Dispatch
    <3>4. QED
      BY <3>1, <3>2, <3>3 DEF Requests
  <2>3. CASE ~Unnumbered(r)
    BY <2>1, <2>3, RequestShape DEF SandboxIdentity, Unnumbered, Rescuable
  <2>4. CASE Unnumbered(r) /\ r.ref \in Devops
    BY <2>1, <2>2, <2>4 DEF SandboxIdentity, Rescuable
  <2>5. CASE Unnumbered(r) /\ r.ref \notin Devops
    BY <2>1, <2>5 DEF SandboxIdentity, OpenPullsOf, Rescuable
  <2>6. QED
    BY <2>3, <2>4, <2>5
<1>2. CASE r.environment # "sandbox"
  BY <1>2 DEF Identity, SharedKey, StateKey, Rescuable
<1>3. QED
  BY <1>1, <1>2

LEMMA RescueStep == ContextInv /\ RescueInv /\ [Next]_vars => RescueInv'
<1> SUFFICES ASSUME ContextInv, RescueInv, [Next]_vars
             PROVE  RescueInv'
  OBVIOUS
<1>0. PullsOK
  BY DEF ContextInv
<1>1. ASSUME NEW b \in Branches \ {Default}, NEW o \in Owners, OpenPull(b, o)
      PROVE  RescueInv'
  <2>1. DOMAIN pulls \subseteq DOMAIN pulls'
    <3>1. pulls' \in Seq([branch : Branches \ {Default}, user : Owners,
                          open : BOOLEAN])
          /\ Len(pulls') = Len(pulls) + 1
      BY <1>0, <1>1, AppendProperties DEF OpenPull, PullsOK
    <3>2. Len(pulls) \in Nat /\ DOMAIN pulls = 1..Len(pulls)
          /\ DOMAIN pulls' = 1..Len(pulls')
      BY <1>0, <3>1, LenProperties DEF PullsOK
    <3>3. QED
      BY <3>1, <3>2
  <2>2. QED
    BY <1>1, <2>1 DEF OpenPull, RescueInv, Rescuable
<1>2. ASSUME NEW n \in DOMAIN pulls, ClosePull(n)
      PROVE  RescueInv'
  <2>1. DOMAIN pulls' = DOMAIN pulls
    BY <1>2 DEF ClosePull
  <2>2. QED
    BY <1>2, <2>1 DEF ClosePull, RescueInv, Rescuable
<1>3. ASSUME NEW r \in Requests, Begin(r)
      PROVE  RescueInv'
  <2>1. PICK key \in Identity(r) : runs' = runs \cup {Begun(r, key)}
    BY <1>3 DEF Begin
  <2>2. r.action = "apply" => Rescuable(StateKey(key))
    BY <1>0, AppliesAreRescuable
  <2>3. Begun(r, key).action = "apply" => Rescuable(Begun(r, key).state)
    BY <2>2 DEF Begun
  <2>4. QED
    BY <1>3, <2>1, <2>3 DEF Begin, RescueInv, Rescuable
<1>4. ASSUME NEW x \in runs, Apply(x) \/ Destroy(x) \/ EndRun(x)
      PROVE  RescueInv'
  BY <1>4 DEF Apply, Destroy, EndRun, RescueInv, Rescuable
<1>5. CASE UNCHANGED vars
  BY <1>5 DEF vars, RescueInv, Rescuable
<1>6. QED
  BY <1>1, <1>2, <1>3, <1>4, <1>5 DEF Next

LEMMA RescueDispatch ==
    ASSUME "rescue" \in Lanes, NEW n \in {0} \cup DOMAIN pulls,
           NEW o \in Owners, NEW b \in Branches
    PROVE  Dispatch("sandbox", "destroy", n, o, b, FALSE, FALSE) \in Requests
<1> DEFINE Environments == {"sandbox", "staging", "production"}
           Two == {"apply", "destroy"}
           Numbers == {0} \cup DOMAIN pulls
           Tags == BOOLEAN
           sandbox == "sandbox"
           destroy == "destroy"
           no == FALSE
           Runs == {Dispatch(e, a, m, p, c, no, t) :
                       e \in Environments, a \in Two, m \in Numbers,
                       p \in Owners, c \in Branches, t \in Tags}
<1>1. sandbox \in Environments /\ destroy \in Two /\ no \in Tags
  OBVIOUS
<1>2. RescueRuns = Runs
  BY DEF RescueRuns
<1>3. n \in Numbers
  OBVIOUS
<1> HIDE DEF Environments, Two, Numbers, Tags, sandbox, destroy, no
<1>4. Dispatch(sandbox, destroy, n, o, b, no, no) \in Runs
  BY <1>1, <1>3, SMT
<1> HIDE DEF Runs
<1>5. Dispatch(sandbox, destroy, n, o, b, no, no) \in RescueRuns
  BY <1>2, <1>4
<1>6. Dispatch("sandbox", "destroy", n, o, b, FALSE, FALSE) \in RescueRuns
  BY <1>5 DEF sandbox, destroy, no
<1>7. QED
  BY <1>6, Zenon DEF Requests

\* Whatever became of its pull requests, the rescue lane has a run that is
\* accepted and destroys it.
LEMMA RescueIsAccepted ==
    ASSUME PullsOK, "rescue" \in Lanes, NEW state, Rescuable(state),
           state.kind # "shared"
    PROVE  \E r \in Requests :
              r.action = "destroy" /\ \E key \in Identity(r) : StateKey(key) = state
<1>1. CASE \E n \in DOMAIN pulls : state = StateKey(PullKey(n))
  <2>1. PICK n \in DOMAIN pulls : state = StateKey(PullKey(n))
    BY <1>1
  <2> DEFINE Pull == [branch : Branches \ {Default}, user : Owners, open : BOOLEAN]
  <2>2. pulls \in Seq(Pull) /\ n \in 1..Len(pulls) /\ Len(pulls) \in Nat
    BY LenProperties DEF PullsOK
  <2>3. pulls[n] \in Pull
    BY ONLY <2>2, ElementOfSeq
  <2> DEFINE r == Dispatch("sandbox", "destroy", n, pulls[n].user,
                           pulls[n].branch, FALSE, FALSE)
  <2>4. r \in Requests
    BY <2>3, RescueDispatch
  <2>5. PullKey(n) \in Identity(r)
    BY <2>2, <2>3 DEF Dispatch, Identity, SandboxAccepts, SandboxIdentity,
                      Unnumbered
  <2>6. r.action = "destroy"
    BY DEF Dispatch
  <2>7. QED
    BY <2>1, <2>4, <2>5, <2>6
<1>2. CASE \E o \in Owners, b \in Devops \ {Default} :
              state = StateKey(AdminKey(o, b))
  <2>1. PICK o \in Owners, b \in Devops \ {Default} :
            state = StateKey(AdminKey(o, b))
    BY <1>2
  <2> DEFINE r == Dispatch("sandbox", "destroy", 0, o, b, FALSE, FALSE)
  <2>2. r \in Requests
    BY RescueDispatch DEF Branches
  <2>3. AdminKey(o, b) \in Identity(r)
    BY DEF Dispatch, Identity, SandboxAccepts, SandboxIdentity, Unnumbered
  <2>4. r.action = "destroy"
    BY DEF Dispatch
  <2>5. QED
    BY <2>1, <2>2, <2>3, <2>4
<1>3. QED
  BY <1>1, <1>2 DEF Rescuable

\* No stack of a sandbox is stranded, with the rescue lane and whichever
\* others are used.
THEOREM StacksCanBeRescued ==
    ASSUME "rescue" \in Lanes
    PROVE  Spec => []NoStackIsStranded
<1>1. Init => RescueInv
  BY DEF Init, RescueInv
<1>2. ContextInv /\ RescueInv => NoStackIsStranded
  BY RescueIsAccepted DEF ContextInv, RescueInv, NoStackIsStranded
<1>3. QED
  BY ContextInvariant, <1>1, RescueStep, <1>2, PTL DEF Spec
=============================================================================
