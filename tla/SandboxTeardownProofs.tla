----------------------- MODULE SandboxTeardownProofs -----------------------
(***************************************************************************)
(* Proofs about SandboxTeardown for any number of failures: its types, and *)
(* that nothing of a sandbox that is marked inactive is left.              *)
(***************************************************************************)
EXTENDS SandboxTeardown, TLAPS

(***************************************************************************)
(* The inductive invariant.  The verification looks at neither groups nor  *)
(* instances, and at volumes only when no instance is left.  That they are *)
(* gone follows from two other facts: Terraform takes the network away     *)
(* only when no instance is in it, and nothing launches one without a      *)
(* network; and a job that gets to its verification has gone through the   *)
(* groups in its first clean-up, and nothing creates those again.          *)
(***************************************************************************)
NetworkHoldsInstances ==
    /\ res["vpc"] # "leaving"
    /\ res["vpc"] = "gone" => Gone({"nodegroup", "instance"})

GroupsPassed ==
    \/ job.phase = "before" /\ job.next > 2
    \/ job.phase = "after" /\ ~job.failed
    \/ job.phase \in {"namespace", "destroy", "retry", "verify", "unmark"}

NothingThere == \A k \in Kinds : res[k] # "there"

TeardownInv ==
    /\ TypeOK
    /\ NetworkHoldsInstances
    /\ GroupsPassed => res["asg"] # "there"
    /\ job.phase = "unmark" => NothingThere
    /\ inactive => job.phase = "idle" /\ NothingThere

LEMMA TheKinds ==
    /\ Len(CleanupOrder) = 8
    /\ CleanupOrder[1] = "nodegroup" /\ CleanupOrder[2] = "asg"
    /\ \A i \in 1..8 : CleanupOrder[i] \in Orphans
    /\ Orphans = {"nodegroup", "asg", "instance", "lb", "volume", "eni",
                  "endpoint", "sg"}
    /\ Kinds = Orphans \cup {"cluster", "vpc"}
<1>1. Len(CleanupOrder) = 8 /\ DOMAIN CleanupOrder = 1..8
  BY DEF CleanupOrder
<1>2. \A i \in 1..8 : i = 1 \/ i = 2 \/ i = 3 \/ i = 4 \/ i = 5 \/ i = 6
                      \/ i = 7 \/ i = 8
  OBVIOUS
<1>3. /\ CleanupOrder[1] = "nodegroup" /\ CleanupOrder[2] = "asg"
      /\ CleanupOrder[3] = "instance" /\ CleanupOrder[4] = "lb"
      /\ CleanupOrder[5] = "volume" /\ CleanupOrder[6] = "eni"
      /\ CleanupOrder[7] = "endpoint" /\ CleanupOrder[8] = "sg"
  BY DEF CleanupOrder
<1>4. Orphans = {CleanupOrder[i] : i \in 1..8}
  BY <1>1 DEF Orphans
<1>5. QED
  BY <1>1, <1>2, <1>3, <1>4 DEF Kinds

(***************************************************************************)
(* Types.                                                                  *)
(***************************************************************************)
JobType == [phase : Phases, next : 1..8, failed : BOOLEAN, again : BOOLEAN]

LEMMA IdleType ==
    /\ Idle \in JobType
    /\ Idle.phase = "idle" /\ Idle.next = 1 /\ Idle.failed = FALSE
BY DEF Idle, JobType, Phases

\* After its last step a clean-up ends the job or goes on with its next one.
LEMMA AdvancedFacts ==
    ASSUME job \in JobType
    PROVE  /\ Advanced \in JobType
           /\ job.next < 8 => Advanced = [job EXCEPT !.next = @ + 1]
           /\ job.next = 8 /\ job.failed => Advanced.phase = "idle"
           /\ job.next = 8 /\ ~job.failed =>
                 Advanced.phase \in IF job.phase = "before" THEN {"namespace"}
                                    ELSE {"retry", "verify"}
<1>1. job.next \in 1..8 /\ job.failed \in BOOLEAN
  BY DEF JobType
<1>2. AfterCleanup \in JobType
  BY IdleType DEF AfterCleanup, JobType, Phases
<1>3. CASE job.next < 8
  <2>1. Advanced = [job EXCEPT !.next = @ + 1]
    BY <1>3, TheKinds DEF Advanced
  <2>2. QED
    BY <1>1, <1>3, <2>1 DEF JobType
<1>4. CASE job.next = 8
  <2>1. Advanced = [AfterCleanup EXCEPT !.next = 1]
    BY <1>4, TheKinds DEF Advanced
  <2>2. Advanced \in JobType /\ Advanced.phase = AfterCleanup.phase
    BY <1>2, <2>1 DEF JobType
  <2>3. job.failed => AfterCleanup.phase = "idle"
    BY IdleType DEF AfterCleanup
  <2>4. ~job.failed =>
           AfterCleanup.phase \in IF job.phase = "before" THEN {"namespace"}
                                  ELSE {"retry", "verify"}
    BY DEF AfterCleanup, JobType
  <2>5. QED
    BY <1>4, <2>2, <2>3, <2>4
<1>5. QED
  BY <1>1, <1>3, <1>4

ResType == [Kinds -> {"there", "leaving", "gone"}]

LEMMA TypeIs ==
    TypeOK <=> /\ res \in ResType
               /\ recorded \in BOOLEAN
               /\ app \in BOOLEAN
               /\ job \in JobType
               /\ inactive \in BOOLEAN
               /\ failures \in 0..MaxFailures
BY TheKinds DEF TypeOK, ResType, JobType

\* Deleting never brings anything back.
LEMMA WithoutFacts ==
    ASSUME res \in ResType, NEW kinds
    PROVE  /\ Without(kinds) \in ResType
           /\ \A k \in Kinds : Without(kinds)[k] \in {res[k], "gone"}
           /\ \A k \in Kinds : k \in kinds => Without(kinds)[k] = "gone"
BY DEF Without, ResType

(***************************************************************************)
(* The invariant, step by step.                                            *)
(***************************************************************************)
LEMMA TeardownInit == ASSUME Init PROVE TeardownInv
<1>1. job \in JobType /\ job.phase = "idle"
  BY IdleType DEF Init
<1>2. TypeOK
  <2>1. res \in ResType
    BY DEF Init, ResType
  <2>2. recorded \in BOOLEAN /\ app \in BOOLEAN
    BY DEF Init
  <2>3. failures \in 0..MaxFailures
    BY TeardownAssumption DEF Init
  <2>4. QED
    BY <1>1, <2>1, <2>2, <2>3, TypeIs DEF Init
<1>3. NetworkHoldsInstances
  BY TheKinds DEF Init, NetworkHoldsInstances, Gone
<1>4. ~GroupsPassed
  BY <1>1 DEF GroupsPassed
<1>5. QED
  BY <1>1, <1>2, <1>3, <1>4 DEF TeardownInv, Init

\* What the cloud does by itself launches nothing without a network and
\* creates no group; nothing of a sandbox of which nothing is there comes
\* back.
LEMMA CloudInv == ASSUME TeardownInv, CloudStep PROVE TeardownInv'
<1>1. /\ res \in ResType /\ job \in JobType
      /\ recorded \in BOOLEAN /\ app \in BOOLEAN /\ inactive \in BOOLEAN
      /\ failures \in 0..MaxFailures
  BY TypeIs DEF TeardownInv
<1>2. /\ recorded' = recorded /\ job' = job /\ inactive' = inactive
      /\ failures' = failures /\ app' \in BOOLEAN
  BY <1>1 DEF CloudStep, DeletionHappens, DeletionSpreads, GroupLaunches,
              ControllerCreates, NamespaceEnds, Alone
<1>3. \/ res' = res
      \/ \E k \in Kinds : res[k] = "leaving" /\ Becomes(k, "gone")
      \/ \E k \in Kinds : res[k] = "there" /\ k # "vpc" /\ Becomes(k, "leaving")
      \/ res["asg"] = "there" /\ res["vpc"] = "there"
         /\ Becomes("instance", "there")
      \/ res["instance"] = "there" /\ Becomes("lb", "there")
  BY TheKinds DEF CloudStep, DeletionHappens, DeletionSpreads, GroupLaunches,
                  ControllerCreates, NamespaceEnds
<1>4. res' \in ResType
  BY <1>1, <1>3, TheKinds DEF Becomes, ResType
<1>5. TypeOK'
  BY <1>1, <1>2, <1>4, TheKinds DEF TypeOK, ResType, JobType
<1>6. NetworkHoldsInstances'
  BY <1>1, <1>3, TheKinds
     DEF TeardownInv, NetworkHoldsInstances, Gone, Becomes, ResType
<1>7. res["asg"] # "there" => res'["asg"] # "there"
  BY <1>1, <1>3, TheKinds DEF Becomes, ResType
<1>8. NothingThere => NothingThere'
  BY <1>1, <1>3, TheKinds DEF NothingThere, Becomes, ResType
<1>9. GroupsPassed' <=> GroupsPassed
  BY <1>2 DEF GroupsPassed
<1>10. QED
  BY <1>2, <1>5, <1>6, <1>7, <1>8, <1>9 DEF TeardownInv

\* A clean-up that has passed the groups has deleted them or found them gone.
LEMMA CleanKindInv == ASSUME TeardownInv, CleanKind PROVE TeardownInv'
<1> DEFINE k == CleanupOrder[job.next]
<1>1. /\ res \in ResType /\ job \in JobType /\ Cleaning
      /\ recorded' = recorded /\ app' = app /\ inactive' = inactive
      /\ failures' = failures
      /\ recorded \in BOOLEAN /\ app \in BOOLEAN /\ inactive \in BOOLEAN
      /\ failures \in 0..MaxFailures
  BY TypeIs DEF TeardownInv, CleanKind
<1>2. ~inactive
  BY <1>1 DEF TeardownInv, Cleaning
<1>3. job.next \in 1..8 /\ k \in Orphans /\ (job.next = 2 => k = "asg")
  BY <1>1, TheKinds DEF JobType
<1>4. job' = Advanced
  BY DEF CleanKind
<1>5. \/ res' = res /\ ~Deletable(k)
      \/ res[k] = "there" /\ res' = [res EXCEPT ![k] = Deletion(k)]
  BY DEF CleanKind, Deletable
<1>6. Deletion(k) \in {"gone", "leaving"}
  BY DEF Deletion
<1>7. res' \in ResType
  BY <1>1, <1>5, <1>6 DEF ResType
<1>8. TypeOK'
  BY <1>1, <1>4, <1>7, AdvancedFacts, TheKinds DEF TypeOK, ResType, JobType
<1>9. NetworkHoldsInstances'
  BY <1>1, <1>3, <1>5, <1>6, TheKinds
     DEF TeardownInv, NetworkHoldsInstances, Gone, ResType
<1>10. res["asg"] # "there" => res'["asg"] # "there"
  BY <1>1, <1>3, <1>5, <1>6, TheKinds DEF ResType
<1>11. job.next = 2 => res'["asg"] # "there"
  BY <1>1, <1>3, <1>5, <1>6, TheKinds DEF ResType, Deletable
<1>12. GroupsPassed' => GroupsPassed \/ job.next = 2
  <2>1. CASE job.next < 8
    <3>1. /\ job'.phase = job.phase /\ job'.failed = job.failed
          /\ job'.next = job.next + 1
      BY <1>1, <1>4, <2>1, AdvancedFacts DEF JobType
    <3>2. QED
      BY <1>1, <1>3, <3>1 DEF GroupsPassed, Cleaning
  <2>2. CASE job.next = 8
    <3>1. job.failed => job'.phase = "idle"
      BY <1>1, <1>4, <2>2, AdvancedFacts
    <3>2. ~job.failed => GroupsPassed
      BY <1>1, <2>2 DEF GroupsPassed, Cleaning
    <3>3. QED
      BY <3>1, <3>2 DEF GroupsPassed
  <2>3. QED
    BY <1>3, <2>1, <2>2
<1>13. job'.phase # "unmark"
  <2>1. CASE job.next < 8
    BY <1>1, <1>4, <2>1, AdvancedFacts DEF JobType, Cleaning
  <2>2. CASE job.next = 8
    BY <1>1, <1>4, <2>2, AdvancedFacts DEF JobType, Cleaning
  <2>3. QED
    BY <1>3, <2>1, <2>2
<1>14. QED
  BY <1>1, <1>2, <1>8, <1>9, <1>10, <1>11, <1>12, <1>13 DEF TeardownInv

\* What Terraform takes away includes every instance when it includes the
\* network, and does not come back.
LEMMA TerraformInv ==
    ASSUME TeardownInv, TerraformDestroys \/ TerraformFails
    PROVE  TeardownInv'
<1>1. /\ res \in ResType /\ job \in JobType /\ Destroying
      /\ recorded \in BOOLEAN /\ app \in BOOLEAN /\ inactive \in BOOLEAN
      /\ failures \in 0..MaxFailures
      /\ inactive' = inactive
  BY TypeIs DEF TeardownInv, TerraformDestroys, TerraformFails
<1>2. ~inactive /\ GroupsPassed
  BY <1>1 DEF TeardownInv, Destroying, GroupsPassed
<1>3. NodeGroup \subseteq {"nodegroup", "asg", "instance"}
  BY DEF NodeGroup
<1>4. res["nodegroup"] # "gone" => NodeGroup = {"nodegroup", "asg", "instance"}
  BY DEF NodeGroup
<1>5. PICK kinds :
          /\ res' = Without(kinds)
          /\ \/ kinds \in {{}, NodeGroup, NodeGroup \cup {"cluster"}}
             \/ kinds = {"cluster", "vpc"} \cup NodeGroup /\ ~NetworkInUse
  <2>1. CASE TerraformDestroys
    BY <2>1 DEF TerraformDestroys
  <2>2. CASE TerraformFails
    <3>1. PICK done \in {{}, NodeGroup, NodeGroup \cup {"cluster"}} :
              res' = Without(done)
      BY <2>2 DEF TerraformFails
    <3>2. QED
      BY <3>1
  <2>3. QED
    BY <2>1, <2>2
<1>6. /\ res' \in ResType
      /\ \A k \in Kinds : res'[k] \in {res[k], "gone"}
      /\ \A k \in Kinds : k \in kinds => res'[k] = "gone"
      /\ \A k \in Kinds : k \notin kinds => res'[k] = res[k]
  BY <1>1, <1>5, WithoutFacts DEF Without
<1>7. job' \in JobType /\ job'.phase \in {"after", "verify", "idle"}
  BY <1>1, IdleType
     DEF TerraformDestroys, TerraformFails, Destroying, JobType, Phases
<1>8. recorded' \in BOOLEAN /\ app' \in BOOLEAN /\ failures' \in 0..MaxFailures
  <2>1. recorded' \in {recorded, FALSE}
    BY DEF TerraformDestroys, TerraformFails
  <2>2. app' \in BOOLEAN
    BY Zenon DEF TerraformDestroys, TerraformFails
  <2>3. \/ failures' = failures
        \/ failures < MaxFailures /\ failures' = failures + 1
    BY DEF TerraformDestroys, TerraformFails
  <2>4. failures' \in 0..MaxFailures
    BY <1>1, <2>3, TeardownAssumption
  <2>5. QED
    BY <1>1, <2>1, <2>2, <2>4
<1>9. TypeOK'
  BY <1>1, <1>6, <1>7, <1>8, TheKinds DEF TypeOK, ResType, JobType
<1>10. NetworkHoldsInstances'
  <2>1. res'["vpc"] # "leaving"
    BY <1>6, TheKinds DEF TeardownInv, NetworkHoldsInstances
  <2>2. ASSUME res'["vpc"] = "gone"
        PROVE  res'["nodegroup"] = "gone" /\ res'["instance"] = "gone"
    <3>1. CASE res["vpc"] = "gone"
      BY <1>6, <3>1, TheKinds DEF TeardownInv, NetworkHoldsInstances, Gone
    <3>2. CASE res["vpc"] # "gone"
      <4>1. "vpc" \in kinds
        BY <1>6, <2>2, <3>2, TheKinds
      <4>2. kinds = {"cluster", "vpc"} \cup NodeGroup /\ ~NetworkInUse
        BY <1>3, <1>5, <4>1
      <4>3. res["vpc"] = "there"
        BY <1>1, <3>2, TheKinds DEF TeardownInv, NetworkHoldsInstances, ResType
      <4>4. Gone({"lb", "endpoint", "eni", "sg", "instance"} \ NodeGroup)
        BY <4>2, <4>3 DEF NetworkInUse
      <4>5. CASE res["nodegroup"] = "gone"
        BY <1>6, <4>4, <4>5, TheKinds DEF NodeGroup, Gone
      <4>6. CASE res["nodegroup"] # "gone"
        BY <1>4, <1>6, <4>2, <4>6, TheKinds
      <4>7. QED
        BY <4>5, <4>6
    <3>3. QED
      BY <3>1, <3>2
  <2>3. QED
    BY <2>1, <2>2 DEF NetworkHoldsInstances, Gone
<1>11. res'["asg"] # "there"
  BY <1>2, <1>6, TheKinds DEF TeardownInv
<1>12. QED
  BY <1>1, <1>2, <1>7, <1>9, <1>10, <1>11 DEF TeardownInv

\* What the verification passes, and what it does not look at, is not there.
LEMMA VerifyInv == ASSUME TeardownInv, Verify PROVE TeardownInv'
<1>1. /\ res \in ResType /\ job \in JobType
      /\ res' = res /\ recorded' = recorded /\ app' = app
      /\ inactive' = inactive /\ failures' = failures
      /\ job.phase = "verify"
  BY TypeIs DEF TeardownInv, Verify
<1>2. ~inactive /\ res["asg"] # "there"
  BY <1>1 DEF TeardownInv, GroupsPassed
<1>3. /\ job' \in JobType /\ job'.phase \in {"idle", "unmark"}
      /\ job'.phase = "unmark" => ~Residue
  BY <1>1, IdleType DEF Verify, JobType, Phases
<1>4. ASSUME ~Residue PROVE NothingThere
  <2>1. \A k \in Kinds : ~Residual(k)
    BY <1>4 DEF Residue
  <2>2. \A k \in {"vpc", "sg", "eni", "lb", "cluster"} : res[k] = "gone"
    BY <2>1, TheKinds DEF Residual
  <2>3. res["endpoint"] # "there"
    BY <2>1, TheKinds DEF Residual
  <2>4. res["nodegroup"] = "gone" /\ res["instance"] = "gone"
    BY <2>2 DEF TeardownInv, NetworkHoldsInstances, Gone
  <2>5. res["volume"] = "gone"
    BY <2>1, <2>4, TheKinds DEF Residual, Attached, Gone
  <2>6. QED
    BY <1>2, <2>2, <2>3, <2>4, <2>5, TheKinds DEF NothingThere
<1>5. TypeOK'
  BY <1>1, <1>3, TheKinds DEF TeardownInv, TypeOK, JobType
<1>6. QED
  BY <1>1, <1>2, <1>3, <1>4, <1>5
     DEF TeardownInv, NetworkHoldsInstances, Gone, NothingThere

\* The steps that change the job only.
LEMMA JobInv ==
    ASSUME TeardownInv, StartDestroy \/ CleanNamespace \/ CleanupFails
                        \/ MarkInactive
    PROVE  TeardownInv'
<1>1. /\ res \in ResType /\ job \in JobType
      /\ res' = res /\ recorded' = recorded
      /\ recorded \in BOOLEAN /\ app \in BOOLEAN /\ inactive \in BOOLEAN
      /\ failures \in 0..MaxFailures
  BY TypeIs
     DEF TeardownInv, StartDestroy, CleanNamespace, CleanupFails, MarkInactive
<1>2. /\ job' \in JobType
      /\ job'.phase \in {"before", "destroy", "after", "idle"}
  BY <1>1, IdleType DEF StartDestroy, CleanNamespace, CleanupFails,
                        MarkInactive, Idle, JobType, Phases
<1>3. /\ app' \in BOOLEAN /\ inactive' \in BOOLEAN
      /\ failures' \in 0..MaxFailures
  <2>1. app' \in {app, FALSE} /\ inactive' \in {inactive, TRUE}
    BY DEF StartDestroy, CleanNamespace, CleanupFails, MarkInactive
  <2>2. \/ failures' = failures
        \/ failures < MaxFailures /\ failures' = failures + 1
    BY DEF StartDestroy, CleanNamespace, CleanupFails, MarkInactive
  <2>3. failures' \in 0..MaxFailures
    BY <1>1, <2>2, TeardownAssumption
  <2>4. QED
    BY <1>1, <2>1, <2>3
<1>4. TypeOK'
  BY <1>1, <1>2, <1>3, TheKinds DEF TypeOK, ResType, JobType
<1>5. GroupsPassed' => GroupsPassed
  <2>1. CASE StartDestroy
    BY <2>1 DEF StartDestroy, GroupsPassed, Idle
  <2>2. CASE CleanNamespace
    BY <2>2 DEF CleanNamespace, GroupsPassed
  <2>3. CASE CleanupFails
    <3>1. \/ job' = [Idle EXCEPT !.phase = "after", !.failed = TRUE]
          \/ job' = Idle
      BY <2>3 DEF CleanupFails
    <3>2. \/ job'.phase = "after" /\ job'.failed = TRUE
          \/ job'.phase = "idle"
      BY <3>1, IdleType DEF JobType
    <3>3. ~GroupsPassed'
      BY <3>2 DEF GroupsPassed
    <3>4. QED
      BY <3>3
  <2>4. CASE MarkInactive
    BY <2>4, IdleType DEF MarkInactive, GroupsPassed
  <2>5. QED
    BY <2>1, <2>2, <2>3, <2>4
<1>6. inactive' => job'.phase = "idle" /\ NothingThere
  BY <1>1, IdleType
     DEF TeardownInv, StartDestroy, CleanNamespace, CleanupFails, MarkInactive,
         Cleaning
<1>7. QED
  BY <1>1, <1>2, <1>4, <1>5, <1>6
     DEF TeardownInv, NetworkHoldsInstances, Gone, NothingThere

LEMMA TeardownStep == ASSUME TeardownInv, [Next]_vars PROVE TeardownInv'
<1>1. CASE UNCHANGED vars
  BY <1>1 DEF vars, TeardownInv, TypeOK, NetworkHoldsInstances, GroupsPassed,
              NothingThere, Gone
<1>2. QED
  BY <1>1, CloudInv, CleanKindInv, TerraformInv, VerifyInv, JobInv
     DEF Next, JobStep

LEMMA TeardownInvariance == Spec => []TeardownInv
<1>1. Init => TeardownInv
  BY TeardownInit
<1>2. TeardownInv /\ [Next]_vars => TeardownInv'
  BY TeardownStep
<1>3. QED
  BY <1>1, <1>2, PTL DEF Spec

(***************************************************************************)
(* The theorems.                                                           *)
(***************************************************************************)

\* Type correctness: resources, the job and its step keep their types.
THEOREM TeardownTypeCorrect == Spec => []TypeOK
<1>1. TeardownInv => TypeOK
  BY DEF TeardownInv
<1>2. QED
  BY <1>1, TeardownInvariance, PTL

\* A sandbox marked inactive has nothing left, groups, instances and volumes
\* included, whatever calls fail and whatever the cloud creates meanwhile.
THEOREM InactiveSandboxesAreGone == Spec => []InactiveMeansGone
<1>1. TeardownInv => InactiveMeansGone
  BY DEF TeardownInv, NothingThere, InactiveMeansGone
<1>2. QED
  BY <1>1, TeardownInvariance, PTL
=============================================================================
