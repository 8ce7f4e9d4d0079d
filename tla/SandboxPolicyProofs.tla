------------------------ MODULE SandboxPolicyProofs ------------------------
(***************************************************************************)
(* Proofs about SandboxPolicy for any set of paths and any number of       *)
(* events: that a critical change passes only with a waiver or validation  *)
(* if its files were resolved, that labels tell what the check found after *)
(* a run that cancelled none, and that the evaluator's answers agree and   *)
(* never get lighter with more files.                                      *)
(***************************************************************************)
EXTENDS SandboxPolicy, TLAPS, FiniteSetTheorems

(***************************************************************************)
(* The inductive invariant.  A run that nothing has cancelled looks at the *)
(* pull request as it is, but for a conversion into a draft, which starts  *)
(* no run; what it has resolved, and later reported, opens the gate only   *)
(* by what opens it still, because taking a waiver away starts another     *)
(* run.  Nothing is known of a run that was cancelled, except that the     *)
(* event that waits for its end fits the pull request.  The labels of the  *)
(* event are the present ones until the run reconciles them, unless it     *)
(* waited for a run that was cancelled.                                    *)
(***************************************************************************)
SeenAs(seen, p) ==
    /\ seen.files = p.files
    /\ seen.date = p.date
    /\ seen.kind = p.kind
    /\ ~p.draft => ~seen.draft

EventFits(event) ==
    /\ SeenAs(event.pull, pull)
    /\ event.pull.date <= event.when
    /\ "skip" \in event.labels <=> "skip" \in present

ReportFits ==
    \/ report.decision = "error" /\ run.failed
    \/ /\ "required" \in report.labels
             <=> Required(run.event.pull) /\ report.files # {}
       /\ Required(run.event.pull) /\ report.files # {} /\ ~report.block
             => Gated(run.event.pull)

LabelsFit ==
    /\ run.at \in {"resolve", "evaluate", "reconcile"} =>
          ("required" \in run.event.labels <=> "required" \in present)
    /\ run.at = "conclude" /\ ~run.failed /\ run.event.pull.kind # "fork" =>
          ("required" \in present <=> "required" \in report.labels)

RunFits ==
    /\ EventFits(run.event)
    /\ run.at = "evaluate" =>
          /\ run.files \in {run.event.pull.files, {}}
          /\ Waived(run.trusted) => Gated(run.event.pull)
    /\ run.at \in {"reconcile", "conclude"} => ReportFits
    /\ ~run.waited => LabelsFit

\* While a run is under way.
UnderWay ==
    /\ check = "pending"
    /\ waiting = {} => RunFits

PolicyInv ==
    /\ TypeOK
    /\ pull.date <= events
    /\ \A event \in waiting : EventFits(event)
    /\ run.at = "done" => waiting = {}
    /\ run.at # "done" => UnderWay
    /\ SuccessMeansGated
    /\ LabelsTellTheCheck

(***************************************************************************)
(* The evaluator.                                                          *)
(***************************************************************************)

\* The evaluator's answers are of its types, and never its error's.
LEMMA EvaluatedType ==
    ASSUME NEW p \in Pulls, NEW trusted \in SUBSET Judged
    PROVE  /\ Evaluated(p, trusted) \in Reports
           /\ Evaluated(p, trusted).decision # "error"
<1>1. Decision(p, trusted) \in {"pass", "advisory", "fail"}
  BY DEF Decision, Required, Recommended
<1>2. GovernanceMode(p, trusted) \in
         {"fast", "sandbox_validated", "sandbox_waived",
          "sandbox_deploy_requested", "sandbox_required",
          "sandbox_recommended", "reviewed"}
  BY DEF GovernanceMode
<1>3. Blocks(p, trusted) \in BOOLEAN
  BY DEF Blocks, Required
<1>4. (IF Required(p) THEN {"required"} ELSE {})
      \cup (IF Recommended(p) THEN {"recommended"} ELSE {})
      \in SUBSET Governance
  BY DEF Governance
<1>5. QED
  BY <1>1, <1>2, <1>3, <1>4 DEF Evaluated, Reports, Pulls

\* Decision, block and mode of one evaluation agree.
LEMMA EvaluatedAgrees ==
    ASSUME NEW p \in Pulls, NEW trusted \in SUBSET Judged
    PROVE  LET r == Evaluated(p, trusted) IN
           /\ r.decision = "fail" <=> r.block
           /\ r.block => /\ Required(p)
                         /\ r.mode \in {"sandbox_required",
                                        "sandbox_deploy_requested"}
           /\ "required" \in r.labels <=> Required(p)
           /\ Required(p) /\ ~r.block =>
                 Waived(trusted) /\ r.mode \in {"sandbox_validated",
                                                "sandbox_waived"}
<1>1. Required(p) => Heavy(p.files) /\ Enforceable(p) /\ ~Recommended(p)
  BY DEF Required, Recommended
<1>2. Decision(p, trusted) = "fail" <=> Blocks(p, trusted)
  <2>1. CASE ~Heavy(p.files)
    BY <1>1, <2>1 DEF Decision, Blocks
  <2>2. CASE Heavy(p.files) /\ ~Enforceable(p)
    BY <1>1, <2>2 DEF Decision, Blocks, Recommended
  <2>3. CASE Heavy(p.files) /\ Enforceable(p) /\ Critical(p.files)
    BY <2>3 DEF Decision, Blocks, Required, Recommended
  <2>4. CASE Heavy(p.files) /\ Enforceable(p) /\ ~Critical(p.files)
    BY <2>4 DEF Decision, Blocks, Required, Recommended
  <2>5. QED
    BY <2>1, <2>2, <2>3, <2>4
<1>3. Blocks(p, trusted) =>
         GovernanceMode(p, trusted) \in {"sandbox_required",
                                         "sandbox_deploy_requested"}
  BY <1>1 DEF Blocks, GovernanceMode, Waived
<1>4. Required(p) /\ ~Blocks(p, trusted) =>
         /\ Waived(trusted)
         /\ GovernanceMode(p, trusted) \in {"sandbox_validated",
                                            "sandbox_waived"}
  BY <1>1 DEF Blocks, GovernanceMode, Waived
<1>5. "required" \in (IF Required(p) THEN {"required"} ELSE {})
                     \cup (IF Recommended(p) THEN {"recommended"} ELSE {})
      <=> Required(p)
  OBVIOUS
<1>6. QED
  BY <1>2, <1>3, <1>4, <1>5 DEF Evaluated, Blocks

\* What a change of more files touches is at least what one of fewer does.
LEMMA HeavyIsMonotone ==
    ASSUME NEW fewer, NEW more, fewer \subseteq more, Heavy(fewer)
    PROVE  Heavy(more)
<1> DEFINE Touched(files) == {s \in DOMAIN Surface : files \cap Surface[s] # {}}
<1>1. DOMAIN Surface = {"backend", "frontend", "edge", "nginx"}
  BY DEF Surface
<1>2. IsFiniteSet(DOMAIN Surface)
  <2>1. IsFiniteSet({"backend"})
    BY FS_Singleton
  <2>2. IsFiniteSet({"backend"} \cup {"frontend"})
    BY <2>1, FS_AddElement
  <2>3. IsFiniteSet(({"backend"} \cup {"frontend"}) \cup {"edge"})
    BY <2>2, FS_AddElement
  <2>4. IsFiniteSet((({"backend"} \cup {"frontend"}) \cup {"edge"}) \cup {"nginx"})
    BY <2>3, FS_AddElement
  <2>5. QED
    BY <1>1, <2>4
<1>3. /\ Touched(more) \in SUBSET DOMAIN Surface
      /\ Touched(fewer) \in SUBSET Touched(more)
  OBVIOUS
<1>4. IsFiniteSet(Touched(more))
  BY <1>2, <1>3, FS_Subset
<1>5. /\ Cardinality(Touched(fewer)) <= Cardinality(Touched(more))
      /\ IsFiniteSet(Touched(fewer))
  BY <1>3, <1>4, FS_Subset
<1>6. /\ Cardinality(Touched(fewer)) \in Nat
      /\ Cardinality(Touched(more)) \in Nat
  BY <1>4, <1>5, FS_CardinalityType
<1>7. CASE fewer \cap (ControlPaths \cup ContractPaths \cup StatePaths) # {}
  BY <1>7 DEF Heavy
<1>8. CASE Cardinality(Touched(fewer)) >= 2
  <2>1. Cardinality(Touched(more)) >= 2
    BY <1>5, <1>6, <1>8
  <2>2. QED
    BY <2>1 DEF Heavy
<1>9. QED
  BY <1>7, <1>8 DEF Heavy

\* An evaluation of what was resolved: without files nothing is heavy.
LEMMA NothingIsHeavy == ~Heavy({})
<1>1. {s \in DOMAIN Surface : {} \cap Surface[s] # {}} = {}
  OBVIOUS
<1>2. Cardinality({}) = 0
  BY FS_EmptySet
<1>3. QED
  BY <1>1, <1>2 DEF Heavy

LEMMA ResolvedAgrees ==
    ASSUME NEW p \in Pulls, NEW files \in {p.files, {}},
           NEW trusted \in SUBSET Judged
    PROVE  LET r == Evaluated([p EXCEPT !.files = files], trusted) IN
           /\ r \in Reports /\ r.decision # "error"
           /\ "required" \in r.labels <=> Required(p) /\ r.files # {}
           /\ Required(p) /\ r.files # {} /\ ~r.block => Waived(trusted)
<1> DEFINE q == [p EXCEPT !.files = files]
           r == Evaluated(q, trusted)
<1>1. q \in Pulls /\ q.files = files
  BY DEF Pulls
<1>2. CASE files = {}
  <2>1. ~Required(q)
    BY <1>1, <1>2, NothingIsHeavy DEF Required
  <2>2. r.files = {}
    BY <1>1, <1>2 DEF Evaluated
  <2>3. QED
    BY <1>1, <2>1, <2>2, EvaluatedType, EvaluatedAgrees
<1>3. CASE files # {}
  <2>1. q = p
    BY <1>3 DEF Pulls
  <2>2. r.files # {}
    BY <1>1, <1>3 DEF Evaluated
  <2>3. QED
    BY <2>1, <2>2, EvaluatedType, EvaluatedAgrees
<1>4. QED
  BY <1>2, <1>3

\* Changing more files, of whatever lists, never leads into a lighter lane:
\* what was heavy stays heavy and what was gated stays gated, although the
\* heavy patterns, the critical ones and the count of services are separate.
THEOREM MoreFilesNeverLighter ==
    ASSUME NEW p \in Pulls, NEW more \in SUBSET Changeable,
           p.files \subseteq more
    PROVE  LET q == [p EXCEPT !.files = more] IN
           /\ Heavy(p.files) => Heavy(q.files)
           /\ Required(p) => Required(q)
<1> DEFINE q == [p EXCEPT !.files = more]
<1>1. /\ q.files = more
      /\ q.kind = p.kind
      /\ q.draft = p.draft
  BY DEF Pulls
<1>2. Heavy(p.files) => Heavy(more)
  BY HeavyIsMonotone
<1>3. Critical(p.files) => Critical(more)
  BY DEF Critical
<1>4. QED
  BY <1>1, <1>2, <1>3 DEF Required, Enforceable

(***************************************************************************)
(* Types.                                                                  *)
(***************************************************************************)
Latest == [Judged -> [by : People \cup {"nobody", "bot"}, at : Times]]

LEMMA StartedType ==
    ASSUME NEW event \in Events, NEW waited \in BOOLEAN
    PROVE  /\ Started(event, waited) \in Runs
           /\ Started(event, waited).at = "resolve"
           /\ Started(event, waited).event = event
           /\ Started(event, waited).waited = waited
BY DEF Started, Runs

LEMMA TypeInit == ASSUME Init PROVE TypeOK
<1>1. 0 \in Times
  BY PolicyAssumption DEF Times
<1>2. pull \in Pulls
  BY DEF Init
<1>3. [pull |-> pull, labels |-> {}, when |-> 0] \in Events
  BY <1>1, <1>2 DEF Events
<1>4. run \in Runs
  BY <1>3, StartedType DEF Init
<1>5. latest \in [Judged -> [by : People \cup {"nobody", "bot"}, at : Times]]
  BY <1>1 DEF Init
<1>6. report \in Reports
  BY DEF Init, Broken, Reports
<1>7. QED
  BY <1>1, <1>2, <1>4, <1>5, <1>6 DEF Init, TypeOK

LEMMA HumanTime ==
    ASSUME TypeOK, Human
    PROVE  events' \in Times /\ events' = events + 1 /\ report' = report
BY PolicyAssumption DEF TypeOK, Human, Times

\* A run that is started, or waits, carries the state its event has led to.
LEMMA TriggerType ==
    ASSUME TypeOK, Human, Trigger, pull' \in Pulls, present' \in SUBSET Labels,
           latest' \in Latest
    PROVE  TypeOK'
<1> DEFINE event == [pull |-> pull', labels |-> present', when |-> events']
<1>1. events' \in Times /\ report' = report
  BY HumanTime
<1>2. event \in Events
  BY <1>1 DEF Events
<1>3. run' \in Runs /\ waiting' \in SUBSET Events
  <2>1. Started(event, FALSE) \in Runs
    BY <1>2, StartedType
  <2>2. \/ run' = Started(event, FALSE) /\ waiting' = waiting
        \/ run' = run /\ waiting' = {event}
    BY DEF Trigger
  <2> HIDE DEF event
  <2>3. QED
    BY <1>2, <2>1, <2>2 DEF TypeOK
<1>4. check' = "pending"
  BY DEF Trigger
<1>5. QED
  BY <1>1, <1>3, <1>4 DEF TypeOK, Latest

\* A run that ends leaves its event, or makes way for the one that waits.
LEMMA EndsType ==
    ASSUME TypeOK, NEW conclusion \in {"success", "blocked", "error"},
           Ends(conclusion)
    PROVE  /\ run' \in Runs
           /\ waiting' = {}
           /\ check' \in {"pending", "success", "blocked", "error"}
           /\ \/ /\ waiting = {} /\ check' = conclusion
                 /\ run' = [run EXCEPT !.at = "done"]
              \/ /\ check' = check
                 /\ \E event \in waiting : run' = Started(event, TRUE)
<1>1. CASE waiting = {} /\ run' = [run EXCEPT !.at = "done"]
           /\ check' = conclusion /\ UNCHANGED waiting
  BY <1>1 DEF TypeOK, Runs
<1>2. CASE (\E event \in waiting : run' = Started(event, TRUE))
           /\ waiting' = {} /\ UNCHANGED check
  BY <1>2, StartedType DEF TypeOK
<1>3. QED
  BY <1>1, <1>2 DEF Ends

LEMMA TrustedType ==
    ASSUME NEW labels, NEW since
    PROVE  Trusted(labels, since) \in SUBSET Judged
BY DEF Trusted, Judged

LEMMA HumanType == ASSUME TypeOK, HumanStep PROVE TypeOK'
<1>0. present \in SUBSET Labels /\ pull \in Pulls /\ latest \in Latest
  BY DEF TypeOK, Latest
<1>1. ASSUME NEW l \in Labels, NEW person \in People, AddLabel(l, person)
      PROVE  TypeOK'
  <2>1. events' \in Times
    BY <1>1, HumanTime DEF AddLabel
  <2>2. latest' \in Latest
    BY <1>0, <1>1, <2>1 DEF AddLabel, LabelledBy, Latest
  <2>3. pull' \in Pulls /\ present' \in SUBSET Labels
    BY <1>0, <1>1 DEF AddLabel
  <2>4. QED
    BY <1>1, <2>2, <2>3, TriggerType DEF AddLabel
<1>2. ASSUME NEW l \in Labels, RemoveLabel(l) PROVE TypeOK'
  BY <1>0, <1>2, TriggerType DEF RemoveLabel
<1>3. ASSUME Push PROVE TypeOK'
  <2>1. events' \in Times
    BY <1>3, HumanTime DEF Push
  <2>2. PICK files \in SUBSET Changeable, date \in 0..events' :
            pull' = [pull EXCEPT !.files = files, !.date = date,
                                 !.pushed = events']
    BY <1>3 DEF Push
  <2>3. date \in Times
    BY <2>1, PolicyAssumption DEF Times
  <2>4. pull' \in Pulls
    BY <1>0, <2>1, <2>2, <2>3 DEF Pulls
  <2>5. QED
    BY <1>0, <1>3, <2>4, TriggerType DEF Push
<1>4. ASSUME ConvertToDraft PROVE TypeOK'
  <2>1. events' \in Times /\ report' = report
    BY <1>4, HumanTime DEF ConvertToDraft
  <2>2. pull' \in Pulls
    BY <1>0, <1>4 DEF ConvertToDraft, Pulls
  <2>3. QED
    BY <1>4, <2>1, <2>2 DEF ConvertToDraft, TypeOK
<1>5. ASSUME ReadyForReview PROVE TypeOK'
  <2>1. pull' \in Pulls
    BY <1>0, <1>5 DEF ReadyForReview, Pulls
  <2>2. QED
    BY <1>0, <1>5, <2>1, TriggerType DEF ReadyForReview
<1>6. ASSUME ReviewOrReopen PROVE TypeOK'
  BY <1>0, <1>6, TriggerType DEF ReviewOrReopen
<1>7. QED
  BY <1>1, <1>2, <1>3, <1>4, <1>5, <1>6 DEF HumanStep

LEMMA BotType == ASSUME TypeOK, BotStep PROVE TypeOK'
<1>1. /\ "ready" \in Labels /\ "validated" \in Labels
      /\ "bot" \in People \cup {"nobody", "bot"}
  BY DEF Labels, Judged, SystemTrusted
<1>2. CASE SandboxValidated
  <2>1. latest' \in [Judged -> [by : People \cup {"nobody", "bot"}, at : Times]]
    BY <1>2 DEF SandboxValidated, TypeOK
  <2>2. QED
    BY <1>1, <1>2, <2>1 DEF SandboxValidated, TypeOK
<1>3. CASE SignalReady
  BY <1>1, <1>3 DEF SignalReady, TypeOK
<1>4. CASE SandboxDestroyed
  BY <1>4 DEF SandboxDestroyed, TypeOK
<1>5. QED
  BY <1>2, <1>3, <1>4 DEF BotStep

LEMMA RunStepType == ASSUME TypeOK, RunStep PROVE TypeOK'
<1>0. run \in Runs /\ run.event \in Events /\ run.event.pull \in Pulls
  BY DEF TypeOK, Runs, Events
<1>1. CASE Resolve
  <2>1. PICK files \in {run.event.pull.files, {}},
             since \in {run.event.pull.date, run.event.when} :
           run' = [run EXCEPT !.at = "evaluate", !.files = files,
                              !.trusted = Trusted(run.event.labels, since)]
    BY <1>1 DEF Resolve
  <2>2. files \in SUBSET Changeable
    BY <1>0 DEF Pulls
  <2>3. run' \in Runs
    BY <1>0, <2>1, <2>2, TrustedType DEF Runs
  <2>4. QED
    BY <1>1, <2>3 DEF Resolve, TypeOK
<1>2. CASE Evaluate
  <2>1. run' \in Runs
    BY <1>0, <1>2 DEF Evaluate, Runs
  <2>2. /\ [run.event.pull EXCEPT !.files = run.files] \in Pulls
        /\ run.trusted \in SUBSET Judged
    BY <1>0 DEF Runs, Pulls
  <2>3. report' \in Reports
    BY <1>2, <2>2, EvaluatedType DEF Evaluate
  <2>4. QED
    BY <1>2, <2>1, <2>3 DEF Evaluate, TypeOK
<1>3. CASE EvaluatorRaises
  <2>1. run' \in Runs
    BY <1>0, <1>3 DEF EvaluatorRaises, Runs
  <2>2. report' \in Reports
    BY <1>3 DEF EvaluatorRaises, Broken, Reports
  <2>3. QED
    BY <1>3, <2>1, <2>2 DEF EvaluatorRaises, TypeOK
<1>4. CASE Reconcile
  <2>1. report.labels \subseteq Labels
    BY DEF TypeOK, Reports, Labels
  <2>2. present' \in SUBSET Labels
    BY <1>4, <2>1 DEF Reconcile, TypeOK
  <2>3. run' \in Runs
    BY <1>0, <1>4 DEF Reconcile, Runs
  <2>4. QED
    BY <1>4, <2>2, <2>3 DEF Reconcile, TypeOK
<1>5. CASE Conclude
  <2>1. present' \in SUBSET Labels
    BY <1>5 DEF Conclude, MarkReady, TypeOK, Labels
  <2>2. Conclusion \in {"success", "blocked", "error"}
    BY DEF Conclusion
  <2>3. QED
    BY <1>5, <2>1, <2>2, EndsType DEF Conclude, TypeOK
<1>6. CASE RunDies
  BY <1>6, EndsType DEF RunDies, TypeOK
<1>7. QED
  BY <1>1, <1>2, <1>3, <1>4, <1>5, <1>6 DEF RunStep

LEMMA TypeStep == ASSUME TypeOK, [Next]_vars PROVE TypeOK'
<1>1. CASE UNCHANGED vars
  BY <1>1 DEF TypeOK, vars
<1>2. QED
  BY <1>1, HumanType, BotType, RunStepType DEF Next

\* Type correctness: runs, labels and reports keep their types, whatever the
\* order of events and of the steps of runs that others cancel.
THEOREM PolicyTypeCorrect == Spec => []TypeOK
<1>1. Init => TypeOK
  BY TypeInit
<1>2. TypeOK /\ [Next]_vars => TypeOK'
  BY TypeStep
<1>3. QED
  BY <1>1, <1>2, PTL DEF Spec

(***************************************************************************)
(* The invariant, step by step.                                            *)
(***************************************************************************)

\* The event of a pull request's state fits it, and it starts a run or waits.
LEMMA TriggerFits ==
    ASSUME PolicyInv, TypeOK', Trigger, pull'.date <= events'
    PROVE  PolicyInv'
<1>0. PICK event : event = [pull |-> pull', labels |-> present', when |-> events']
  OBVIOUS
<1>1. EventFits(event)'
  BY <1>0 DEF EventFits, SeenAs
<1>2. check' = "pending"
  BY DEF Trigger
<1>3. run'.at # "done" => SuccessMeansGated' /\ LabelsTellTheCheck'
  BY <1>2 DEF SuccessMeansGated, LabelsTellTheCheck
<1>4. CASE run.at = "done"
  <2>1. run' = Started(event, FALSE) /\ waiting' = {}
    BY <1>0, <1>4 DEF Trigger, PolicyInv
  <2>2. /\ run'.at = "resolve" /\ run'.event = event /\ ~run'.waited
        /\ event.labels = present'
    BY <1>0, <2>1 DEF Started
  <2>3. LabelsFit'
    BY <2>2 DEF LabelsFit
  <2>4. RunFits'
    BY <1>1, <2>2, <2>3 DEF RunFits, EventFits, SeenAs
  <2>5. QED
    BY <1>2, <1>3, <2>1, <2>2, <2>4 DEF PolicyInv, UnderWay
<1>5. CASE run.at # "done"
  <2>1. run' = run /\ waiting' = {event}
    BY <1>0, <1>5 DEF Trigger
  <2>2. waiting' # {} /\ \A e \in waiting' : EventFits(e)'
    BY <1>1, <2>1
  <2>3. QED
    BY <1>2, <1>3, <1>5, <2>1, <2>2 DEF PolicyInv, UnderWay
<1>6. QED
  BY <1>4, <1>5

LEMMA PolicyInit == ASSUME Init PROVE PolicyInv
<1> DEFINE event == [pull |-> pull, labels |-> {}, when |-> 0]
<1>1. /\ run = Started(event, FALSE)
      /\ present = {} /\ pull.date = 0 /\ events = 0
      /\ check = "pending" /\ waiting = {}
  BY DEF Init
<1>2. /\ run.at = "resolve" /\ run.event = event /\ ~run.waited
      /\ event.pull = pull /\ event.labels = {} /\ event.when = 0
  BY <1>1 DEF Started
<1> HIDE DEF event
<1>3. EventFits(event)
  BY <1>1, <1>2 DEF EventFits, SeenAs
<1>4. RunFits
  BY <1>1, <1>2, <1>3 DEF RunFits, LabelsFit
<1>5. SuccessMeansGated /\ LabelsTellTheCheck
  BY <1>1, <1>2 DEF SuccessMeansGated, LabelsTellTheCheck
<1>6. pull.date <= events
  BY <1>1
<1>7. UnderWay
  BY <1>1, <1>4 DEF UnderWay
<1>8. QED
  BY <1>1, <1>2, <1>5, <1>6, <1>7, TypeInit DEF PolicyInv

\* What most people do starts a run, or makes one wait.
LEMMA HumanTriggers ==
    ASSUME PolicyInv, HumanStep, ~ConvertToDraft
    PROVE  Trigger /\ pull'.date <= events'
<1>1. pull.date \in Nat /\ events \in Nat /\ pull.date <= events
  BY PolicyAssumption DEF PolicyInv, TypeOK, Pulls, Times
<1>2. events' = events + 1
  BY HumanTime DEF PolicyInv, HumanStep, AddLabel, RemoveLabel, Push,
                   ReadyForReview, ReviewOrReopen
<1>3. ASSUME Push PROVE pull'.date <= events'
  <2>1. PICK files \in SUBSET Changeable, date \in 0..events' :
            pull' = [pull EXCEPT !.files = files, !.date = date,
                                 !.pushed = events']
    BY <1>3 DEF Push
  <2>2. pull'.date = date
    BY <2>1 DEF PolicyInv, TypeOK, Pulls
  <2>3. QED
    BY <1>1, <1>2, <2>1, <2>2
<1>4. ASSUME ReadyForReview PROVE pull'.date = pull.date
  BY <1>4 DEF ReadyForReview, PolicyInv, TypeOK, Pulls
<1>5. ~Push /\ ~ReadyForReview => pull' = pull
  BY DEF HumanStep, AddLabel, RemoveLabel, ReviewOrReopen
<1>6. Trigger
  BY DEF HumanStep, AddLabel, RemoveLabel, Push, ReadyForReview,
         ReviewOrReopen
<1>7. QED
  BY <1>1, <1>2, <1>3, <1>4, <1>5, <1>6

\* A conversion into a draft starts no run, but nothing is gated after it.
LEMMA DraftInv == ASSUME PolicyInv, ConvertToDraft PROVE PolicyInv'
<1>1. TypeOK'
  BY TypeStep DEF PolicyInv, Next, HumanStep
<1>2. /\ pull'.files = pull.files /\ pull'.date = pull.date
      /\ pull'.kind = pull.kind /\ pull'.draft = TRUE
  BY DEF ConvertToDraft, PolicyInv, TypeOK, Pulls
<1>3. ~Required(pull')
  BY <1>2 DEF Required, Enforceable
<1>4. pull'.date <= events'
  <2>1. events \in Nat /\ pull.date \in Nat /\ events' = events + 1
    BY HumanTime, PolicyAssumption
       DEF ConvertToDraft, PolicyInv, TypeOK, Pulls, Times
  <2>2. QED
    BY <1>2, <2>1 DEF PolicyInv
<1>5. /\ present' = present /\ latest' = latest /\ run' = run
      /\ waiting' = waiting /\ check' = check /\ report' = report
  BY DEF ConvertToDraft, Human
<1>6. ASSUME NEW event, EventFits(event)
      PROVE  EventFits(event)'
  BY <1>2, <1>5, <1>6 DEF EventFits, SeenAs
<1>7. RunFits => RunFits'
  <2>1. (ReportFits => ReportFits') /\ (LabelsFit => LabelsFit')
    BY <1>5 DEF ReportFits, LabelsFit, Gated
  <2>2. EventFits(run.event) => EventFits(run.event)'
    BY <1>2, <1>5 DEF EventFits, SeenAs
  <2>3. Gated(run.event.pull)' <=> Gated(run.event.pull)
    BY <1>5 DEF Gated
  <2>4. QED
    BY <1>5, <2>1, <2>2, <2>3 DEF RunFits
<1>8. SuccessMeansGated'
  BY <1>3 DEF SuccessMeansGated
<1>9. LabelsTellTheCheck'
  BY <1>2 DEF LabelsTellTheCheck
<1>10. UnderWay => UnderWay'
  BY <1>5, <1>7 DEF UnderWay
<1>11. \A event \in waiting' : EventFits(event)'
  BY <1>5, <1>6 DEF PolicyInv
<1>12. QED
  BY <1>1, <1>4, <1>5, <1>8, <1>9, <1>10, <1>11 DEF PolicyInv

\* What the other workflows do to labels leaves a gate as open as it was.
LEMMA BotInv == ASSUME PolicyInv, BotStep PROVE PolicyInv'
<1>1. TypeOK'
  BY TypeStep DEF PolicyInv, Next
<1>2. /\ pull' = pull /\ run' = run /\ report' = report /\ check' = check
      /\ waiting' = waiting /\ events' = events
  BY DEF BotStep, SandboxValidated, SignalReady, SandboxDestroyed
<1>3. \A l \in {"skip", "required"} : l \in present' <=> l \in present
  BY DEF BotStep, SandboxValidated, SignalReady, SandboxDestroyed
<1>4. /\ latest'["skip"] = latest["skip"]
      /\ \/ latest'["validated"] = latest["validated"]
         \/ latest'["validated"] = [by |-> "bot", at |-> events]
  BY DEF BotStep, SandboxValidated, SignalReady, SandboxDestroyed, PolicyInv,
         TypeOK, Judged, HumanTrusted, SystemTrusted
<1>5. ASSUME NEW p, p.date <= events, Gated(p) PROVE Gated(p)'
  BY <1>3, <1>4, <1>5 DEF Gated
<1>6. SuccessMeansGated'
  <2>1. Gated(pull) => Gated(pull)'
    BY <1>2, <1>5 DEF PolicyInv, Gated
  <2>2. QED
    BY <1>2, <2>1 DEF SuccessMeansGated, PolicyInv, Gated
<1>7. LabelsTellTheCheck'
  BY <1>2, <1>3 DEF LabelsTellTheCheck, PolicyInv
<1>8. ASSUME NEW event, EventFits(event)
      PROVE  EventFits(event)'
  BY <1>2, <1>3, <1>8 DEF EventFits, SeenAs
<1>9. RunFits => RunFits'
  <2>1. SUFFICES ASSUME RunFits PROVE RunFits'
    OBVIOUS
  <2>2. run.event.pull.date <= events
    BY <2>1 DEF RunFits, EventFits, SeenAs, PolicyInv
  <2>3. Gated(run.event.pull) => Gated(run.event.pull)'
    BY <1>2, <1>5, <2>2 DEF Gated
  <2>4. ReportFits => ReportFits'
    BY <1>2, <2>3 DEF ReportFits
  <2>5. LabelsFit => LabelsFit'
    BY <1>2, <1>3 DEF LabelsFit
  <2>6. EventFits(run.event)'
    BY <1>2, <1>3, <2>1 DEF RunFits, EventFits, SeenAs
  <2>7. QED
    BY <1>2, <2>1, <2>3, <2>4, <2>5, <2>6 DEF RunFits
<1>10. UnderWay => UnderWay'
  BY <1>2, <1>9 DEF UnderWay
<1>11. \A event \in waiting' : EventFits(event)'
  BY <1>2, <1>8 DEF PolicyInv
<1>12. QED
  BY <1>1, <1>2, <1>6, <1>7, <1>10, <1>11 DEF PolicyInv

\* A step inside a run, with what it leaves alone: it keeps the invariant if
\* it keeps a run that nothing has cancelled fitting.
LEMMA WithinRun ==
    ASSUME PolicyInv, TypeOK', run.at # "done", run'.at # "done",
           "skip" \in present' <=> "skip" \in present,
           UNCHANGED <<pull, latest, waiting, check, events>>,
           waiting = {} /\ RunFits => RunFits'
    PROVE  PolicyInv'
<1>1. check' = "pending"
  BY DEF PolicyInv, UnderWay
<1>2. \A event \in waiting' : EventFits(event)'
  BY DEF PolicyInv, EventFits, SeenAs
<1>3. UnderWay'
  BY <1>1 DEF PolicyInv, UnderWay
<1>4. SuccessMeansGated' /\ LabelsTellTheCheck'
  BY <1>1 DEF SuccessMeansGated, LabelsTellTheCheck
<1>5. QED
  BY <1>2, <1>3, <1>4 DEF PolicyInv

\* What is resolved fits: a label that is trusted for the time of the event
\* is trusted for that of the commit, which is not later.
LEMMA ResolveInv == ASSUME PolicyInv, Resolve PROVE PolicyInv'
<1>1. TypeOK'
  BY TypeStep DEF PolicyInv, Next, RunStep
<1>2. /\ run \in Runs /\ run.event \in Events /\ run.event.pull \in Pulls
      /\ run.at = "resolve"
  BY DEF PolicyInv, TypeOK, Runs, Events, Resolve
<1>3. PICK files \in {run.event.pull.files, {}},
           since \in {run.event.pull.date, run.event.when} :
         run' = [run EXCEPT !.at = "evaluate", !.files = files,
                            !.trusted = Trusted(run.event.labels, since)]
  BY DEF Resolve
<1> DEFINE trusted == Trusted(run.event.labels, since)
<1>4. /\ run'.at = "evaluate" /\ run'.event = run.event
      /\ run'.files = files /\ run'.trusted = trusted
      /\ run'.waited = run.waited
  BY <1>2, <1>3 DEF Runs
<1>5. /\ UNCHANGED <<pull, latest, waiting, check, events>>
      /\ present' = present
  BY DEF Resolve
<1>6. ASSUME RunFits, Waived(trusted) PROVE Gated(run.event.pull)
  <2>1. ASSUME "skip" \in trusted PROVE Gated(run.event.pull)
    BY <1>6, <2>1 DEF Trusted, HumanTrusted, SystemTrusted, RunFits,
                      EventFits, Gated
  <2>2. ASSUME "validated" \in trusted PROVE Gated(run.event.pull)
    <3>1. latest["validated"].by = "bot" /\ latest["validated"].at >= since
      BY <2>2 DEF Trusted, HumanTrusted, SystemTrusted
    <3>2. /\ latest["validated"].at \in Nat /\ since \in Nat
          /\ run.event.pull.date \in Nat /\ run.event.when \in Nat
      BY <1>2, <1>3, PolicyAssumption
         DEF PolicyInv, TypeOK, Judged, SystemTrusted, Times, Events, Pulls
    <3>3. since >= run.event.pull.date
      BY <1>3, <1>6, <3>2 DEF RunFits, EventFits
    <3>4. QED
      BY <3>1, <3>2, <3>3 DEF Gated
  <2>3. QED
    BY <1>6, <2>1, <2>2 DEF Waived
<1>7. RunFits => RunFits'
  <2>1. SUFFICES ASSUME RunFits PROVE RunFits'
    OBVIOUS
  <2>2. EventFits(run.event)'
    BY <1>4, <1>5, <2>1 DEF RunFits, EventFits, SeenAs
  <2>3. ~run'.waited => LabelsFit'
    BY <1>2, <1>4, <1>5, <2>1 DEF RunFits, LabelsFit
  <2>4. Waived(run'.trusted) => Gated(run.event.pull)'
    BY <1>4, <1>5, <1>6, <2>1 DEF Gated
  <2>5. run'.files \in {run'.event.pull.files, {}}
    BY <1>4
  <2>6. QED
    BY <1>4, <2>2, <2>3, <2>4, <2>5 DEF RunFits
<1>8. QED
  BY <1>1, <1>2, <1>4, <1>5, <1>7, WithinRun

\* A report fits, since the waivers that it counts hold.
LEMMA EvaluateInv == ASSUME PolicyInv, Evaluate PROVE PolicyInv'
<1>1. TypeOK'
  BY TypeStep DEF PolicyInv, Next, RunStep
<1>2. /\ run \in Runs /\ run.event.pull \in Pulls /\ run.at = "evaluate"
      /\ run.trusted \in SUBSET Judged
  BY DEF PolicyInv, TypeOK, Runs, Events, Evaluate
<1>3. /\ run'.at = "reconcile" /\ run'.event = run.event
      /\ run'.waited = run.waited
  BY <1>2 DEF Evaluate, Runs
<1>4. /\ UNCHANGED <<pull, latest, waiting, check, events>>
      /\ present' = present
      /\ report' = Evaluated([run.event.pull EXCEPT !.files = run.files],
                             run.trusted)
  BY DEF Evaluate
<1>5. RunFits => RunFits'
  <2>1. SUFFICES ASSUME RunFits PROVE RunFits'
    OBVIOUS
  <2>2. EventFits(run.event)'
    BY <1>3, <1>4, <2>1 DEF RunFits, EventFits, SeenAs
  <2>3. ~run'.waited => LabelsFit'
    BY <1>2, <1>3, <1>4, <2>1 DEF RunFits, LabelsFit
  <2>4. ReportFits'
    <3>1. /\ run.files \in {run.event.pull.files, {}}
          /\ Waived(run.trusted) => Gated(run.event.pull)
      BY <1>2, <2>1 DEF RunFits
    <3>2. /\ "required" \in report'.labels
                <=> Required(run.event.pull) /\ report'.files # {}
          /\ Required(run.event.pull) /\ report'.files # {} /\ ~report'.block
                => Waived(run.trusted)
      BY <1>2, <1>4, <3>1, ResolvedAgrees
    <3>3. Gated(run.event.pull)' <=> Gated(run.event.pull)
      BY <1>3, <1>4 DEF Gated
    <3>4. QED
      BY <1>3, <3>1, <3>2, <3>3 DEF ReportFits, Required, Enforceable
  <2>5. QED
    BY <1>3, <2>2, <2>3, <2>4 DEF RunFits
<1>6. QED
  BY <1>1, <1>2, <1>3, <1>4, <1>5, WithinRun

LEMMA EvaluatorRaisesInv == ASSUME PolicyInv, EvaluatorRaises PROVE PolicyInv'
<1>1. TypeOK'
  BY TypeStep DEF PolicyInv, Next, RunStep
<1>2. run \in Runs /\ run.at = "evaluate"
  BY DEF PolicyInv, TypeOK, EvaluatorRaises
<1>3. /\ run'.at = "reconcile" /\ run'.event = run.event
      /\ run'.waited = run.waited /\ run'.failed
  BY <1>2 DEF EvaluatorRaises, Runs
<1>4. /\ UNCHANGED <<pull, latest, waiting, check, events>>
      /\ present' = present /\ report'.decision = "error"
  BY DEF EvaluatorRaises, Broken
<1>5. RunFits => RunFits'
  <2>1. SUFFICES ASSUME RunFits PROVE RunFits'
    OBVIOUS
  <2>2. EventFits(run.event)'
    BY <1>3, <1>4, <2>1 DEF RunFits, EventFits, SeenAs
  <2>3. ~run'.waited => LabelsFit'
    BY <1>2, <1>3, <1>4, <2>1 DEF RunFits, LabelsFit
  <2>4. ReportFits'
    BY <1>3, <1>4 DEF ReportFits
  <2>5. QED
    BY <1>3, <2>2, <2>3, <2>4 DEF RunFits
<1>6. QED
  BY <1>1, <1>2, <1>3, <1>4, <1>5, WithinRun

\* Where no call fails, the label is as the report has it after a
\* reconciliation from the labels of the event, which are still the present
\* ones unless the run waited.
LEMMA ReconcileInv == ASSUME PolicyInv, Reconcile PROVE PolicyInv'
<1>1. TypeOK'
  BY TypeStep DEF PolicyInv, Next, RunStep
<1>2. run \in Runs /\ run.at = "reconcile" /\ report.labels \subseteq Governance
  BY DEF PolicyInv, TypeOK, Reports, Reconcile
<1>3. PICK dealt \in {{}, {"required"}, Governance} :
         LET added == dealt \cap (report.labels \ run.event.labels)
             gone == dealt \cap (run.event.labels \ report.labels)
         IN  /\ run.event.pull.kind = "fork" => dealt = Governance
             /\ present' = IF run.event.pull.kind = "fork" THEN present
                           ELSE (present \ gone) \cup added
             /\ run' = [run EXCEPT !.at = "conclude",
                            !.failed = run.failed \/ dealt # Governance]
  BY DEF Reconcile
<1>4. /\ run'.at = "conclude" /\ run'.event = run.event
      /\ run'.waited = run.waited
      /\ run.failed => run'.failed
      /\ dealt # Governance => run'.failed
  BY <1>2, <1>3 DEF Runs
<1>5. UNCHANGED <<pull, latest, waiting, check, events>> /\ report' = report
  BY DEF Reconcile
<1>6. "skip" \in present' <=> "skip" \in present
  BY <1>2, <1>3 DEF Governance
<1>7. ASSUME ~run'.failed, run.event.pull.kind # "fork",
             "required" \in run.event.labels <=> "required" \in present
      PROVE  "required" \in present' <=> "required" \in report.labels
  BY <1>3, <1>4, <1>7 DEF Governance
<1>8. RunFits => RunFits'
  <2>1. SUFFICES ASSUME RunFits PROVE RunFits'
    OBVIOUS
  <2>2. EventFits(run.event)'
    BY <1>4, <1>5, <1>6, <2>1 DEF RunFits, EventFits, SeenAs
  <2>3. ~run'.waited => LabelsFit'
    BY <1>2, <1>4, <1>5, <1>7, <2>1 DEF RunFits, LabelsFit
  <2>4. Gated(run.event.pull) => Gated(run.event.pull)'
    BY <1>4, <1>5, <1>6 DEF Gated
  <2>5. ReportFits
    BY <1>2, <2>1 DEF RunFits
  <2>6. ReportFits'
    BY <1>4, <1>5, <2>4, <2>5 DEF ReportFits, Required, Enforceable
  <2>7. QED
    BY <1>4, <2>2, <2>3, <2>6 DEF RunFits
<1>9. QED
  BY <1>1, <1>2, <1>4, <1>5, <1>6, <1>8, WithinRun

\* The end of a run: what a run that nothing cancelled concludes must be
\* right; otherwise the event that has waited starts the next one.
LEMMA EndsInv ==
    ASSUME PolicyInv, TypeOK', run.at # "done",
           NEW conclusion \in {"success", "blocked", "error"},
           Ends(conclusion),
           "skip" \in present' <=> "skip" \in present,
           UNCHANGED <<pull, latest, report, events>>,
           waiting = {} /\ check' = conclusion
              => SuccessMeansGated' /\ LabelsTellTheCheck'
    PROVE  PolicyInv'
<1>1. waiting' = {}
  BY EndsType DEF PolicyInv
<1>2. CASE waiting = {} /\ check' = conclusion /\ run' = [run EXCEPT !.at = "done"]
  <2>1. run'.at = "done"
    BY <1>2 DEF PolicyInv, TypeOK, Runs
  <2>2. QED
    BY <1>1, <1>2, <2>1 DEF PolicyInv
<1>3. ASSUME NEW event \in waiting, run' = Started(event, TRUE), check' = check
      PROVE  PolicyInv'
  <2>1. run'.at = "resolve" /\ run'.event = event /\ run'.waited
    BY <1>3 DEF Started
  <2>2. EventFits(event)
    BY <1>3 DEF PolicyInv
  <2>3. EventFits(run.event)'
    BY <2>1, <2>2 DEF EventFits, SeenAs
  <2>4. RunFits'
    BY <2>1, <2>3 DEF RunFits
  <2>5. check' = "pending"
    BY <1>3 DEF PolicyInv, UnderWay
  <2>6. SuccessMeansGated' /\ LabelsTellTheCheck'
    BY <2>1, <2>5 DEF SuccessMeansGated, LabelsTellTheCheck
  <2>7. QED
    BY <1>1, <2>1, <2>4, <2>5, <2>6 DEF PolicyInv, UnderWay
<1>4. QED
  BY <1>2, <1>3, EndsType DEF PolicyInv

LEMMA ConcludeInv == ASSUME PolicyInv, Conclude PROVE PolicyInv'
<1>1. TypeOK'
  BY TypeStep DEF PolicyInv, Next, RunStep
<1>2. /\ run \in Runs /\ run.event.pull \in Pulls /\ run.at = "conclude"
      /\ pull \in Pulls
  BY DEF PolicyInv, TypeOK, Runs, Events, Conclude
<1>3. UNCHANGED <<pull, latest, report, events>>
  BY DEF Conclude
<1>4. /\ "skip" \in present' <=> "skip" \in present
      /\ "required" \in present' <=> "required" \in present
  BY DEF Conclude, MarkReady
<1>5. Conclusion \in {"success", "blocked", "error"} /\ Ends(Conclusion)
  BY DEF Conclude, Conclusion
<1>6. ASSUME waiting = {}, check' = Conclusion
      PROVE  SuccessMeansGated' /\ LabelsTellTheCheck'
  <2>1. RunFits /\ ReportFits /\ EventFits(run.event)
    BY <1>2, <1>6 DEF PolicyInv, UnderWay, RunFits
  <2>2. run' = [run EXCEPT !.at = "done"]
    BY <1>5, <1>6 DEF Ends
  <2>3. run'.waited = run.waited
    BY <1>2, <2>2 DEF Runs
  <2>4. SeenAs(run.event.pull, pull)
    BY <2>1 DEF EventFits
  <2>5. ASSUME ~pull.draft \/ Required(pull)
        PROVE  Required(run.event.pull) <=> Required(pull)
    BY <1>2, <2>4, <2>5 DEF SeenAs, Required, Enforceable, Pulls
  <2>6. Gated(run.event.pull) => Gated(pull)'
    BY <1>3, <1>4, <2>4 DEF Gated, SeenAs
  <2>7. SuccessMeansGated'
    <3>1. SUFFICES ASSUME check' = "success", Required(pull)', report'.files # {}
                   PROVE  Gated(pull)'
      BY DEF SuccessMeansGated
    <3>2. ~run.failed /\ ~report.block
      BY <1>6, <3>1 DEF Conclusion
    <3>3. Required(pull) /\ report.files # {}
      BY <1>3, <3>1
    <3>4. Gated(run.event.pull)
      BY <2>1, <2>5, <3>2, <3>3 DEF ReportFits
    <3>5. QED
      BY <2>6, <3>4
  <2>8. LabelsTellTheCheck'
    <3>1. SUFFICES ASSUME ~run.waited, check' # "error", pull.kind = "own",
                          ~pull.draft
                   PROVE  "required" \in present'
                             <=> Required(pull) /\ report.files # {}
      BY <1>3, <2>3 DEF LabelsTellTheCheck
    <3>2. ~run.failed
      BY <1>6, <3>1 DEF Conclusion
    <3>3. "required" \in present <=> "required" \in report.labels
      BY <1>2, <2>1, <2>4, <3>1, <3>2 DEF RunFits, LabelsFit, SeenAs
    <3>4. "required" \in report.labels <=> Required(pull) /\ report.files # {}
      BY <2>1, <2>5, <3>1, <3>2 DEF ReportFits
    <3>5. QED
      BY <1>4, <3>3, <3>4
  <2>9. QED
    BY <2>7, <2>8
<1>7. QED
  BY <1>1, <1>2, <1>3, <1>4, <1>5, <1>6, EndsInv

\* A run that dies concludes nothing that the properties speak of.
LEMMA RunDiesInv == ASSUME PolicyInv, RunDies PROVE PolicyInv'
<1>1. TypeOK'
  BY TypeStep DEF PolicyInv, Next, RunStep
<1>2. /\ run.at # "done" /\ Ends("error")
      /\ UNCHANGED <<pull, present, latest, report, events>>
  BY DEF RunDies
<1>3. check' = "error" => SuccessMeansGated' /\ LabelsTellTheCheck'
  BY DEF SuccessMeansGated, LabelsTellTheCheck
<1>4. QED
  BY <1>1, <1>2, <1>3, EndsInv

LEMMA PolicyStep == ASSUME PolicyInv, [Next]_vars PROVE PolicyInv'
<1>1. CASE HumanStep /\ ~ConvertToDraft
  <2>1. TypeOK'
    BY <1>1, TypeStep DEF PolicyInv, Next
  <2>2. QED
    BY <1>1, <2>1, HumanTriggers, TriggerFits
<1>2. CASE UNCHANGED vars
  BY <1>2 DEF vars, PolicyInv, TypeOK, UnderWay, RunFits, EventFits, SeenAs,
              ReportFits, LabelsFit, Gated, SuccessMeansGated,
              LabelsTellTheCheck
<1>3. QED
  BY <1>1, <1>2, DraftInv, BotInv, ResolveInv, EvaluateInv,
     EvaluatorRaisesInv, ReconcileInv, ConcludeInv, RunDiesInv
     DEF Next, RunStep

(***************************************************************************)
(* The theorems.                                                           *)
(***************************************************************************)
LEMMA PolicyInvariance == Spec => []PolicyInv
<1>1. Init => PolicyInv
  BY PolicyInit
<1>2. PolicyInv /\ [Next]_vars => PolicyInv'
  BY PolicyStep
<1>3. QED
  BY <1>1, <1>2, PTL DEF Spec

\* The gate: a critical change whose files were resolved has the check's
\* success only with the owner's waiver or with a validation not older than
\* its commit, over every order of labels, pushes, drafts and of runs that
\* are cancelled, and whatever a cancelled run still writes.
THEOREM CriticalChangesAreGated == Spec => []SuccessMeansGated
<1>1. PolicyInv => SuccessMeansGated
  BY DEF PolicyInv
<1>2. QED
  BY <1>1, PolicyInvariance, PTL

\* The labels: after a run that cancelled no other and did not fail,
\* sandbox-required says whether the pull request, as it is then, is
\* critical, if the files were resolved.
THEOREM LabelsAreCurrent == Spec => []LabelsTellTheCheck
<1>1. PolicyInv => LabelsTellTheCheck
  BY DEF PolicyInv
<1>2. QED
  BY <1>1, PolicyInvariance, PTL

\* The report: the evaluator's decision, its block, its mode and its labels
\* never contradict each other.
THEOREM ReportsAgree == Spec => []ReportAgrees
<1>1. Broken.decision = "error" /\ ~Broken.block /\ Broken.labels = {}
  BY DEF Broken
<1>2. Init => ReportAgrees
  BY <1>1 DEF Init, ReportAgrees
<1>3. ASSUME TypeOK, ReportAgrees, [Next]_vars PROVE ReportAgrees'
  <2>1. CASE report' = report
    BY <1>3, <2>1 DEF ReportAgrees
  <2>2. CASE EvaluatorRaises
    BY <1>1, <2>2 DEF EvaluatorRaises, ReportAgrees
  <2>3. CASE Evaluate
    <3>1. /\ [run.event.pull EXCEPT !.files = run.files] \in Pulls
          /\ run.trusted \in SUBSET Judged
      BY <1>3 DEF TypeOK, Runs, Events, Pulls
    <3>2. report' = Evaluated([run.event.pull EXCEPT !.files = run.files],
                              run.trusted)
      BY <2>3 DEF Evaluate
    <3>3. /\ report'.decision = "fail" <=> report'.block
          /\ report'.block => report'.mode \in {"sandbox_required",
                                                "sandbox_deploy_requested"}
          /\ "required" \in report'.labels /\ ~report'.block
             => report'.mode \in {"sandbox_validated", "sandbox_waived"}
      BY <3>1, <3>2, EvaluatedAgrees
    <3>4. QED
      BY <3>3 DEF ReportAgrees
  <2>4. CASE HumanStep
    BY <1>3, <2>1, <2>4
       DEF HumanStep, Human, AddLabel, RemoveLabel, Push, ConvertToDraft,
           ReadyForReview, ReviewOrReopen
  <2>5. CASE BotStep \/ Resolve \/ Reconcile \/ Conclude \/ RunDies
    BY <1>3, <2>1, <2>5
       DEF BotStep, SandboxValidated, SignalReady, SandboxDestroyed, Resolve,
           Reconcile, Conclude, RunDies
  <2>6. QED
    BY <1>3, <2>1, <2>2, <2>3, <2>4, <2>5 DEF Next, RunStep, vars
<1>4. QED
  BY <1>2, <1>3, PolicyTypeCorrect, PTL DEF Spec
=============================================================================
