# Verification of Face Detector

TLA+ models of the concurrent and failure-prone parts of Face Detector, TLC
configurations that check them on small instances, and TLAPS proofs of their most
important properties for every value of the constants. Paths below are relative to
`src/`.

## The system

Cameras at doors run an *edge client*: it finds faces in frames and sends them to
the *backend*, which embeds a face as a vector, looks for the nearest stored one,
keeps a snapshot, writes a recognition event and answers *granted* or *rejected*.
Administrators keep the list of employees and enroll their faces, themselves or by
handing out enrollment links. The backend runs as several replicas over one
PostgreSQL database (pgvector) and one object store. *Sandboxes* of the whole system
are created and destroyed for pull requests by GitHub workflows, which call Python
scripts for what they decide.

| Component | State | Operations | Talks to |
|---|---|---|---|
| Resilience (`backend/app/utils/resilience.py`) | per breaker: state, failure count, reopening time; per call: attempt | admit, reject, retry, succeed, fail | wraps commits, searches and uploads; one breaker per service module and process |
| Employee registry (`services/employee_registry.py`) | `employees`: active, deleted_at | create, update, delete, restore, get, list | database |
| Face embeddings (`services/vector_search_service.py`) | `face_embeddings`: one row per employee | upsert, delete, search | database, breaker |
| Enrollment links (`services/enrollment_session_service.py`) | `enrollment_sessions`: status, employee, expiry | create, get (expires), complete, revoke | database |
| Admin routes (`api/endpoints_admin.py`) | the requests in progress | ten routes that combine the three above | all three services, embedding model |
| Recognition (`services/recognition_service.py`, `api/endpoints_vision.py`) | `recognition_events`, dedupe key | recognise, save event | embedding model, search, store, database, breaker |
| Snapshot store (`services/minio_service.py`) | objects, bucket initialised, client | upload | object store, breaker |
| Embedding model (`services/deepface_service.py`) | loaded model | embed | - |
| Authentication (`services/auth_service.py`, `api/endpoints_auth.py`) | none | log in, verify token | - |
| Verification client (`edge-client/.../clients/backend.py`) | an executor with one worker, its futures | submit, post faces, cancel, shut down | backend by HTTP with a timeout |
| Web kiosk (`edge-client/.../ui/web_kiosk.py`) | snapshot, picture, thread, stop event, the request under way | start, stop, camera loop, poll, scan | camera, verification client |
| OpenCV kiosk (`edge-client/.../app.py`, `ui/opencv_display.py`) | overlay, window, the request under way | one loop: poll, read, scan, draw, leave | camera, window, verification client |
| Admin frontend (`frontend-admin/src`) | token, list of employees, forms | fetch, create, edit, delete, capture | admin routes |
| Sandbox lifecycle (`.github/workflows/sandbox-auto-apply.yml`, `sandbox-auto-destroy.yml`, `sandbox-janitor.yml`, `infrastructure.yml`) | labels and heads of pull requests, runs and concurrency groups, what was built | evaluate, quota, apply, mark, bootstrap, destroy, unmark | GitHub, AWS |
| Sandbox policy (`sandbox-policy.yml`, `scripts/evaluate_sandbox_requirement.py`) | labels, who set them last, the run in progress and the event that waits for it, the check | resolve files and trust, evaluate, reconcile labels, conclude | GitHub |
| Sandbox teardown (`infrastructure.yml`, `scripts/cleanup_sandbox_aws_orphans.py`) | cloud resources, Terraform's state, the job's step | clean up, drop the namespace, destroy, retry, verify | AWS, Kubernetes, Terraform |
| Workflow context (`scripts/resolve_workflow_context.py`) | none; its callers keep runs and stacks | derive identity, cluster name and state key, or refuse | every deploying workflow |
| CI and release scripts (other `scripts/*.py`) | none | classify, check, resolve digests | workflows |
| Deployment (`terraform`, `deploy`, `nginx`, `policies`) | declarative | - | - |

### What is hard

* **Several commits in one request.** A delete deactivates the employee and then
  drops the face; a completion stores the face and then uses up the link.
* **State read before a wait.** A capture looks the employee and the link up, then
  reads uploads and computes for seconds, then writes.
* **Read-then-write without a lock.** Every table is written by code that first
  reads; the database runs at READ COMMITTED, and the ORM sends only columns whose
  value differs from the one it loaded.
* **Replicas.** Coroutine routes (`enroll`, `enroll-samples`, `complete`,
  `recognize`) block their replica's event loop while they compute and commit, so two
  of them interleave only across replicas (production runs at least two); plain `def`
  routes run in a thread pool and interleave with everything.
* **Failure.** Commits fail, confirmations are lost, breakers open, processes die.
* **Breakers.** Bookkeeping under a lock, the guarded call outside of it.
* **Kiosks.** `_backend_future` is shared by the camera thread and `stop()` without a
  lock; the join of `stop()` gives up after two seconds; picture and status are written
  under a lock, but one after the other; the client times out and the backend goes on.
* **Workflow runs** work with what their event carried, while labels, heads and states
  move on; newer runs cancel older ones half way, whose steps with `always()` write on; a
  concurrency group keeps one run waiting and drops it for the next; a failure in a
  process substitution is lost.
* **A cloud that answers before it acts.** Accepted deletions happen later, and groups
  and controllers create again what was deleted.
* **Names that are cut.** Cluster names keep 29 characters, state keys are whole.

### What makes each component correct

* *Resilience*: its three fields agree after any overlapping of calls; it opens after
  enough failures, does not reject for ever, and admitted calls end.
* *Enrollment*: a face captured through a link is the link's employee's; a link is
  completed only after its face is stored, expires only when overdue, never opens
  again and admits no capture once closed; a deleted employee has no face; a request
  takes effect as a whole.
* *Recognition*: no answer without an event, at most one event of an employee in a
  window, refused requests leave none, events refer to stored images, nobody waits
  for ever.
* *Kiosks*: one request at a time; what a person is told is what the backend did; an
  offline kiosk shows no old picture; "verifying" ends; a stop ends the loop, closes the
  camera and leaves nothing to be sent.
* *Sandbox lifecycle*: the label `sandbox-active` says what exists, and every sandbox
  goes away in the end.
* *Sandbox policy*: a critical change passes only when it was waived or its head was
  validated, and the labels say what the check found. The code keeps less than this, see
  below.
* *Sandbox teardown*: what is marked inactive is gone, and repeated destroys get there.
* *Workflow context*: one cluster per state, no two automatic runs on one state, every
  sandbox can be addressed by a destroy, which removes nothing else.

`PROJECT.json` lists the hazards line by line, with the properties aimed at each.

## Modules

| Module | Role |
|---|---|
| `CircuitBreaker`, `MCCircuitBreaker`, `CircuitBreakerProofs` | the breaker with the retry loop inside it |
| `Enrollment`, `MCEnrollment` | the admin requests, statement by statement |
| `EnrollmentPromise`, `EnrollmentRefinement`, `EnrollmentProofs` | what the interface promises, the mapping to it, and the proofs |
| `Recognition`, `MCRecognition`, `RecognitionProofs` | scans on several replicas |
| `VerificationRequests` | the one-worker executor and the posts it runs, for both kiosks |
| `Kiosk` | the web kiosk: lifespan and camera thread over `VerificationRequests` |
| `DesktopKiosk` | the OpenCV kiosk: its loop over `VerificationRequests` |
| `EdgeClient`, `MCEdgeClient`, `KioskProofs` | the program, which runs one kiosk or the other |
| `SandboxLifecycle`, `MCSandboxLifecycle`, `SandboxLifecycleProofs` | sandboxes of pull requests |
| `SandboxPolicy`, `MCSandboxPolicy`, `SandboxPolicyProofs` | the evaluator and the check around it |
| `SandboxTeardown`, `MCSandboxTeardown`, `SandboxTeardownProofs` | the destroy job against the cloud |
| `WorkflowContext`, `MCWorkflowContext`, `WorkflowContextProofs` | identities, names and state keys in every lane |

Definitions that carry a comment "Defect:" are wrong variants of the definition that
follows them. Nothing uses them; they show that the properties tell the difference.

### CircuitBreaker

`state`, `failureCount` and `reopenedAt` are the fields of the class. `attempt[c]` is
the loop variable of `retry_operation` in thread `c`, 0 when it makes no call;
`admittedAt[c]` is the local `now` that `call` took when it admitted the thread, which
is what a failure stores as `_reopened_at`. `Reject` and `Admit` are the first critical
section, `CallFails` and `CallSucceeds` the second and third; between them other
threads move. A breaker that is half open admits everybody, as the code does.

### Enrollment

A handler is a request being served. Its field `at` names the next database statement
it will issue, and each action is one statement with the code up to the next one.
`loaded` is the employee row a delete or a restore loaded, `holds` says that the
embedding row found by the last query still exists. What the model relies on:

* a flush and the commit that causes it are one step: no lock is held by a read, and
  a write and its commit follow each other without waiting for anything but the
  database;
* `DropEmbedding` on a row that is gone already succeeds (the ORM only warns), whereas
  `ReplaceEmbedding` on one fails the flush, and `InsertEmbedding` of a second row
  violates the unique index. After a failed flush or commit the retries find the
  session's transaction inactive, so they change nothing and the request ends in an
  error;
* `complete_session` reads the status again because the commit of the embedding has
  expired the loaded object (`Recheck`); its update does not depend on that read
  (`ConsumeLink`);
* `Deactivate` and `Reactivate` send a column only when it differs from the loaded
  one;
* `Fail` and `Crash` end a request at any statement; what is not committed is rolled
  back. A 503 comes only from a refused commit of an embedding by an open breaker;
* `Capture` is reading and embedding the images: bad samples or their number are a
  400, a missing model a 503.

`reply` is the response sent by the last step; `enrolled` is a history variable.
The contents of vectors, names and metadata are left out; an embedding is known by
where it came from (`Sources`).

`EnrollmentPromise` says what an administrator may expect: each request takes effect
at one instant. `EnrollmentRefinement` maps the tables to it; between the two commits
of a delete or a completion the mapping already shows the final result.

### Recognition

A scan goes through `embed`, `search`, `upload`, `key`, `insert` and `commit`. The
route never awaits after it has the image, so `Start` needs a free replica and a
replica works on one scan. `FlushEvent` is the INSERT: a key committed by another scan
is a duplicate, answered as a success; a key another scan has inserted and not yet
committed (`Held`) makes the insert wait, as PostgreSQL's unique index does.
`CommitEvent` may fail before or after the database took the commit; `Crash` likewise.
Whether a breaker refuses a search, an upload or a commit is left open, which includes
every behaviour of module `CircuitBreaker`. The clock is shared: replicas whose clocks
differ disagree on the window, and the code does nothing about that. A scan that has
ended no longer says which replica it was on (`Leave`), which no code reads.

### The kiosks

`VerificationRequests` is the part both kiosks have: requests are numbered in the order
of their submission, `request[r]` is the state of the future with its result, and
`PostFace` is one round of the loop in `send_crops_to_backend`. A grant is counted in
`granted` whether or not its answer arrives, so a client's timeout is `FaceGranted` with
the result `"error"`. `Cancel` and `Shutdown` are those of `concurrent.futures`.

`Kiosk` has the statements of `stop()` one by one (`lifespan`) and those of the camera
thread between two accesses to shared state (`thread`). `StopLooksAtFuture` and
`StopCancels` are the two reads of `_backend_future`; `StopAborts` is the
`AttributeError` when the camera thread took the result between them. `StopJoins`
returns with the thread alive or dead, which is all a join with a timeout says. `shown`
and `picture` are `_snapshot` and `_latest_jpeg`; each action writes what one critical
section writes. `LoopRaises` is any exception after the camera was opened, among them
`submit` on an executor that was shut down. The object is started once per process: the
application's lifespan calls `start` and `stop`, and nothing else does.

`DesktopKiosk` is a loop in one thread; a statement of it that touches no shared object
is joined with the next. `EdgeClient` is `main()`: it instantiates `DesktopKiosk` over
the same requests, and one of the two runs.

### SandboxLifecycle

Each event of a pull request does what GitHub and the workflows' triggers do at that
moment: it changes the pull request and starts, cancels or queues runs. `TriggerApply`
is an event of `sandbox-auto-apply.yml` (its `concurrency` has `cancel-in-progress`),
`TriggerDestroy` one of `sandbox-auto-destroy.yml`. That workflow and the
`infrastructure.yml` it calls compute the same group (`sandbox-auto-destroy.yml:16`,
`infrastructure.yml:112`); the model has the two in it as one entry. That GitHub may take a
caller and a callee in one group for a deadlock, and end the destroy before it has begun, is
among the outcomes of `DestroyFails`, which leaves the sandbox as it was or in part. A
cancelled apply leaves nothing, something or everything (`CancelApply`). A
group has one running and one waiting job, and a new one replaces the one that waits.
`MarkActive` and `MarkInactive` set and remove the labels at the end of the jobs.
Whether CI is green is known per head. When the janitor finds a sandbox too old is left
open; it picks only marked sandboxes of open pull requests.

### SandboxPolicy

The path patterns of the evaluator are sets of representative paths: a path stands for
all that match the same patterns. `Evaluated` is `evaluate_policy`: decision, mode,
block and labels are each a chain of conditions of their own, in the code's order. What
reaches the printed report only (approvals, CODEOWNERS, self-approval) is left out.

A run (`run`) carries its event: the pull request, its labels and the time. Its steps are
those of the workflow.

* `Resolve` lists the changed files, or none when the diff fails, and decides which labels of
  the event are trusted by what is known now (`latest`): reviewers' labels count when the
  owner set them, system labels when the bot set them not before the date of the head's
  commit (`Trusted`). A pull request has both dates, that of the commit (`date`) and that of
  its push (`pushed`), and the workflow sees the first only.
* `Evaluate` or `EvaluatorRaises` leaves a report. `Reconcile` and `Conclude` are the steps
  with `always()`; the calls of the first may fail part of the way, and `MarkReady` may leave
  `ready-for-deploy` on although it should go.
* `Trigger` is a new event. If a run is in progress it is cancelled, and the event waits for
  it to end (`waiting`; a later event takes its place): the cancelled run resolves nothing
  any more, but what follows a report still writes labels. `Ends` starts the run that waited,
  with the labels its event was sent with.
* `RunDies` is an end anywhere: a failing step, the time limit, a lost runner, or a
  cancelled step that is not finished.

`BotStep` is what other workflows do to the labels, which triggers nothing:
`SandboxValidated`, `SandboxDestroyed`, and `SignalReady`, which sets `ready-for-deploy`
whatever the check says. No workflow reads that label and no document says when it must be
absent, so no property is about it. The model relies on GitHub to start the next run of the
group after the cancelled one has ended, and leaves out pull requests with merge conflicts,
for which no run starts.

### SandboxTeardown

One resource of each kind the scripts know. `CleanKind` is one function of the clean-up
script, in the order of its `main`; what it may delete (`Deletable`) and what is left to
happen later (`Deletion`) follow its filters. `TerraformDestroys` succeeds when nothing
foreign is left in the network; the first failure is retried after a second clean-up,
a second one ends the job, and so does a call of the script, or the fetch of the cluster's
credentials before the namespace is dropped, that fails (`CleanupFails`). `Residual` is what the verification asks for: no groups, no
instances, and only free volumes. `CloudStep` is the external part.

### WorkflowContext

A run is a request of a lane; `Identity` gives the set of sandbox keys the script makes
of it, which is empty when it is refused. `ClusterName` and `StateKey` keep what the
strings keep of owner and branch: a slug's stem of 16 characters and a digest of six,
of which the name may cut off some (`DigestKept`). `Group` is the concurrency group that
`infrastructure.yml` computes from the inputs, before the script has run. A stack is
what an apply recorded; `Destroy` removes by state key and by cluster name. The
representation of an AWS resource, the sizes, roles and template paths are left out.

## Runs

| Run | Shows | Instance, states, time |
|---|---|---|
| `breaker` | fields agree, failed probes reopen, calls return, cooling ends | 3 threads, threshold 2, 2 attempts; 39 thousand, 15 s |
| `enrollment_concurrent` | what holds of links while two requests interleave and fail | 2 handlers, 2 employees, 1 link; 574 thousand (up to symmetry), 60 s |
| `enrollment_serial` | one request at a time implements `EnrollmentPromise`; inactive employees have no face | 1 handler, 2 employees, 1 link, every operation; 53 thousand, 12 s |
| `enrollment_revocation` | *violated*: a deleted employee keeps a face | 2 handlers |
| `recognition` | no answer without an event, one event in a window, scans that wait for each other's keys end | 3 scans, 2 replicas, 1 employee, 1 object; 304 thousand, 95 s |
| `recognition_snapshot` | *violated*: a snapshot is overwritten by the next scan | 2 scans, 1 replica |
| `edge_client` | both kiosks: one request at a time, true verdicts, no old picture while offline; stop and exit end what they should | 2 requests, 2 faces; 29 thousand, 14 s |
| `sandbox_lifecycle` | the label `sandbox-active` says what exists; marked sandboxes of open pull requests go | 1 pull request, 2 commits, 5 events; 27 thousand, 10 s |
| `sandbox_closed` | *violated*: a pull request closed during its apply keeps the sandbox | 1 pull request, 2 events |
| `sandbox_policy` | a critical change whose files were resolved passes only when gated; after a run that cancelled none the label tells whether the change is critical | 2 paths, 2 events; 2.6 million, 45 s |
| `sandbox_teardown` | what is marked inactive is gone; repeated destroys converge | 2 failing calls; 48 thousand, 9 s |
| `workflow_context` | one run and one cluster per state, no stack out of reach of a destroy, which removes nothing else; no lane destroys shared environments | 3 owners, 4 branches, all lanes, 1 pull request, 2 runs; 651 thousand, 110 s |

### Bounds

* *Threads, handlers, replicas*: two actors suffice for every conflict between two
  statements; the breaker has three threads, so that a late result of one meets a
  breaker opened by the second and probed by the third, and recognition has three
  scans, so that one holds a key, one waits, and one comes after either has ended.
* *Employees and links*: there are two employees where a link can be mixed up with the
  wrong one, and one link, since requests on different links touch different rows. Scans
  of different employees write different keys, so recognition has one; that no key is
  shared between employees is proved for any number. The concurrent enrollment run has
  no restore: its overlap with a delete leaves a mixed row, see below.
* *Time*: `SessionTTL` 1 and `MaxTime` 1 or 2 give a link before, at and after its
  time; `Window` 2 with `MaxTime` 2 gives scans in one window and across a boundary.
  The breaker's clock runs to 5 with a recovery time of 2: cooling, probing and
  cooling again. `Admit` does not start a call whose cooling could not end within
  `MaxTime`, and none above `MaxFailures`: both are bounds of the instance only.
* *Kiosks*: a second request is what a camera thread that outlived the join would submit
  after the stop; two faces give a rejection that goes on and one that ends the loop.
  `Scan` stops at `MaxRequests`; the thread then goes on without scans.
* *Sandboxes*: five events let an apply be cancelled, replaced in the group and followed
  by a destroy and another apply. Pull requests meet only in the owner's quota: with one
  of them the quota refuses nobody, and no checked property is about it. The policy run
  has a critical path and one that is heavy only, so that a change may be light (of none),
  recommended or required; two events after the opening let one run be cancelled by an event
  that waits and that another replaces. The theorems are for all paths and any number of
  events. Two failing calls let a destroy and its repetition both fail.
* *Workflow context*: one pull request next to the runs that name an owner and a branch
  is enough to have a sandbox addressed in every way. The cluster prefix has 17
  characters and the owners' slugs 9: the longest of which names keep the whole digest.
  What happens with longer ones is told below.
* *Deadlock* is not checked: clocks and events are bounded, requests end and kiosks are
  stopped, so the instances do stop. That nobody waits for ever is what the liveness
  properties say. The workflow context does not stop, and there deadlock is checked.
* *Symmetry* is used only where no liveness property is checked.

### Fairness

* `CircuitBreaker!FairSpec`: time passes, and an attempt that was started ends, because
  database and storage drivers time out. Nothing obliges a thread to call.
* `Recognition!FairSpec`: a scan that was taken up goes on. The weak fairness is on the
  regular steps together and not on failures or crashes, so that progress is not owed
  to an error; a wait in the database is not enabled and is not helped by it.
* Requests of `Enrollment` wait for nothing, so no liveness is stated for them.
* `EdgeSpec`: the loops, the worker (its posts have a timeout) and a `stop()` that has
  begun go on. Strong fairness of `Desktop!ReadFrame` says that a camera which is read
  again and again delivers a frame now and then; `ExitIsHeard` needs it, because the
  loop reads keys only where it draws: with a camera that never delivers one again no key is
  heard, and the property says nothing of it. Nobody is obliged to stop a kiosk.
* `SandboxLifecycle!FairSpec`: jobs go on; the janitor's schedule picks a sandbox that
  is marked again and again, whatever its age, since the night sweep takes all; and a
  destroy that is tried again and again succeeds once. Events of people are not fair.
* `SandboxTeardown!FairSpec`: the job goes on and is started again by the janitor;
  accepted deletions happen. Nothing obliges the cloud to create anything again, and
  calls fail a bounded number of times.

## Where the code and its documents differ

Checked:

1. **A deleted employee keeps a face** (`enrollment_revocation`). An enrollment that
   found the employee active stores its embedding after the delete has dropped the old
   one; the search does not look at `employees.active`, so the face still opens the door.
2. **Snapshots are overwritten** (`recognition_snapshot`). Object names repeat with
   every scan of a device.
3. **Sandboxes of closed pull requests stay** (`sandbox_closed`). The gate of the
   destroy asks for `sandbox-active`, which an apply sets at its end; the janitor lists
   open pull requests only. `docs/sandbox-decision-matrix.md:61` calls the destroy on
   close mandatory.

Stated in the models, with a counterexample that TLC finds when the definition takes the
place of the `INVARIANTS` in the configuration named:

4. **A diff that fails lets a critical change pass** (`CriticalChangesBlock`,
   `MCSandboxPolicy.cfg`). `sandbox-policy.yml:49` fetches the base with depth 1; when it has
   moved since the merge commit was made, `git diff base...HEAD` finds no merge base. Nobody
   sees its exit code in the process substitution (line 50): no files, fast lane, success.
   `docs/sandbox-decision-matrix.md:13` says "critical changes get `sandbox-required` and
   block merge until sandbox validation or an explicit owner waiver". What the check is worth
   when the files were resolved is `SuccessMeansGated`.
5. **A validation outlives its head** (`ValidationIsForHead`, `MCSandboxPolicy.cfg`). What
   counts is the date of the commit (`sandbox-policy.yml:131`): one written before a
   validation and pushed after it passes with the validation of the head before.
   `docs/sandbox-policy.md:30` says that system labels "are valid only when added by
   `github-actions[bot]` for the current PR head", and `docs/sandbox-decision-matrix.md:63`
   calls `sandbox-validated` "system state for the current PR head". `SuccessMeansGated` gives
   the current head only where it was pushed as soon as it was committed.
6. **A critical change loses its label** (`CriticalChangesAreLabelled`,
   `MCSandboxPolicy.cfg`). A run that an event cancels after its evaluation still reconciles
   labels (`always()`, `sandbox-policy.yml:170`); the next run goes by the labels its event
   was sent with (line 178) and does not repair it. `docs/sandbox-policy.md:16` says "the bot
   adds `sandbox-required`". The check itself blocks; what holds of the label is
   `LabelsTellTheCheck`.
7. **Shared environments cannot be destroyed** (`SharedCanBeDestroyed`,
   `MCWorkflowContext.cfg`). `README.md:184-191` tells users to create staging or production
   with `Infrastructure Management` and to "run `Infrastructure Management` with `destroy`
   when you are done for the day"; `scripts/resolve_workflow_context.py:358` refuses that in
   every lane. `SharedStaysUp` states what the script does, not what that document asks for.

Met while reading; the models have them, but no run states them:

* a delete that loads an inactive row before a restore commits sends `deleted_at` but
  not `active`, and leaves the employee active with a deletion time;
* two completions that both read "pending" both store a face, and the end of a link that
  overlaps another replaces it: a link that was revoked may read "completed"
  (`SettledStaysSettled` only says that it does not open again);
* a verdict may be replaced by the next message before a page fetches it or a window
  draws it;
* a web kiosk whose camera cannot be opened never tries again, and one whose loop raises
  keeps its last status, LIVE included; a `stop()` that meets the `AttributeError` leaves
  its executor open;
* two pull requests of one owner both pass the quota and both get a sandbox, although
  `docs/sandbox-decision-matrix.md:55` has one per owner;
* the label `sandbox-validated` triggers no new check, since what the bot does triggers no
  workflow;
* the OpenCV kiosk hears no key while its camera delivers no frame;
* a path that is critical without being heavy asks for no sandbox;
* cluster names lose a character of their digest for every character of a login above
  nine. From 15 on nothing of it is left: two `devops/*` branches of one owner then have
  sandboxes with one cluster name, and `DestroysOnlyItsOwn` fails with `SlugLength` 15;
* a bootstrap dispatched by hand without an owner works on the sandbox of "admin".

In the first two, and in 1., requests need not fail; that they overlap on one employee
or one link is enough. One at a time they keep the promise (`enrollment_serial`), and so
they do side by side as long as no two of them work on the same employee or link
(`ApartKeepsPromise`): locks on both, held for the whole request, would close all three.

## Proofs

All proofs are for any values of the constants (threads, handlers, replicas, employees,
links, scans, requests, pull requests, paths, owners, branches, failures, times) under
the assumptions the modules declare: positive threshold, attempts, window and time to
live; `"none"` is no name; digests have six characters and slugs at most 24. TLC
evaluates these assumptions in every run.

* `CircuitBreakerProofs`. The inductive invariant joins the type, `StateMatchesCount`
  and `CoolingStartsInThePast`. The agreement of the fields is inductive because
  every critical section writes all of the fields it changes: a success resets all
  three, and a failure below the threshold can only happen to a closed breaker.
  `FailedProbeReopens` follows, since a half-open breaker has a full count.
* `EnrollmentProofs`. `EnrollmentInv` adds to the types: a request is at one of its own
  statements (`Statement`); a completion works on the employee of its link and reaches
  its second commit only after its first; a token held by an issue request is stored by
  nobody else; a link keeps its employee and its time. The argument is rely-guarantee:
  a step of handler `h` keeps links (`LinksKept`) and leaves the work of others alone
  (`OthersWait`), so it is enough to look at `h` (`HandlerStep`). From it follow
  `LinkFaceIsItsEmployees`, `CompletedMeansEnrolled`, that links expire only when overdue
  (`ExpirySafety`) and the action property `SettledStaysSettled`. `ClosedLinkAdmitsNobody`
  looks at two steps of different requests: no statement of `h` enters the upload of a
  closed link (`ClosedLinkRefuses`), a request that arrives has not read its link yet
  (`ArrivalsWait`), and the others' requests stay where they are (`StepContinues`).
  The rest is about requests that do not meet (`Apart`): no two requests in progress work
  on one employee or on one link, while any number of others runs beside them. The
  invariant (`ApartInv`) says that a request still finds what its last statement found
  (`Found`), that no row is mixed, and that, unless something failed, a face is of an active
  employee or about to be dropped by the delete that dismissed its employee. A step of `h`
  writes only rows of its own employee and link (`Confined`), so others still find theirs
  (`OthersFound`) and the mapping changes at one employee and one link at most (`OwnStep`).
  Two results follow. Whatever fails, an answer of success is true (`SuccessesAreTrue`):
  who was deleted is inactive and has no face, so that repeating a failed delete until it
  succeeds repairs it. If nothing fails (`~Faulty`), each statement is one action of
  `EnrollmentPromise` or a stutter (`ApartKeepsPromise`, `ApartRevokes`). The hypotheses are
  needed: an overlap is what `enrollment_revocation` and the list above show, and a failure
  between two commits leaves a dismissed employee with a face. `OneAtATimeKeepsPromise` and
  `OneAtATimeRevokes`, which the run `enrollment_serial` checks, are the case of one
  handler.
* `RecognitionProofs`. `RecognitionInv` says in which order a scan gets its parts, and
  that no two scans hold or have committed the same key (`KeysExclusive`): this is what
  makes the unique index give one event in a window, and a duplicate a witness for
  `AnsweredIsLogged`.
* `KioskProofs`. First the web kiosk alone (`Kiosk!Spec`). The request under way is the one
  `_backend_future` holds, and there is none while the thread is about to submit
  (`HeldInv`); only requests that ended as success or error can have been granted
  (`RequestsInv`); the picture is a placeholder from before the status says OFFLINE until
  both change together (`ShownInv`). Then the program (`EdgeSpec`), in which `EdgeInv` says
  that one kiosk works and the other stays as it began. While the web kiosk runs, the steps
  are those of `Kiosk` and its invariant is used as it is. While the OpenCV kiosk runs
  (`DesktopInv`), overlay and window tell the truth of the request they speak of
  (`ToldTruly`), and a loop that has ended has shut its executor or never opened its camera,
  in which case it submitted nothing. Both kiosks instantiate the same executor
  (`SameExecutor`), so what was proved of `WorkerStep`, `Submit` and `Shutdown` is used for
  both.
* `SandboxLifecycleProofs`. Of one pull request (`Consistent`): its apply run is in the
  group exactly while it is one of its jobs, so that nothing is built between the
  verification and the unmarking of a destroy. Cancelling, entering and releasing are
  lemmas about `Consistent`, and every event is one of them.
* `SandboxPolicyProofs`. A run that nothing has cancelled looks at the pull request as it
  is, except for a conversion into a draft, which starts no run; what it trusts, and later
  reports, opens the gate only by what opens it still, because taking a waiver away starts
  another run (`RunFits`). Of a run that was cancelled nothing is known, and nothing is
  needed for `SuccessMeansGated`: only the last event's run sets the check, and the event that
  waits fits the pull request (`EventFits`). For `LabelsTellTheCheck` the labels of the event
  must be the present ones until the run reconciles them (`LabelsFit`), which is so when it
  did not wait for a run it cancelled; hence the condition in that property. Neither speaks of
  a run that resolved no files (4. above). `ReportsAgree` and `MoreFilesNeverLighter` are about
  the evaluator alone.
* `SandboxTeardownProofs`. The verification looks at neither groups nor instances. They
  are gone all the same, because Terraform takes the network away only when no instance
  is in it and nothing launches one without a network (`NetworkHoldsInstances`), and a
  job that gets so far has gone through the groups in its first clean-up
  (`GroupsPassed`).
* `WorkflowContextProofs`. The cluster name reads of a state key what it reads of the
  sandbox key (`Addressed`), and the concurrency group of an automatic run can be read
  off its state key (`QueueOf`); so one state has one cluster and one run at a time. No
  accepted destroy has a shared state, and no sandbox has a shared cluster's name.
  `DestroysAreConfined` has a hypothesis, `NamesDiffer`: no two owners and branches have
  names that keep the same of stem and digest. It does not hold of all logins, see above;
  `ShortLoginsAreConfined` proves it of logins of at most nine characters
  (`ShortLogins`), whatever the prefix of the names is, if digests differ
  (`DigestsDiffer`), which six characters make likely and do not guarantee.
  `StacksCanBeRescued` needs `"rescue" \in Lanes`: the dispatches of `infrastructure.yml` by
  people are among the lanes. Its invariant (`RescueInv`) is about runs as well as stacks:
  an apply that is under way builds for a pull request that was opened, or for an owner
  and a branch the rescue lane can name, because the bootstraps dispatched by hand, which
  may name anybody, build nothing.

Inductive invariants were checked by TLC on the instances of the runs before they were
proved; `ApartInv` and the refinement also with two handlers and `Apart` as a constraint
(740 thousand states), and `SuccessIsTrue` in the same way with failures (203 thousand up
to symmetry).

Every invariant and every action property of a passing run, and the refinement, is stated
by a theorem. Only model-checked is liveness (`CallsReturn`, `CoolingEnds`, `ScansEnd`,
`VerifyingEnds`, `StopReleasesCamera`, `ExitIsHeard`, `OpenSandboxesExpire`,
`DestroyConverges`), which rests on fairness and enabledness that the prover does not
handle. Induction over data is out of its reach as well. The properties that are
violated have counterexamples and no theorem; `ApartRevokes` says under which condition
the first of them holds.

## Not modelled

* The numbers: embeddings, averages, distances, thresholds.
* Authentication, configuration, session factories, the Celery stub: no state that
  other parts depend on.
* Read replicas (`DATABASE_REPLICA_URLS`): a search may lag behind a commit. The search
  may find anybody in `Recognition`, so nothing proved there depends on it.
* The in-memory fallbacks of the vector search and the store, used by tests.
* The creation of the store's client and bucket: one step of `UploadSnapshot`.
* The face detector and the door: the first is image processing, the second a stub.
* The admin frontend.
* CI and release scripts, delivery workflows and the workflow for trying out
  workflows (`sandbox-workflow-rd.yml`): job graphs and functions from files to text.
* Approvals and CODEOWNERS in the policy evaluator: they reach its report only.
* Known differences that no property is spent on: a race of two creations is answered
  500 where `docs/api-contract.yml:117` has 409; a link that is closed is shown with 200
  where `docs/api-contract.yml:414` has 410.

## Plan

The order of work was the backend's core (`CircuitBreaker`, `Enrollment`,
`Recognition`), the kiosks, then the sandboxes. Left:

1. Proofs: what the policy evaluator's reports promise of approvals, once those are
   modelled; a recognition event's snapshot when object names do not repeat.
2. `SandboxLifecycle` with two pull requests of one owner and the quota as a property:
   two of them, three events and liveness take 266 thousand states and three minutes.
3. `EnrollmentBreaker`: embedding conflicts counted by the breaker; the snapshot store's
   bucket initialisation; the frontend's overlapping fetches.
4. The promotion from staging to production, with the retries of
   `scripts/resolve_registry_digest.py`.
