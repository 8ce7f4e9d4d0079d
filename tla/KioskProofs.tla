---------------------------- MODULE KioskProofs ----------------------------
(***************************************************************************)
(* Proofs about the kiosks for any number of requests and of faces in a    *)
(* frame: first Kiosk by itself, then EdgeClient, which runs it or the     *)
(* legacy kiosk.  Type invariants, one request at a time, true verdicts,   *)
(* no picture while offline, and nothing pending after a stop.             *)
(***************************************************************************)
EXTENDS EdgeClient, TLAPS

(***************************************************************************)
(* The inductive invariant, in three parts.                                *)
(***************************************************************************)

\* The executor: what a request's state says of the backend's answers, and
\* that an executor that was shut keeps nothing to start.
RequestsInv ==
    /\ RequestsTypeOK
    /\ \A r \in Requests :
          /\ r > submitted => request[r] = "none"
          /\ request[r] = "success" => r \in granted
          /\ request[r] \in {"none", "pending", "running", "failed"}
                => r \notin granted
          /\ executor = "shut" => request[r] # "pending"

\* _backend_future: the request under way is held in it, there is none when
\* the thread is about to submit, and a result is taken up once it is there.
HeldInv ==
    /\ \A r \in Requests : UnderWay(r) => r = future
    /\ thread \in {"detecting", "submitting"} => future = NoFuture
    /\ thread = "polled" => taken \in Requests /\ request[taken] \in Finished

\* The status: a verdict has its request behind it.
ShownInv ==
    /\ shown.message = "success" => shown.of \in granted
    /\ shown.message = "failed" =>
          shown.of \in Requests /\ request[shown.of] = "failed"
    /\ shown.camera = "OFFLINE" => picture = "placeholder"
    /\ thread \in {"blank", "failing"} => picture = "placeholder"
    /\ lifespan = "stopped" => executor = "shut"

KioskInv == TypeOK /\ RequestsInv /\ HeldInv /\ ShownInv

(***************************************************************************)
(* The executor and the function it runs.                                  *)
(***************************************************************************)

\* What a step of the worker may do to the requests: one of them is taken
\* up, goes on or ends, and a granted face ends it as success or error.
LEMMA WorkerKeepsRequests ==
    ASSUME RequestsInv, WorkerStep
    PROVE  /\ RequestsInv'
           /\ \A r \in Requests :
                 /\ UnderWay(r)' => UnderWay(r)
                 /\ request[r] \in Finished => request'[r] = request[r]
           /\ granted \subseteq granted' /\ UNCHANGED executor
<1> USE DEF RequestsInv, RequestsTypeOK, UnderWay, Finished, Levels
<1>1. PICK r \in Requests : TakeUp(r) \/ PostFace(r)
  BY DEF WorkerStep
<1>2. CASE TakeUp(r)
  BY <1>2 DEF TakeUp
<1>3. CASE FaceGranted(r)
  BY <1>3, RequestsAssumption DEF FaceGranted, Return
<1>4. CASE FaceRejected(r)
  <2>1. facesLeft' \in [Requests -> 0..MaxFaces]
    BY <1>4, RequestsAssumption DEF FaceRejected
  <2>2. QED
    BY <1>4, <2>1 DEF FaceRejected
<1>5. CASE LastFaceRejected(r) \/ RequestRefused(r)
  BY <1>5, RequestsAssumption DEF LastFaceRejected, RequestRefused, Return
<1>6. CASE BackendUnavailable(r) \/ AnswerUnreadable(r)
  BY <1>6, RequestsAssumption DEF BackendUnavailable, AnswerUnreadable, Return
<1>7. QED
  BY <1>1, <1>2, <1>3, <1>4, <1>5, <1>6 DEF PostFace

LEMMA SubmitKeepsRequests ==
    ASSUME RequestsInv, NEW n \in 1..MaxFaces, Submit(n)
    PROVE  /\ RequestsInv'
           /\ submitted' \in Requests
           /\ \A r \in Requests : r # submitted' => request'[r] = request[r]
           /\ request[submitted'] = "none" /\ request'[submitted'] = "pending"
           /\ UNCHANGED <<granted, executor>>
<1> USE DEF RequestsInv, RequestsTypeOK
<1>1. submitted + 1 \in Requests /\ request[submitted + 1] = "none"
  BY RequestsAssumption DEF Submit, Requests
<1>2. QED
  BY <1>1, RequestsAssumption DEF Submit, Requests

\* cancel and shutdown: only pending requests change, and are cancelled.
LEMMA CancelKeepsRequests ==
    ASSUME RequestsInv, Shutdown \/ \E r \in Requests : Cancel(r)
    PROVE  /\ RequestsInv'
           /\ \A r \in Requests :
                 /\ UnderWay(r)' => UnderWay(r)
                 /\ request[r] \in Finished => request'[r] = request[r]
           /\ UNCHANGED granted
           /\ executor = "shut" => executor' = "shut"
           /\ Shutdown => executor' = "shut"
<1> USE DEF RequestsInv, RequestsTypeOK, UnderWay, Finished, Levels
<1>1. CASE Shutdown
  BY <1>1 DEF Shutdown
<1>2. ASSUME NEW r \in Requests, Cancel(r)
      PROVE  /\ RequestsInv'
             /\ \A q \in Requests :
                   /\ UnderWay(q)' => UnderWay(q)
                   /\ request[q] \in Finished => request'[q] = request[q]
  BY <1>2 DEF Cancel, Cancelled
<1>3. ASSUME NEW r \in Requests, Cancel(r)
      PROVE  UNCHANGED <<granted, executor>>
  BY <1>3 DEF Cancel
<1>4. QED
  BY <1>1, <1>2, <1>3 DEF Shutdown

(***************************************************************************)
(* Invariance.                                                             *)
(***************************************************************************)

\* A step of the worker or of a cancellation keeps what is held and shown.
LEMMA QuietKeeps ==
    ASSUME KioskInv, RequestsInv',
           \A r \in Requests :
              /\ UnderWay(r)' => UnderWay(r)
              /\ request[r] \in Finished => request'[r] = request[r],
           granted \subseteq granted',
           executor = "shut" => executor' = "shut",
           UNCHANGED <<backendEnabled, CameraThread, shown>>,
           lifespan' \in Stages, lifespan' = "stopped" => executor' = "shut",
           UNCHANGED stopEvent
    PROVE  KioskInv'
<1> USE DEF KioskInv, CameraThread
<1>1. TypeOK'
  BY DEF TypeOK, RequestsInv
<1>2. HeldInv'
  BY DEF HeldInv
<1>3. ShownInv'
  BY DEF ShownInv, Finished, Levels
<1>4. QED
  BY <1>1, <1>2, <1>3

LEMMA MainKeeps ==
    ASSUME KioskInv, MainStep \/ StopBegins
    PROVE  KioskInv'
<1>1. CASE Start
  BY <1>1 DEF Start, KioskInv, TypeOK, RequestsTypeOK, RequestsInv, HeldInv,
              ShownInv, requestVars, Held, Stages, Places, UnderWay
<1>2. CASE StopBegins
  BY <1>2 DEF StopBegins, KioskInv, TypeOK, RequestsTypeOK, RequestsInv,
              HeldInv, ShownInv, requestVars, CameraThread, Stages, UnderWay
<1>3. CASE StopLooksAtFuture \/ StopAborts \/ StopJoins
  BY <1>3 DEF StopLooksAtFuture, StopAborts, StopJoins, KioskInv, TypeOK,
              RequestsTypeOK, RequestsInv, HeldInv, ShownInv, requestVars,
              CameraThread, Stages, UnderWay
<1>4. CASE StopCancels
  <2>1. future \in Requests /\ Cancel(future)
    BY <1>4 DEF StopCancels, KioskInv, TypeOK
  <2>2. /\ RequestsInv'
        /\ \A r \in Requests :
              /\ UnderWay(r)' => UnderWay(r)
              /\ request[r] \in Finished => request'[r] = request[r]
        /\ UNCHANGED granted
        /\ executor = "shut" => executor' = "shut"
    BY <2>1, CancelKeepsRequests DEF KioskInv
  <2>3. /\ UNCHANGED <<backendEnabled, CameraThread, shown, stopEvent>>
        /\ lifespan' = "joining"
    BY <1>4 DEF StopCancels
  <2>4. QED
    BY <2>2, <2>3, QuietKeeps DEF Stages
<1>5. CASE StopShutsDown
  <2>1. Shutdown
    BY <1>5 DEF StopShutsDown
  <2>2. /\ RequestsInv'
        /\ \A r \in Requests :
              /\ UnderWay(r)' => UnderWay(r)
              /\ request[r] \in Finished => request'[r] = request[r]
        /\ UNCHANGED granted
        /\ executor' = "shut"
    BY <2>1, CancelKeepsRequests DEF KioskInv
  <2>3. /\ UNCHANGED <<backendEnabled, CameraThread, shown, stopEvent>>
        /\ lifespan' = "stopped"
    BY <1>5 DEF StopShutsDown
  <2>4. QED
    BY <2>2, <2>3, QuietKeeps DEF Stages
<1>6. QED
  BY <1>1, <1>2, <1>3, <1>4, <1>5 DEF MainStep

LEMMA WorkerKeeps ==
    ASSUME KioskInv, Worker
    PROVE  KioskInv'
<1>1. /\ RequestsInv'
      /\ \A r \in Requests :
            /\ UnderWay(r)' => UnderWay(r)
            /\ request[r] \in Finished => request'[r] = request[r]
      /\ granted \subseteq granted' /\ UNCHANGED executor
  BY WorkerKeepsRequests DEF Worker, KioskInv
<1>2. UNCHANGED <<backendEnabled, CameraThread, shown, stopEvent, lifespan>>
  BY DEF Worker, kioskVars, CameraThread
<1>3. lifespan \in Stages /\ (lifespan = "stopped" => executor = "shut")
  BY DEF KioskInv, TypeOK, ShownInv
<1>4. QED
  BY <1>1, <1>2, <1>3, QuietKeeps

\* Steps of the camera thread that leave the executor alone.
LEMMA ThreadKeeps ==
    ASSUME KioskInv, UNCHANGED Elsewhere,
           TypeOK', HeldInv',
           shown'.message \in {"success", "failed"} => shown' = shown,
           shown'.camera = "OFFLINE" => picture' = "placeholder",
           thread' \in {"blank", "failing"} => picture' = "placeholder"
    PROVE  KioskInv'
<1>1. RequestsInv'
  BY DEF KioskInv, RequestsInv, RequestsTypeOK, Elsewhere, requestVars
<1>2. ShownInv'
  BY DEF KioskInv, ShownInv, Elsewhere, requestVars
<1>3. QED
  BY <1>1, <1>2 DEF KioskInv

LEMMA CameraKeeps ==
    ASSUME KioskInv, CameraStep
    PROVE  KioskInv'
<1> USE DEF Goes, Places, Elsewhere, requestVars, Held
<1>0. TypeOK /\ HeldInv /\ ShownInv
  BY DEF KioskInv
<1>1. CASE OpenCamera \/ CannotOpenCamera
  <2>1. TypeOK' /\ HeldInv'
    BY <1>0, <1>1 DEF OpenCamera, CannotOpenCamera, TypeOK, RequestsTypeOK,
                      HeldInv, UnderWay
  <2>2. QED
    BY <1>0, <1>1, <2>1, ThreadKeeps DEF OpenCamera, CannotOpenCamera, ShownInv
<1>2. CASE ShowScanning \/ ShowNoFace \/ ShowTestMode \/ ShowVerifying
  <2>1. TypeOK' /\ HeldInv'
    BY <1>0, <1>2, RequestsAssumption
       DEF ShowScanning, ShowNoFace, ShowTestMode, ShowVerifying, Show,
           TypeOK, RequestsTypeOK, HeldInv, UnderWay, Messages
  <2>2. /\ UNCHANGED Elsewhere /\ thread' = "testing"
        /\ shown'.camera = "LIVE"
        /\ shown'.message \in {"scanning", "no_face", "ui_test", "verifying"}
    BY <1>2 DEF ShowScanning, ShowNoFace, ShowTestMode, ShowVerifying, Show
  <2>3. QED
    BY <2>1, <2>2, ThreadKeeps
<1>3. CASE ShowCannotOpen \/ ShowNoFrame
  <2>1. TypeOK' /\ HeldInv'
    BY <1>0, <1>3, RequestsAssumption
       DEF ShowCannotOpen, ShowNoFrame, Show, TypeOK, RequestsTypeOK, HeldInv,
           UnderWay, Messages, CameraMessages
  <2>2. /\ UNCHANGED Elsewhere /\ thread' \in {"ended", "testing"}
        /\ shown'.message \in {"cannot_open", "no_frame"}
        /\ picture' = "placeholder"
    BY <1>0, <1>3 DEF ShowCannotOpen, ShowNoFrame, Show, ShownInv
  <2>3. QED
    BY <2>1, <2>2, ThreadKeeps
<1>4. CASE TestStopEvent \/ PollFindsNothing \/ FrameNotEncoded \/ NoScan
           \/ Scan \/ FindFaces \/ LoopRaises \/ CloseCamera
  <2>1. TypeOK' /\ HeldInv'
    BY <1>0, <1>4 DEF TestStopEvent, PollFindsNothing, FrameNotEncoded, NoScan,
       Scan, FindFaces, LoopRaises, CloseCamera, TypeOK, RequestsTypeOK,
       HeldInv, UnderWay
  <2>2. /\ UNCHANGED <<Elsewhere, shown, picture>>
        /\ thread' \notin {"blank", "failing"}
    BY <1>4 DEF TestStopEvent, PollFindsNothing, FrameNotEncoded, NoScan,
       Scan, FindFaces, LoopRaises, CloseCamera
  <2>3. QED
    BY <1>0, <2>1, <2>2, ThreadKeeps DEF ShownInv
<1>5. CASE PollFindsResult
  <2>1. future \in Requests /\ request[future] \in Finished
    BY <1>0, <1>5 DEF PollFindsResult, FutureDone, TypeOK
  <2>2. TypeOK'
    BY <1>0, <1>5, <2>1 DEF PollFindsResult, TypeOK, RequestsTypeOK
  <2>3. HeldInv'
    BY <1>0, <1>5, <2>1 DEF PollFindsResult, HeldInv, UnderWay, Finished, Levels
  <2>4. /\ UNCHANGED <<Elsewhere, shown, picture>> /\ thread' = "polled"
    BY <1>5 DEF PollFindsResult
  <2>5. QED
    BY <1>0, <2>2, <2>3, <2>4, ThreadKeeps DEF ShownInv
<1>6. CASE ShowVerdict
  <2>1. /\ taken \in Requests /\ request[taken] \in Finished
        /\ UNCHANGED <<Elsewhere, future, picture, camera>>
        /\ thread' = "reading" /\ taken' = NoFuture
        /\ shown' = [camera |-> shown.camera, message |-> Verdict(taken),
                     backend |-> "idle", of |-> taken]
    BY <1>0, <1>6 DEF ShowVerdict, Show, HeldInv
  <2>2. Verdict(taken) \in Levels
        /\ (Verdict(taken) \in {"success", "failed"}
               => request[taken] = Verdict(taken))
    BY DEF Verdict, Levels
  <2>3. RequestsInv'
    BY <2>1 DEF KioskInv, RequestsInv, RequestsTypeOK
  <2>4. TypeOK'
    BY <1>0, <2>1, <2>2, RequestsAssumption
       DEF TypeOK, RequestsTypeOK, Messages, Requests
  <2>5. HeldInv'
    BY <1>0, <2>1 DEF HeldInv, UnderWay
  <2>6. ShownInv'
    BY <1>0, <2>1, <2>2 DEF KioskInv, RequestsInv, ShownInv
  <2>7. QED
    BY <2>3, <2>4, <2>5, <2>6 DEF KioskInv
<1>7. CASE NoFrame
  <2>1. TypeOK' /\ HeldInv'
    BY <1>0, <1>7 DEF NoFrame, TypeOK, RequestsTypeOK, HeldInv, UnderWay
  <2>2. QED
    BY <1>7, <2>1, ThreadKeeps DEF NoFrame
<1>8. CASE PublishFrame
  <2>1. /\ UNCHANGED <<Elsewhere, Held>> /\ thread' = "published"
        /\ picture' = "frame"
        /\ shown' = [shown EXCEPT !.camera = "LIVE"]
    BY <1>8 DEF PublishFrame
  <2>2. TypeOK' /\ HeldInv'
    BY <1>0, <2>1 DEF TypeOK, RequestsTypeOK, HeldInv, UnderWay
  <2>3. shown'.camera = "LIVE" /\ shown'.message = shown.message
        /\ shown'.of = shown.of
    BY <1>0, <2>1 DEF TypeOK
  <2>4. ShownInv'
    BY <1>0, <2>1, <2>3 DEF ShownInv
  <2>5. RequestsInv'
    BY <2>1 DEF KioskInv, RequestsInv, RequestsTypeOK
  <2>6. QED
    BY <2>2, <2>4, <2>5 DEF KioskInv
<1>9. CASE SubmitFaces
  <2>1. /\ RequestsInv'
        /\ submitted' \in Requests
        /\ \A r \in Requests : r # submitted' => request'[r] = request[r]
        /\ request[submitted'] = "none" /\ request'[submitted'] = "pending"
        /\ UNCHANGED <<granted, executor>>
    BY <1>9, SubmitKeepsRequests DEF SubmitFaces, KioskInv
  <2>2. /\ thread = "submitting" /\ thread' = "submitted"
        /\ future' = submitted'
        /\ UNCHANGED <<lifespan, stopEvent, backendEnabled, camera, taken,
                       picture, shown>>
    BY <1>9 DEF SubmitFaces
  <2>3. TypeOK'
    BY <1>0, <2>1, <2>2 DEF TypeOK, RequestsInv
  <2>4. HeldInv'
    BY <1>0, <2>1, <2>2 DEF HeldInv, UnderWay, TypeOK, NoFuture, Requests
  <2>5. ShownInv'
    BY <1>0, <2>1, <2>2 DEF ShownInv
  <2>6. QED
    BY <2>1, <2>3, <2>4, <2>5 DEF KioskInv
<1>10. QED
  BY <1>1, <1>2, <1>3, <1>4, <1>5, <1>6, <1>7, <1>8, <1>9 DEF CameraStep

LEMMA KioskInit == Init => KioskInv
<1> SUFFICES ASSUME Init
             PROVE  KioskInv
  OBVIOUS
<1>1. RequestsTypeOK
  BY RequestsAssumption DEF Init, RequestsInit, RequestsTypeOK, Requests
<1>2. RequestsInv
  BY <1>1 DEF Init, RequestsInit, RequestsInv, Requests
<1>3. TypeOK
  <2>1. 0 \in 0..MaxRequests /\ "starting" \in Messages
    BY RequestsAssumption DEF Messages
  <2>2. shown \in [camera : {"STARTING", "LIVE", "OFFLINE"},
                  message : Messages,
                  backend : {"idle", "disabled", "verifying"},
                  of : 0..MaxRequests]
    BY <2>1 DEF Init
  <2>3. lifespan \in Stages /\ thread \in Places
    BY DEF Init, Stages, Places
  <2>4. backendEnabled \in BOOLEAN /\ stopEvent \in BOOLEAN
    BY Zenon DEF Init
  <2>5. {future, taken} \subseteq Requests \cup {NoFuture}
    BY DEF Init
  <2>6. camera \in {"closed", "open"} /\ picture \in {"placeholder", "frame"}
    BY DEF Init
  <2>7. QED
    BY <1>1, <2>2, <2>3, <2>4, <2>5, <2>6 DEF TypeOK
<1>4. HeldInv /\ ShownInv
  BY DEF Init, RequestsInit, HeldInv, ShownInv, UnderWay
<1>5. QED
  BY <1>2, <1>3, <1>4 DEF KioskInv

LEMMA KioskStep == KioskInv /\ [Next]_vars => KioskInv'
<1> SUFFICES ASSUME KioskInv, [Next]_vars
             PROVE  KioskInv'
  OBVIOUS
<1>1. CASE UNCHANGED vars
  BY <1>1 DEF vars, kioskVars, requestVars, KioskInv, TypeOK, RequestsTypeOK,
              RequestsInv, HeldInv, ShownInv, UnderWay
<1>2. CASE Next
  BY <1>2, MainKeeps, CameraKeeps, WorkerKeeps DEF Next
<1>3. QED
  BY <1>1, <1>2

LEMMA KioskInvariant == Spec => []KioskInv
BY KioskInit, KioskStep, PTL DEF Spec

\* The kiosk's state keeps its types, with any number of requests.
THEOREM KioskTypeCorrect == Spec => []TypeOK
<1>1. KioskInv => TypeOK
  BY DEF KioskInv
<1>2. QED
  BY KioskInvariant, <1>1, PTL

\* At most one verification is under way, over all interleavings of the
\* camera thread, stop() and the worker.
THEOREM OneRequestAtATime == Spec => []OneRequestUnderWay
<1>1. KioskInv => OneRequestUnderWay
  BY DEF KioskInv, HeldInv, OneRequestUnderWay
<1>2. QED
  BY KioskInvariant, <1>1, PTL

\* "success" is shown only of a face the backend granted, "failed" never of
\* one, however late and lost the answers are.
THEOREM VerdictsAreTrue == Spec => []VerdictIsTheBackends
<1>1. KioskInv => VerdictIsTheBackends
  BY DEF KioskInv, RequestsInv, ShownInv, VerdictIsTheBackends
<1>2. QED
  BY KioskInvariant, <1>1, PTL

\* No old picture is streamed while the status says OFFLINE.
THEOREM OfflineIsBlank == Spec => []OfflineShowsNoPicture
<1>1. KioskInv => OfflineShowsNoPicture
  BY DEF KioskInv, ShownInv, OfflineShowsNoPicture
<1>2. QED
  BY KioskInvariant, <1>1, PTL

\* After a complete stop nothing is left to be sent, whatever the camera
\* thread still does.
THEOREM StopIsFinal == Spec => []StoppedLeavesNothingPending
<1>1. KioskInv => StoppedLeavesNothingPending
  BY DEF KioskInv, RequestsInv, ShownInv, StoppedLeavesNothingPending
<1>2. QED
  BY KioskInvariant, <1>1, PTL

(***************************************************************************)
(* The edge client.  What one kiosk leaves alone stays as it began, and    *)
(* what the other shares with it, the requests and the one under way, is   *)
(* described by RequestsInv and by an invariant of the kiosk that runs.    *)
(***************************************************************************)

\* What the window tells of a request: its verdict, or nothing of it.
ToldTruly(told) ==
    /\ told.message = "success" => told.of \in granted
    /\ told.message = "failed" =>
          told.of \in Requests /\ request[told.of] = "failed"

\* The legacy kiosk: backend_future holds the request under way, overlay and
\* window tell the truth, and a program that has ended has shut its executor
\* or never had a camera, and then it submitted nothing.
DesktopInv ==
    /\ Desktop!TypeOK
    /\ RequestsInv
    /\ \A r \in Requests : UnderWay(r) => r = future
    /\ ToldTruly(overlay) /\ ToldTruly(drawn)
    /\ place = "opening" => submitted = 0
    /\ place = "ended" => executor = "shut" \/ submitted = 0

WebIdle ==
    /\ lifespan = "starting" /\ thread = "unborn" /\ camera = "closed"
    /\ stopEvent = FALSE /\ taken = NoFuture /\ picture = "placeholder"
    /\ shown = [camera |-> "STARTING", message |-> "starting",
                backend |-> "idle", of |-> 0]

DesktopIdle ==
    /\ place = "opening" /\ key = FALSE
    /\ overlay = [camera |-> "LIVE", message |-> "waiting", of |-> 0]
    /\ drawn = overlay

EdgeInv ==
    \/ uiMode = "web" /\ KioskInv /\ DesktopIdle
    \/ uiMode = "opencv" /\ DesktopInv /\ WebIdle

\* DesktopKiosk is instantiated with the same requests: its executor is the
\* one of Kiosk.
LEMMA SameExecutor ==
    /\ Desktop!Requests = Requests /\ Desktop!NoFuture = NoFuture
    /\ Desktop!Levels = Levels /\ Desktop!Finished = Finished
    /\ Desktop!requestVars = requestVars
    /\ Desktop!RequestsTypeOK <=> RequestsTypeOK
    /\ Desktop!RequestsInit <=> RequestsInit
    /\ Desktop!WorkerStep <=> WorkerStep
    /\ Desktop!Shutdown <=> Shutdown
    /\ \A n : Desktop!Submit(n) <=> Submit(n)
    /\ \A r : Desktop!Verdict(r) = Verdict(r)
<1>1. /\ Desktop!Requests = Requests /\ Desktop!NoFuture = NoFuture
      /\ Desktop!Levels = Levels /\ Desktop!Finished = Finished
      /\ Desktop!requestVars = requestVars
  BY DEF Desktop!Requests, Requests, Desktop!NoFuture, NoFuture,
         Desktop!Levels, Levels, Desktop!Finished, Finished,
         Desktop!requestVars, requestVars
<1>2. /\ Desktop!RequestsTypeOK <=> RequestsTypeOK
      /\ Desktop!RequestsInit <=> RequestsInit
      /\ Desktop!Shutdown <=> Shutdown
      /\ \A r : Desktop!Verdict(r) = Verdict(r)
  BY <1>1 DEF Desktop!RequestsTypeOK, RequestsTypeOK, Desktop!RequestsInit,
              RequestsInit, Desktop!Shutdown, Shutdown, Desktop!Verdict, Verdict
<1>3. \A n : Desktop!Submit(n) <=> Submit(n)
  BY DEF Desktop!Submit, Submit
<1>4. ASSUME NEW r
      PROVE  /\ Desktop!TakeUp(r) <=> TakeUp(r)
             /\ \A result : Desktop!Return(r, result) <=> Return(r, result)
             /\ Desktop!FaceRejected(r) <=> FaceRejected(r)
  BY <1>1 DEF Desktop!TakeUp, TakeUp, Desktop!Return, Return,
              Desktop!FaceRejected, FaceRejected
<1>5. ASSUME NEW r
      PROVE  Desktop!PostFace(r) <=> PostFace(r)
  BY <1>4 DEF Desktop!PostFace, PostFace, Desktop!FaceGranted, FaceGranted,
      Desktop!LastFaceRejected, LastFaceRejected, Desktop!RequestRefused,
      RequestRefused, Desktop!BackendUnavailable, BackendUnavailable,
      Desktop!AnswerUnreadable, AnswerUnreadable
<1>6. Desktop!WorkerStep <=> WorkerStep
  BY <1>1, <1>4, <1>5 DEF Desktop!WorkerStep, WorkerStep
<1>7. QED
  BY <1>1, <1>2, <1>3, <1>6

\* Steps of the loop that leave the requests and the one under way alone.
LEMMA LoopKeeps ==
    ASSUME DesktopInv, UNCHANGED <<requestVars, backendEnabled, future>>,
           place' \in {"polling", "reading", "drawing", "leaving", "ended"},
           place' = "ended" => place = "opening",
           overlay' \in Desktop!Overlays,
           overlay' = overlay \/ ToldTruly(overlay)',
           drawn' \in {drawn, overlay}, UNCHANGED key
    PROVE  DesktopInv'
<1> USE DEF requestVars
<1>1. RequestsInv'
  BY DEF DesktopInv, RequestsInv, RequestsTypeOK
<1>2. Desktop!TypeOK'
  BY <1>1 DEF DesktopInv, Desktop!TypeOK, RequestsInv, RequestsTypeOK,
              Desktop!RequestsTypeOK, Desktop!Requests, Requests,
              Desktop!Finished, Finished, Desktop!Levels, Levels
<1>3. ToldTruly(overlay)' /\ ToldTruly(drawn)'
  BY DEF DesktopInv, ToldTruly
<1>4. QED
  BY <1>1, <1>2, <1>3 DEF DesktopInv, UnderWay

\* Steps of the worker and the shutdown keep what is held and told.
LEMMA DesktopQuietKeeps ==
    ASSUME DesktopInv, RequestsInv',
           \A r \in Requests :
              /\ UnderWay(r)' => UnderWay(r)
              /\ request[r] \in Finished => request'[r] = request[r],
           granted \subseteq granted',
           UNCHANGED <<backendEnabled, future, overlay, drawn, key>>,
           place' \in {place, "ended"},
           place' = "opening" => UNCHANGED submitted,
           place' = "ended" => executor' = "shut" \/ submitted' = 0
    PROVE  DesktopInv'
<1>1. Desktop!TypeOK'
  BY DEF DesktopInv, Desktop!TypeOK, RequestsInv, RequestsTypeOK,
         Desktop!RequestsTypeOK, Desktop!Requests, Requests,
         Desktop!Finished, Finished, Desktop!Levels, Levels
<1>2. ToldTruly(overlay)' /\ ToldTruly(drawn)'
  BY DEF DesktopInv, ToldTruly, Finished, Levels
<1>3. QED
  BY <1>1, <1>2 DEF DesktopInv

LEMMA DesktopWorkerKeeps ==
    ASSUME DesktopInv, Desktop!Worker
    PROVE  DesktopInv'
<1>1. /\ RequestsInv'
      /\ \A r \in Requests :
            /\ UnderWay(r)' => UnderWay(r)
            /\ request[r] \in Finished => request'[r] = request[r]
      /\ granted \subseteq granted' /\ UNCHANGED executor
  BY WorkerKeepsRequests, SameExecutor DEF Desktop!Worker, DesktopInv
<1>2. UNCHANGED <<backendEnabled, place, future, overlay, drawn, key>>
  BY DEF Desktop!Worker, Desktop!kioskVars
<1>3. UNCHANGED submitted
  BY SameExecutor DEF Desktop!Worker, WorkerStep, TakeUp, PostFace,
     FaceGranted, FaceRejected, LastFaceRejected, RequestRefused,
     BackendUnavailable, AnswerUnreadable, Return
<1>4. QED
  BY <1>1, <1>2, <1>3, DesktopQuietKeeps DEF DesktopInv

LEMMA DesktopLoopKeeps ==
    ASSUME DesktopInv, Desktop!LoopStep
    PROVE  DesktopInv'
<1> USE SameExecutor DEF Desktop!Goes, Desktop!requestVars, requestVars
<1>0. /\ {overlay, drawn} \subseteq Desktop!Overlays
      /\ future \in Requests \cup {NoFuture}
      /\ ToldTruly(overlay)
  BY DEF DesktopInv, Desktop!TypeOK
<1>1. CASE \/ Desktop!OpenCamera \/ Desktop!PollFindsNothing
           \/ Desktop!Draw \/ Desktop!LoopRaises
  <2>1. /\ UNCHANGED <<requestVars, backendEnabled, future, overlay, key>>
        /\ place' \in {"polling", "reading", "drawing", "leaving", "ended"}
        /\ place' = "ended" => place = "opening"
        /\ drawn' \in {drawn, overlay}
    BY <1>1 DEF Desktop!OpenCamera, Desktop!PollFindsNothing, Desktop!Draw,
                Desktop!LoopRaises
  <2>2. QED
    BY <1>0, <2>1, LoopKeeps
<1>2. CASE Desktop!NoFrame \/ Desktop!FrameWithoutScan
           \/ Desktop!ScanWithoutRequest
  <2>1. /\ UNCHANGED <<requestVars, backendEnabled, future, drawn, key>>
        /\ place' \in {"polling", "drawing"}
    BY <1>2 DEF Desktop!NoFrame, Desktop!FrameWithoutScan,
                Desktop!ScanWithoutRequest
  <2>2. overlay' \in Desktop!Overlays
    BY <1>0, <1>2, RequestsAssumption
       DEF Desktop!NoFrame, Desktop!FrameWithoutScan,
           Desktop!ScanWithoutRequest, Desktop!ScanTold, Desktop!Overlays,
           Desktop!Messages
  <2>3. ToldTruly(overlay)'
    <3>1. CASE Desktop!FrameWithoutScan
      <4>1. overlay'.message = overlay.message /\ overlay'.of = overlay.of
        BY <1>0, <3>1 DEF Desktop!FrameWithoutScan, Desktop!Overlays
      <4>2. QED
        BY <1>0, <2>1, <4>1 DEF ToldTruly, requestVars
    <3>2. CASE Desktop!NoFrame \/ Desktop!ScanWithoutRequest
      BY <3>2 DEF Desktop!NoFrame, Desktop!ScanWithoutRequest,
                  Desktop!ScanTold, ToldTruly
    <3>3. QED
      BY <1>2, <3>1, <3>2
  <2>4. QED
    BY <2>1, <2>2, <2>3, LoopKeeps
<1>3. CASE Desktop!PollFindsResult
  <2>1. /\ future \in Requests /\ request[future] \in Finished
        /\ overlay' = [overlay EXCEPT !.message = Verdict(future), !.of = future]
        /\ place' = "reading" /\ future' = NoFuture
        /\ UNCHANGED <<requestVars, backendEnabled, drawn, key>>
    BY <1>0, <1>3 DEF Desktop!PollFindsResult, Desktop!FutureDone
  <2>2. /\ Verdict(future) \in Levels
        /\ Verdict(future) \in {"success", "failed"}
              => request[future] = Verdict(future)
    BY DEF Verdict, Levels
  <2>3. /\ overlay' \in Desktop!Overlays
        /\ overlay'.message = Verdict(future) /\ overlay'.of = future
    <3>1. Verdict(future) \in Desktop!Messages /\ future \in 0..MaxRequests
      BY <2>1, <2>2, RequestsAssumption DEF Desktop!Messages, Requests
    <3>2. QED
      BY <1>0, <2>1, <3>1 DEF Desktop!Overlays
  <2>4. RequestsInv'
    BY <2>1 DEF DesktopInv, RequestsInv, RequestsTypeOK, requestVars
  <2>5. ToldTruly(overlay)' /\ ToldTruly(drawn)'
    BY <2>1, <2>2, <2>3 DEF DesktopInv, RequestsInv, ToldTruly, requestVars
  <2>6. \A r \in Requests : ~UnderWay(r)'
    BY <2>1 DEF DesktopInv, UnderWay, Finished, Levels, requestVars
  <2>7. Desktop!TypeOK'
    BY <2>1, <2>3, <2>4 DEF DesktopInv, Desktop!TypeOK, RequestsInv,
       RequestsTypeOK, Desktop!RequestsTypeOK, Desktop!Requests, Requests,
       Desktop!Finished, Finished, Desktop!Levels, Levels
  <2>8. QED
    BY <2>1, <2>4, <2>5, <2>6, <2>7 DEF DesktopInv
<1>4. CASE Desktop!ScanSubmits
  <2>1. /\ RequestsInv'
        /\ submitted' \in Requests
        /\ \A r \in Requests : r # submitted' => request'[r] = request[r]
        /\ request[submitted'] = "none" /\ request'[submitted'] = "pending"
        /\ UNCHANGED <<granted, executor>>
    BY <1>4, SubmitKeepsRequests DEF Desktop!ScanSubmits, DesktopInv
  <2>2. /\ place' = "drawing" /\ future = NoFuture /\ future' = submitted'
        /\ overlay' = [camera |-> "LIVE", message |-> "verifying", of |-> 0]
        /\ UNCHANGED <<backendEnabled, drawn, key>>
    BY <1>4 DEF Desktop!ScanSubmits, Desktop!ScanTold
  <2>3. overlay' \in Desktop!Overlays
    BY <2>2, RequestsAssumption DEF Desktop!Overlays, Desktop!Messages
  <2>4. ToldTruly(overlay)' /\ ToldTruly(drawn)'
    BY <2>1, <2>2 DEF DesktopInv, ToldTruly
  <2>5. \A r \in Requests : UnderWay(r)' => r = future'
    BY <2>1, <2>2 DEF DesktopInv, UnderWay, NoFuture, Requests
  <2>6. Desktop!TypeOK'
    BY <2>1, <2>2, <2>3 DEF DesktopInv, Desktop!TypeOK, RequestsInv,
       RequestsTypeOK, Desktop!RequestsTypeOK, Desktop!Requests, Requests,
       Desktop!Finished, Finished, Desktop!Levels, Levels
  <2>7. QED
    BY <2>1, <2>2, <2>4, <2>5, <2>6 DEF DesktopInv
<1>5. CASE Desktop!Leave
  <2>1. /\ Shutdown /\ place' = "ended"
        /\ UNCHANGED <<backendEnabled, future, overlay, drawn, key>>
    BY <1>5 DEF Desktop!Leave
  <2>2. /\ RequestsInv'
        /\ \A r \in Requests :
              /\ UnderWay(r)' => UnderWay(r)
              /\ request[r] \in Finished => request'[r] = request[r]
        /\ UNCHANGED granted
        /\ executor' = "shut"
    BY <2>1, CancelKeepsRequests DEF DesktopInv
  <2>3. QED
    BY <2>1, <2>2, DesktopQuietKeeps
<1>6. QED
  BY <1>1, <1>2, <1>3, <1>4, <1>5 DEF Desktop!LoopStep, Desktop!ReadFrame

LEMMA DesktopStep ==
    ASSUME DesktopInv, Desktop!Next
    PROVE  DesktopInv'
<1>1. CASE Desktop!PressExit
  <2>1. /\ key' = TRUE
        /\ UNCHANGED <<requestVars, backendEnabled, place, future, overlay,
                       drawn>>
    BY <1>1 DEF Desktop!PressExit, Desktop!requestVars, requestVars
  <2>2. RequestsInv' /\ ToldTruly(overlay)' /\ ToldTruly(drawn)'
    BY <2>1 DEF DesktopInv, RequestsInv, RequestsTypeOK, requestVars, ToldTruly
  <2>3. Desktop!TypeOK'
    BY <2>1, <2>2 DEF DesktopInv, Desktop!TypeOK, RequestsInv,
       RequestsTypeOK, Desktop!RequestsTypeOK, Desktop!Requests, Requests,
       Desktop!Finished, Finished, Desktop!Levels, Levels
  <2>4. QED
    BY <2>1, <2>2, <2>3 DEF DesktopInv, UnderWay, requestVars
<1>2. QED
  BY <1>1, DesktopWorkerKeeps, DesktopLoopKeeps DEF Desktop!Next

LEMMA EdgeInitial == EdgeInit => EdgeInv
<1> SUFFICES ASSUME EdgeInit
             PROVE  EdgeInv
  OBVIOUS
<1>1. KioskInv
  BY KioskInit DEF EdgeInit
<1>2. WebIdle /\ DesktopIdle
  BY DEF EdgeInit, Init, Desktop!Init, WebIdle, DesktopIdle
<1>3. DesktopInv
  <2>1. {overlay, drawn} \subseteq Desktop!Overlays
    BY <1>2, RequestsAssumption DEF DesktopIdle, Desktop!Overlays, Desktop!Messages
  <2>2. Desktop!TypeOK
    BY <1>1, <1>2, <2>1, SameExecutor
       DEF DesktopIdle, KioskInv, TypeOK, Desktop!TypeOK
  <2>3. \A r \in Requests : ~UnderWay(r)
    BY DEF EdgeInit, Init, RequestsInit, UnderWay
  <2>4. submitted = 0
    BY DEF EdgeInit, Init, RequestsInit
  <2>5. QED
    BY <1>1, <1>2, <2>2, <2>3, <2>4
       DEF DesktopInv, KioskInv, DesktopIdle, ToldTruly
<1>4. QED
  BY <1>1, <1>2, <1>3 DEF EdgeInit, EdgeInv

LEMMA EdgeStep == EdgeInv /\ [EdgeNext]_edgeVars => EdgeInv'
<1> SUFFICES ASSUME EdgeInv, [EdgeNext]_edgeVars
             PROVE  EdgeInv'
  OBVIOUS
<1>1. CASE InBrowser /\ Next
  <2>1. uiMode = "web" /\ KioskInv /\ DesktopIdle
    BY <1>1 DEF InBrowser, EdgeInv
  <2>2. KioskInv'
    BY <1>1, <2>1, KioskStep
  <2>3. uiMode' = "web" /\ DesktopIdle'
    BY <1>1, <2>1 DEF InBrowser, desktopVars, DesktopIdle
  <2>4. QED
    BY <2>2, <2>3 DEF EdgeInv
<1>2. CASE InWindow /\ Desktop!Next
  <2>1. uiMode = "opencv" /\ DesktopInv /\ WebIdle
    BY <1>2 DEF InWindow, EdgeInv
  <2>2. DesktopInv'
    BY <1>2, <2>1, DesktopStep
  <2>3. uiMode' = "opencv" /\ WebIdle'
    BY <1>2, <2>1 DEF InWindow, webVars, WebIdle
  <2>4. QED
    BY <2>2, <2>3 DEF EdgeInv
<1>3. CASE UNCHANGED edgeVars
  <2>1. UNCHANGED <<vars, uiMode, place, overlay, drawn, key>>
    BY <1>3 DEF edgeVars, desktopVars
  <2>2. KioskInv => KioskInv'
    BY <2>1, KioskStep
  <2>3. UNCHANGED <<requestVars, backendEnabled, future>>
    BY <2>1 DEF vars, kioskVars
  <2>4. DesktopInv => DesktopInv'
    <3> SUFFICES ASSUME DesktopInv
                 PROVE  DesktopInv'
      OBVIOUS
    <3>1. RequestsInv' /\ ToldTruly(overlay)' /\ ToldTruly(drawn)'
      BY <2>1, <2>3
         DEF DesktopInv, RequestsInv, RequestsTypeOK, requestVars, ToldTruly
    <3>2. Desktop!TypeOK'
      BY <2>1, <2>3, <3>1 DEF DesktopInv, Desktop!TypeOK, RequestsInv,
         RequestsTypeOK, Desktop!RequestsTypeOK, Desktop!Requests, Requests,
         Desktop!Finished, Finished, Desktop!Levels, Levels
    <3>3. QED
      BY <2>1, <2>3, <3>1, <3>2 DEF DesktopInv, UnderWay, requestVars
  <2>5. DesktopIdle => DesktopIdle'
    BY <2>1 DEF DesktopIdle
  <2>6. WebIdle => WebIdle'
    BY <2>1 DEF vars, kioskVars, WebIdle
  <2>7. QED
    BY <2>1, <2>2, <2>4, <2>5, <2>6 DEF EdgeInv
<1>4. QED
  BY <1>1, <1>2, <1>3 DEF EdgeNext

LEMMA EdgeInvariant == EdgeSpec => []EdgeInv
BY EdgeInitial, EdgeStep, PTL DEF EdgeSpec

\* Both kiosks keep the types of the program's state.
THEOREM EdgeTypeCorrect == EdgeSpec => []EdgeTypeOK
<1>1. EdgeInv => EdgeTypeOK
  <2>1. uiMode = "web" /\ KioskInv /\ DesktopIdle => EdgeTypeOK
    <3> SUFFICES ASSUME uiMode = "web", KioskInv, DesktopIdle
                 PROVE  EdgeTypeOK
      OBVIOUS
    <3>1. {overlay, drawn} \subseteq Desktop!Overlays
      BY RequestsAssumption DEF DesktopIdle, Desktop!Overlays, Desktop!Messages
    <3>2. QED
      BY <3>1, SameExecutor
         DEF KioskInv, DesktopIdle, EdgeTypeOK, TypeOK, Desktop!TypeOK
  <2>2. uiMode = "opencv" /\ DesktopInv /\ WebIdle => EdgeTypeOK
    <3> SUFFICES ASSUME uiMode = "opencv", DesktopInv, WebIdle
                 PROVE  EdgeTypeOK
      OBVIOUS
    <3>1. shown \in [camera : {"STARTING", "LIVE", "OFFLINE"},
                    message : Messages,
                    backend : {"idle", "disabled", "verifying"},
                    of : 0..MaxRequests]
      BY RequestsAssumption DEF WebIdle, Messages
    <3>2. QED
      BY <3>1, SameExecutor
         DEF DesktopInv, WebIdle, EdgeTypeOK, TypeOK, Desktop!TypeOK, Stages,
             Places
  <2>3. QED
    BY <2>1, <2>2 DEF EdgeInv
<1>2. QED
  BY EdgeInvariant, <1>1, PTL

\* Either kiosk has at most one verification under way.
THEOREM EdgeOneRequest == EdgeSpec => []OneRequestUnderWay
<1>1. EdgeInv => OneRequestUnderWay
  BY DEF EdgeInv, KioskInv, HeldInv, DesktopInv, OneRequestUnderWay
<1>2. QED
  BY EdgeInvariant, <1>1, PTL

\* Whichever kiosk runs, what a person is told is what the backend did.
THEOREM EdgeVerdictsAreTrue == EdgeSpec => []VerdictsAreTheBackends
<1>1. EdgeInv => VerdictsAreTheBackends
  <2>1. KioskInv /\ DesktopIdle => VerdictsAreTheBackends
    BY DEF KioskInv, RequestsInv, ShownInv, DesktopIdle, VerdictsAreTheBackends,
           VerdictIsTheBackends, Desktop!OverlayIsTheBackends
  <2>2. DesktopInv /\ WebIdle => VerdictsAreTheBackends
    BY DEF DesktopInv, RequestsInv, ToldTruly, WebIdle, VerdictsAreTheBackends,
           VerdictIsTheBackends, Desktop!OverlayIsTheBackends
  <2>3. QED
    BY <2>1, <2>2 DEF EdgeInv
<1>2. QED
  BY EdgeInvariant, <1>1, PTL

\* Nothing is pending once the legacy kiosk has ended, by a key, by an
\* exception or for want of a camera.
THEOREM EdgeLeavesNothing == EdgeSpec => []LeavesNothingPending
<1>1. EdgeInv => LeavesNothingPending
  <2>1. KioskInv /\ DesktopIdle => LeavesNothingPending
    BY DEF DesktopIdle, LeavesNothingPending, Desktop!LeavesNothingPending
  <2>2. DesktopInv => LeavesNothingPending
    BY SameExecutor DEF DesktopInv, RequestsInv, RequestsTypeOK, Requests,
       LeavesNothingPending, Desktop!LeavesNothingPending
  <2>3. QED
    BY <2>1, <2>2 DEF EdgeInv
<1>2. QED
  BY EdgeInvariant, <1>1, PTL

\* The web kiosk of the program streams no old picture while OFFLINE, and
\* its stop leaves nothing to be sent.
THEOREM EdgeWebSafe ==
    EdgeSpec => [](OfflineShowsNoPicture /\ StoppedLeavesNothingPending)
<1>1. EdgeInv => OfflineShowsNoPicture /\ StoppedLeavesNothingPending
  BY DEF EdgeInv, KioskInv, RequestsInv, ShownInv, WebIdle,
         OfflineShowsNoPicture, StoppedLeavesNothingPending
<1>2. QED
  BY EdgeInvariant, <1>1, PTL
=============================================================================
