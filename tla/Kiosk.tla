------------------------------- MODULE Kiosk -------------------------------
(***************************************************************************)
(* The web kiosk of the edge client, WebKioskRuntime: the camera thread    *)
(* that shows frames, looks for faces and has them verified, the lifespan  *)
(* of the web application that starts and stops it, and the status that it *)
(* shows.                                                                  *)
(*                                                                         *)
(* The camera thread and stop() share _backend_future without a lock; the  *)
(* snapshot and the frame are written under one, but in separate steps.    *)
(* A place of the camera thread is the statement it executes next.         *)
(***************************************************************************)
EXTENDS VerificationRequests

VARIABLES
    backendEnabled, \* config.backend_enabled
    lifespan,       \* where the start and stop of the application are
    stopEvent,      \* self._stop_event
    thread,         \* where the camera thread is
    camera,         \* "closed" or "open"
    future,         \* self._backend_future: a request, or NoFuture
    taken,          \* the request whose result _poll_backend_result holds
    picture,        \* self._latest_jpeg: "placeholder" or "frame"
    shown           \* self._snapshot: camera state, message, backend state

kioskVars == <<backendEnabled, lifespan, stopEvent, thread, camera, future,
               taken, picture, shown>>
vars == <<requestVars, kioskVars>>

NoFuture == 0

Places == {"unborn", "opening", "opened", "failing", "testing",
           "polling", "polled", "reading", "blank", "published", "detecting",
           "faceless", "in_test", "submitting", "submitted", "closing",
           "ended"}
Stages == {"starting", "serving", "cancelling", "reading_again", "joining",
           "shutting", "stopped", "aborted"}
CameraMessages == {"cannot_open", "no_frame"}
Messages == {"starting", "scanning", "no_face", "ui_test", "verifying"}
            \cup CameraMessages \cup Levels

TypeOK ==
    /\ RequestsTypeOK
    /\ backendEnabled \in BOOLEAN
    /\ lifespan \in Stages
    /\ stopEvent \in BOOLEAN
    /\ thread \in Places
    /\ camera \in {"closed", "open"}
    /\ {future, taken} \subseteq Requests \cup {NoFuture}
    /\ picture \in {"placeholder", "frame"}
    /\ shown \in [camera : {"STARTING", "LIVE", "OFFLINE"},
                  message : Messages,
                  backend : {"idle", "disabled", "verifying"},
                  of : 0..MaxRequests]

Init ==
    /\ RequestsInit
    /\ backendEnabled \in BOOLEAN
    /\ lifespan = "starting"
    /\ stopEvent = FALSE
    /\ thread = "unborn"
    /\ camera = "closed"
    /\ future = NoFuture
    /\ taken = NoFuture
    /\ picture = "placeholder"
    /\ shown = [camera |-> "STARTING", message |-> "starting",
                backend |-> "idle", of |-> 0]

CameraThread == <<thread, camera, future, taken, picture>>
Elsewhere == <<requestVars, lifespan, stopEvent, backendEnabled>>
Held == <<camera, future, taken>>

\* _update_status with the camera state, a message and the backend state; a
\* verdict also says which request it is of.
Show(cameraState, message, backend, of) ==
    shown' = [camera |-> cameraState, message |-> message,
              backend |-> backend, of |-> of]

(***************************************************************************)
(* The application's lifespan: start, and stop statement by statement.     *)
(***************************************************************************)
Start ==
    /\ lifespan = "starting"
    /\ lifespan' = "serving"
    /\ thread' = "opening"
    /\ UNCHANGED <<requestVars, backendEnabled, stopEvent, Held, picture, shown>>

StopBegins ==
    /\ lifespan = "serving"
    /\ stopEvent' = TRUE
    /\ lifespan' = "cancelling"
    /\ UNCHANGED <<requestVars, backendEnabled, CameraThread, shown>>

\* if self._backend_future is not None
StopLooksAtFuture ==
    /\ lifespan = "cancelling"
    /\ lifespan' = IF future = NoFuture THEN "joining" ELSE "reading_again"
    /\ UNCHANGED <<requestVars, backendEnabled, stopEvent, CameraThread, shown>>

\* self._backend_future.cancel() reads the attribute a second time.
StopCancels ==
    /\ lifespan = "reading_again"
    /\ future # NoFuture
    /\ Cancel(future)
    /\ lifespan' = "joining"
    /\ UNCHANGED <<backendEnabled, stopEvent, CameraThread, shown>>

\* The camera thread has taken the result in between: an AttributeError
\* leaves stop() with the rest of it undone.
StopAborts ==
    /\ lifespan = "reading_again"
    /\ future = NoFuture
    /\ lifespan' = "aborted"
    /\ UNCHANGED <<requestVars, backendEnabled, stopEvent, CameraThread, shown>>

\* join(timeout=2) returns when the thread has ended, or it has not.
StopJoins ==
    /\ lifespan = "joining"
    /\ lifespan' = "shutting"
    /\ UNCHANGED <<requestVars, backendEnabled, stopEvent, CameraThread, shown>>

\* Defect: shutdown without cancel_futures.
StopShutsDownKeepingFutures ==
    /\ lifespan = "shutting"
    /\ executor' = "shut"
    /\ lifespan' = "stopped"
    /\ UNCHANGED <<submitted, request, facesLeft, granted, backendEnabled,
                   stopEvent, CameraThread, shown>>

StopShutsDown ==
    /\ lifespan = "shutting"
    /\ Shutdown
    /\ lifespan' = "stopped"
    /\ UNCHANGED <<backendEnabled, stopEvent, CameraThread, shown>>

MainStep ==
    \/ Start
    \/ StopLooksAtFuture
    \/ StopCancels
    \/ StopAborts
    \/ StopJoins
    \/ StopShutsDown

(***************************************************************************)
(* _run: opening the camera.                                               *)
(***************************************************************************)
Goes(from, to) == thread = from /\ thread' = to

OpenCamera ==
    /\ Goes("opening", "opened")
    /\ camera' = "open"
    /\ UNCHANGED <<Elsewhere, future, taken, picture, shown>>

ShowScanning ==
    /\ Goes("opened", "testing")
    /\ Show("LIVE", "scanning", shown.backend, 0)
    /\ UNCHANGED <<Elsewhere, Held, picture>>

CannotOpenCamera ==
    /\ Goes("opening", "failing")
    /\ picture' = "placeholder"
    /\ UNCHANGED <<Elsewhere, Held, shown>>

\* The thread returns; nothing opens the camera again.
ShowCannotOpen ==
    /\ Goes("failing", "ended")
    /\ Show("OFFLINE", "cannot_open", shown.backend, 0)
    /\ UNCHANGED <<Elsewhere, Held, picture>>

(***************************************************************************)
(* _run: the loop.                                                         *)
(***************************************************************************)

TestStopEvent ==
    /\ Goes("testing", IF stopEvent THEN "closing" ELSE "polling")
    /\ UNCHANGED <<Elsewhere, Held, picture, shown>>

\* Defect: a result is taken only while the camera delivers.
FutureDoneWhenLive ==
    /\ shown.camera = "LIVE"
    /\ future # NoFuture
    /\ request[future] \in Finished

FutureDone == future # NoFuture /\ request[future] \in Finished

PollFindsResult ==
    /\ Goes("polling", "polled")
    /\ FutureDone
    /\ future' = NoFuture
    /\ taken' = future
    /\ UNCHANGED <<Elsewhere, camera, picture, shown>>

\* Defect: whatever is not a success is told as a rejection.
ShowVerdictOfTwo ==
    /\ Goes("polled", "reading")
    /\ Show(shown.camera,
            IF Verdict(taken) = "success" THEN "success" ELSE "failed",
            "idle", taken)
    /\ taken' = NoFuture
    /\ UNCHANGED <<Elsewhere, camera, future, picture>>

ShowVerdict ==
    /\ Goes("polled", "reading")
    /\ Show(shown.camera, Verdict(taken), "idle", taken)
    /\ taken' = NoFuture
    /\ UNCHANGED <<Elsewhere, camera, future, picture>>

PollFindsNothing ==
    /\ Goes("polling", "reading")
    /\ ~FutureDone
    /\ UNCHANGED <<Elsewhere, Held, picture, shown>>

\* Defect: the picture is blanked after the status says OFFLINE.
NoFrameStatusFirst ==
    /\ Goes("reading", "blank")
    /\ Show("OFFLINE", "no_frame", shown.backend, 0)
    /\ UNCHANGED <<Elsewhere, Held, picture>>

NoFrame ==
    /\ Goes("reading", "blank")
    /\ picture' = "placeholder"
    /\ UNCHANGED <<Elsewhere, Held, shown>>

ShowNoFrame ==
    /\ Goes("blank", "testing")
    /\ Show("OFFLINE", "no_frame", shown.backend, 0)
    /\ UNCHANGED <<Elsewhere, Held, picture>>

\* Picture and camera state under one lock.
PublishFrame ==
    /\ Goes("reading", "published")
    /\ picture' = "frame"
    /\ shown' = [shown EXCEPT !.camera = "LIVE"]
    /\ UNCHANGED <<Elsewhere, Held>>

\* A frame that cannot be encoded is not published, but scanned.
FrameNotEncoded ==
    /\ Goes("reading", "published")
    /\ UNCHANGED <<Elsewhere, Held, picture, shown>>

\* Not yet time for a scan, or a request is under way.
NoScan ==
    /\ Goes("published", "testing")
    /\ UNCHANGED <<Elsewhere, Held, picture, shown>>

\* Defect: a scan does not wait for the request under way.
ScanAnyTime ==
    /\ Goes("published", "detecting")
    /\ submitted < MaxRequests
    /\ UNCHANGED <<Elsewhere, Held, picture, shown>>

Scan ==
    /\ Goes("published", "detecting")
    /\ future = NoFuture
    /\ submitted < MaxRequests
    /\ UNCHANGED <<Elsewhere, Held, picture, shown>>

(***************************************************************************)
(* _handle_faces.                                                          *)
(***************************************************************************)
FindFaces ==
    /\ \/ Goes("detecting", "faceless")
       \/ Goes("detecting", IF backendEnabled THEN "submitting" ELSE "in_test")
    /\ UNCHANGED <<Elsewhere, Held, picture, shown>>

ShowNoFace ==
    /\ Goes("faceless", "testing")
    /\ Show("LIVE", "no_face", "idle", 0)
    /\ UNCHANGED <<Elsewhere, Held, picture>>

ShowTestMode ==
    /\ Goes("in_test", "testing")
    /\ Show("LIVE", "ui_test", "disabled", 0)
    /\ UNCHANGED <<Elsewhere, Held, picture>>

SubmitFaces ==
    /\ Goes("submitting", "submitted")
    /\ \E n \in 1..MaxFaces : Submit(n)
    /\ future' = submitted'
    /\ UNCHANGED <<lifespan, stopEvent, backendEnabled, camera, taken, picture,
                   shown>>

ShowVerifying ==
    /\ Goes("submitted", "testing")
    /\ Show("LIVE", "verifying", "verifying", 0)
    /\ UNCHANGED <<Elsewhere, Held, picture>>

(***************************************************************************)
(* Exceptions.  _run catches none after the camera is open: they close the *)
(* camera and end the thread, and the status stays as it is.               *)
(***************************************************************************)

\* Defect: close() is not in a finally clause.
LoopRaisesWithoutClosing ==
    /\ \/ thread \in {"reading", "detecting"}
       \/ thread = "submitting" /\ executor = "shut"
    /\ thread' = "ended"
    /\ UNCHANGED <<Elsewhere, Held, picture, shown>>

\* The camera, the encoder or the detector raises; submit raises after a
\* shutdown that did not wait for the thread any longer.
LoopRaises ==
    /\ \/ thread \in {"reading", "detecting"}
       \/ thread = "submitting" /\ executor = "shut"
    /\ thread' = "closing"
    /\ UNCHANGED <<Elsewhere, Held, picture, shown>>

CloseCamera ==
    /\ Goes("closing", "ended")
    /\ camera' = "closed"
    /\ UNCHANGED <<Elsewhere, future, taken, picture, shown>>

CameraStep ==
    \/ OpenCamera \/ ShowScanning \/ CannotOpenCamera \/ ShowCannotOpen
    \/ TestStopEvent \/ PollFindsResult \/ ShowVerdict \/ PollFindsNothing
    \/ NoFrame \/ ShowNoFrame \/ PublishFrame \/ FrameNotEncoded
    \/ NoScan \/ Scan \/ FindFaces
    \/ ShowNoFace \/ ShowTestMode \/ SubmitFaces \/ ShowVerifying
    \/ LoopRaises \/ CloseCamera

Worker == WorkerStep /\ UNCHANGED kioskVars

Next ==
    \/ MainStep
    \/ StopBegins
    \/ CameraStep
    \/ Worker

Spec == Init /\ [][Next]_vars

(***************************************************************************)
(* Properties.                                                             *)
(***************************************************************************)

\* A kiosk has at most one verification under way, over all interleavings of
\* its scans, its polling and its stop (the guard on _backend_future).
OneRequestUnderWay ==
    \A q, r \in Requests : UnderWay(q) /\ UnderWay(r) => q = r

\* What a person is told is what the backend did: "success" only for a face
\* it granted, and "failed" never for one it granted, whose entry is logged,
\* even if its answer was late, lost, or the request was cancelled.
VerdictIsTheBackends ==
    /\ shown.message = "success" => shown.of \in granted
    /\ shown.message = "failed" => shown.of \notin granted

\* While the status says OFFLINE the stream does not show an old picture,
\* although picture and status are written in separate critical sections.
OfflineShowsNoPicture ==
    shown.camera = "OFFLINE" => picture = "placeholder"

\* After a stop that ran to its end no request is left that could still be
\* sent, even by a camera thread that outlived the join.
StoppedLeavesNothingPending ==
    lifespan = "stopped" => \A r \in Requests : request[r] # "pending"

\* "Verifying" is not shown for ever: the result of every request is taken
\* up, with and without frames from the camera, unless the thread dies.
VerifyingEnds ==
    shown.backend = "verifying" ~> (shown.backend # "verifying"
                                    \/ thread = "ended")

\* A stop, even one that aborts or gives up waiting, ends the camera thread
\* and releases the camera.
StopReleasesCamera ==
    stopEvent ~> (thread = "ended" /\ camera = "closed")
=============================================================================
