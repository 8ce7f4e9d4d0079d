---------------------------- MODULE DesktopKiosk ----------------------------
(***************************************************************************)
(* The legacy kiosk of the edge client, run_opencv_kiosk: one loop that    *)
(* reads frames, has faces verified by the same worker as the web kiosk,   *)
(* and draws every frame with an overlay into a window whose keys it       *)
(* reads.  Camera and window are external.                                 *)
(***************************************************************************)
EXTENDS VerificationRequests

VARIABLES
    backendEnabled, \* config.backend_enabled
    place,          \* the statement of the loop that comes next
    future,         \* backend_future: a request, or NoFuture
    overlay,        \* overlay_status: camera state, message, whose verdict
    drawn,          \* the overlay last drawn into the window
    key             \* an exit key waits in the window's queue

kioskVars == <<backendEnabled, place, future, overlay, drawn, key>>
vars == <<requestVars, kioskVars>>

NoFuture == 0
Messages == {"waiting", "no_frame", "no_face", "ui_test", "verifying"}
            \cup Levels
Overlays == [camera : {"LIVE", "OFFLINE"}, message : Messages,
             of : 0..MaxRequests]

TypeOK ==
    /\ RequestsTypeOK
    /\ backendEnabled \in BOOLEAN
    /\ place \in {"opening", "polling", "reading", "drawing", "leaving",
                  "ended"}
    /\ future \in Requests \cup {NoFuture}
    /\ {overlay, drawn} \subseteq Overlays
    /\ key \in BOOLEAN

Init ==
    /\ RequestsInit
    /\ backendEnabled \in BOOLEAN
    /\ place = "opening"
    /\ future = NoFuture
    /\ overlay = [camera |-> "LIVE", message |-> "waiting", of |-> 0]
    /\ drawn = overlay
    /\ key = FALSE

Goes(from, to) == place = from /\ place' = to

\* Without a camera the program ends; no request was submitted yet.
OpenCamera ==
    /\ Goes("opening", "polling") \/ Goes("opening", "ended")
    /\ UNCHANGED <<requestVars, backendEnabled, future, overlay, drawn, key>>

FutureDone == future # NoFuture /\ request[future] \in Finished

PollFindsResult ==
    /\ Goes("polling", "reading")
    /\ FutureDone
    /\ overlay' = [overlay EXCEPT !.message = Verdict(future), !.of = future]
    /\ future' = NoFuture
    /\ UNCHANGED <<requestVars, backendEnabled, drawn, key>>

PollFindsNothing ==
    /\ Goes("polling", "reading")
    /\ ~FutureDone
    /\ UNCHANGED <<requestVars, backendEnabled, future, overlay, drawn, key>>

\* Without a frame the loop starts over: nothing is drawn, no key is read.
NoFrame ==
    /\ Goes("reading", "polling")
    /\ overlay' = [camera |-> "OFFLINE", message |-> "no_frame", of |-> 0]
    /\ UNCHANGED <<requestVars, backendEnabled, future, drawn, key>>

FrameWithoutScan ==
    /\ Goes("reading", "drawing")
    /\ overlay' = [overlay EXCEPT !.camera = "LIVE"]
    /\ UNCHANGED <<requestVars, backendEnabled, future, drawn, key>>

ScanTold(message) ==
    overlay' = [camera |-> "LIVE", message |-> message, of |-> 0]

ScanWithoutRequest ==
    /\ Goes("reading", "drawing")
    /\ future = NoFuture
    /\ ScanTold("no_face") \/ (~backendEnabled /\ ScanTold("ui_test"))
    /\ UNCHANGED <<requestVars, backendEnabled, future, drawn, key>>

ScanSubmits ==
    /\ Goes("reading", "drawing")
    /\ future = NoFuture
    /\ backendEnabled
    /\ ScanTold("verifying")
    /\ \E n \in 1..MaxFaces : Submit(n)
    /\ future' = submitted'
    /\ UNCHANGED <<backendEnabled, drawn, key>>

ReadFrame == FrameWithoutScan \/ ScanWithoutRequest \/ ScanSubmits

\* Defect: the window's answer is not looked at.
DrawWithoutKeys ==
    /\ Goes("drawing", "polling")
    /\ drawn' = overlay
    /\ UNCHANGED <<requestVars, backendEnabled, future, overlay, key>>

\* render_frame draws and then waits a moment for a key.
Draw ==
    /\ Goes("drawing", IF key THEN "leaving" ELSE "polling")
    /\ drawn' = overlay
    /\ UNCHANGED <<requestVars, backendEnabled, future, overlay, key>>

\* The camera, the detector or the window raises.
LoopRaises ==
    /\ Goes("reading", "leaving") \/ Goes("drawing", "leaving")
    /\ UNCHANGED <<requestVars, backendEnabled, future, overlay, drawn, key>>

\* Defect: the request is only forgotten.
LeaveForgetting ==
    /\ Goes("leaving", "ended")
    /\ executor' = "shut"
    /\ future' = NoFuture
    /\ UNCHANGED <<submitted, request, facesLeft, granted, backendEnabled,
                   overlay, drawn, key>>

\* finally: the cancelled future is covered by cancel_futures.
Leave ==
    /\ Goes("leaving", "ended")
    /\ Shutdown
    /\ UNCHANGED <<backendEnabled, future, overlay, drawn, key>>

LoopStep ==
    \/ OpenCamera
    \/ PollFindsResult \/ PollFindsNothing
    \/ NoFrame \/ ReadFrame
    \/ Draw \/ LoopRaises \/ Leave

PressExit ==
    /\ ~key
    /\ key' = TRUE
    /\ UNCHANGED <<requestVars, backendEnabled, place, future, overlay, drawn>>

Worker == WorkerStep /\ UNCHANGED kioskVars

Next == LoopStep \/ PressExit \/ Worker

Spec == Init /\ [][Next]_vars

(***************************************************************************)
(* Properties.                                                             *)
(***************************************************************************)

\* What the window shows of a request is what the backend did, also when the
\* answer was late or lost, or the request was cancelled.
OverlayIsTheBackends ==
    \A told \in {overlay, drawn} :
        /\ told.message = "success" => told.of \in granted
        /\ told.message = "failed" => told.of \notin granted

\* A program that has left its loop, by a key or an exception, sends no
\* further request: none is pending in the executor.
LeavesNothingPending ==
    place = "ended" => \A r \in Requests : request[r] # "pending"

\* The exit key ends the program while the camera delivers frames now and
\* then; without any the loop never reads the keys.
ExitIsHeard == key ~> place = "ended"
=============================================================================
