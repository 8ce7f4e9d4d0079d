----------------------------- MODULE EdgeClient -----------------------------
(***************************************************************************)
(* The edge client's program: main() runs the legacy kiosk in a window or  *)
(* the web kiosk, as it is configured.  Both hand their scans to a         *)
(* one-worker executor of the same kind, so the requests, the variable     *)
(* that holds the one under way and the flag that the backend is used are  *)
(* shared by the two descriptions; the rest of each stands still while the *)
(* other one runs.                                                         *)
(***************************************************************************)
EXTENDS Kiosk

VARIABLES
    uiMode,         \* config.ui_mode: "opencv", or anything else
    place, overlay, drawn, key      \* of DesktopKiosk

Desktop == INSTANCE DesktopKiosk

webVars == <<lifespan, stopEvent, thread, camera, taken, picture, shown>>
desktopVars == <<place, overlay, drawn, key>>
edgeVars == <<vars, uiMode, desktopVars>>

EdgeTypeOK ==
    /\ TypeOK
    /\ uiMode \in {"opencv", "web"}
    /\ Desktop!TypeOK

EdgeInit ==
    /\ uiMode \in {"opencv", "web"}
    /\ Init
    /\ Desktop!Init

\* main() calls run_web_kiosk or run_opencv_kiosk and nothing else.
InBrowser == uiMode = "web" /\ UNCHANGED <<uiMode, desktopVars>>
InWindow == uiMode = "opencv" /\ UNCHANGED <<uiMode, webVars>>

EdgeNext ==
    \/ InBrowser /\ Next
    \/ InWindow /\ Desktop!Next

\* The fairness of each kiosk: its loop runs, requests time out, stop() runs
\* on, and a camera that is read again and again delivers a frame now and
\* then.  Nothing obliges anybody to stop the program.
EdgeSpec ==
    /\ EdgeInit
    /\ [][EdgeNext]_edgeVars
    /\ WF_edgeVars(InBrowser /\ MainStep)
    /\ WF_edgeVars(InBrowser /\ CameraStep)
    /\ WF_edgeVars(InBrowser /\ Worker)
    /\ WF_edgeVars(InWindow /\ Desktop!LoopStep)
    /\ WF_edgeVars(InWindow /\ Desktop!Worker)
    /\ SF_edgeVars(InWindow /\ Desktop!ReadFrame)

(***************************************************************************)
(* Properties of the legacy kiosk; those of the web kiosk, and             *)
(* OneRequestUnderWay of both, are in Kiosk.                               *)
(***************************************************************************)

\* Whichever kiosk runs, what a person is told is what the backend did: no
\* success without a grant, and no rejection of somebody whose entry it has
\* logged, also when its answer was late or lost, or the request cancelled.
VerdictsAreTheBackends ==
    VerdictIsTheBackends /\ Desktop!OverlayIsTheBackends

\* A program that has left its loop sends no further request.
LeavesNothingPending == Desktop!LeavesNothingPending

\* The exit key ends the program while the camera delivers now and then.
ExitIsHeard == Desktop!ExitIsHeard
=============================================================================
