------------------------ MODULE VerificationRequests ------------------------
(***************************************************************************)
(* The verification requests of a kiosk: the thread pool with one worker   *)
(* and the function it runs, send_crops_to_backend, which posts the faces  *)
(* of one scan to the backend one after the other.                         *)
(*                                                                         *)
(* The backend is external: it grants or rejects a face, refuses the       *)
(* request, fails, or cannot be reached.  It may grant a face whose answer *)
(* the kiosk no longer waits for.                                          *)
(***************************************************************************)
EXTENDS Naturals

CONSTANTS
    MaxRequests,    \* bound: no request is submitted after this many
    MaxFaces        \* bound: faces in one frame

ASSUME RequestsAssumption == MaxRequests \in Nat /\ MaxFaces \in Nat \ {0}

VARIABLES
    submitted,      \* requests handed to the executor so far
    request,        \* the state of each one's future, with its result
    facesLeft,      \* faces of it that were not answered yet
    granted,        \* requests in which the backend granted a face
    executor        \* "open" or "shut"

requestVars == <<submitted, request, facesLeft, granted, executor>>

Requests == 1..MaxRequests
Levels == {"success", "failed", "error"}        \* what the function returns
Finished == Levels \cup {"raised", "cancelled"}
UnderWay(r) == request[r] \in {"pending", "running"}

RequestsTypeOK ==
    /\ submitted \in 0..MaxRequests
    /\ request \in [Requests -> {"none", "pending", "running"} \cup Finished]
    /\ facesLeft \in [Requests -> 0..MaxFaces]
    /\ granted \subseteq Requests
    /\ executor \in {"open", "shut"}

RequestsInit ==
    /\ submitted = 0
    /\ request = [r \in Requests |-> "none"]
    /\ facesLeft = [r \in Requests |-> 0]
    /\ granted = {}
    /\ executor = "open"

(***************************************************************************)
(* The executor.                                                           *)
(***************************************************************************)
Submit(faces) ==
    /\ executor = "open"
    /\ submitted < MaxRequests
    /\ submitted' = submitted + 1
    /\ request' = [request EXCEPT ![submitted + 1] = "pending"]
    /\ facesLeft' = [facesLeft EXCEPT ![submitted + 1] = faces]
    /\ UNCHANGED <<granted, executor>>

\* Future.cancel: nothing happens to a request the worker has taken up.
Cancelled(r) ==
    IF request[r] = "pending" THEN [request EXCEPT ![r] = "cancelled"]
                              ELSE request

Cancel(r) ==
    /\ request' = Cancelled(r)
    /\ UNCHANGED <<submitted, facesLeft, granted, executor>>

\* shutdown(wait=False, cancel_futures=True)
Shutdown ==
    /\ executor' = "shut"
    /\ request' = [r \in Requests |-> IF request[r] = "pending"
                                      THEN "cancelled" ELSE request[r]]
    /\ UNCHANGED <<submitted, facesLeft, granted>>

TakeUp(r) ==
    /\ request[r] = "pending"
    /\ \A q \in Requests : request[q] # "running"
    /\ request' = [request EXCEPT ![r] = "running"]
    /\ UNCHANGED <<submitted, facesLeft, granted, executor>>

(***************************************************************************)
(* send_crops_to_backend: one post and what becomes of its answer.         *)
(***************************************************************************)
Return(r, result) ==
    /\ request[r] = "running"
    /\ request' = [request EXCEPT ![r] = result]
    /\ facesLeft' = [facesLeft EXCEPT ![r] = 0]
    /\ UNCHANGED <<submitted, executor>>

\* A granted face ends the loop; the answer may come too late or be lost.
FaceGranted(r) ==
    /\ \E result \in {"success", "error"} : Return(r, result)
    /\ granted' = granted \cup {r}

\* Defect: the loop does not end with the last face.
FaceRejectedPastTheLast(r) ==
    /\ request[r] = "running"
    /\ facesLeft' = [facesLeft EXCEPT ![r] = @ - 1]
    /\ UNCHANGED <<submitted, request, granted, executor>>

FaceRejected(r) ==
    /\ request[r] = "running"
    /\ facesLeft[r] > 1
    /\ facesLeft' = [facesLeft EXCEPT ![r] = @ - 1]
    /\ UNCHANGED <<submitted, request, granted, executor>>

LastFaceRejected(r) ==
    /\ facesLeft[r] = 1
    /\ Return(r, "failed")
    /\ UNCHANGED granted

\* A status of 400 or above ends the loop; the other faces are not posted.
RequestRefused(r) == Return(r, "failed") /\ UNCHANGED granted

\* A status of 500 or above, no connection, a timeout, no JSON.
BackendUnavailable(r) == Return(r, "error") /\ UNCHANGED granted

\* JSON of another shape raises out of the function.
AnswerUnreadable(r) == Return(r, "raised") /\ UNCHANGED granted

PostFace(r) ==
    \/ FaceGranted(r)
    \/ FaceRejected(r)
    \/ LastFaceRejected(r)
    \/ RequestRefused(r)
    \/ BackendUnavailable(r)
    \/ AnswerUnreadable(r)

WorkerStep == \E r \in Requests : TakeUp(r) \/ PostFace(r)

\* What a kiosk shows of a future that is done: result() raises for a
\* request that was cancelled or raised, and the kiosk calls that an error.
Verdict(r) == IF request[r] \in Levels THEN request[r] ELSE "error"
=============================================================================
