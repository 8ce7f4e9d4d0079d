------------------------ MODULE EnrollmentRefinement ------------------------
(***************************************************************************)
(* The mapping from the tables to what EnrollmentPromise says of them.     *)
(* Between the two commits of a request the first one is seen by everyone; *)
(* the mapping shows the request as done from its first commit on.         *)
(***************************************************************************)
EXTENDS Enrollment

Deleting(e) == \E h \in Handlers :
    /\ requests[h].op = "delete"
    /\ requests[h].employee = e
    /\ requests[h].at \in {"findEmbedding", "dropEmbedding"}

Consuming(t) == \E h \in Handlers :
    /\ requests[h].op = "complete"
    /\ requests[h].token = t
    /\ requests[h].at \in {"recheck", "consume"}

StaffOf(e) ==
    IF ~employees[e].exists THEN "absent"
    ELSE IF employees[e].active /\ ~employees[e].deleted THEN "active"
    ELSE IF ~employees[e].active /\ employees[e].deleted THEN "deleted"
    ELSE "inconsistent"

FaceOf(e) == IF Deleting(e) THEN "none" ELSE embeddings[e]

LinkOf(t) ==
    IF Consuming(t) THEN [sessions[t] EXCEPT !.status = "completed"] ELSE sessions[t]

Promise == INSTANCE EnrollmentPromise WITH
    staff <- [e \in Employees |-> StaffOf(e)],
    faces <- [e \in Employees |-> FaceOf(e)],
    links <- [t \in Tokens |-> LinkOf(t)]

\* One request at a time, with no failures, behaves as promised: deletions,
\* enrollments and completions take effect as a whole.
KeepsPromise == Promise!PromiseSpec
=============================================================================
