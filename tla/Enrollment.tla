----------------------------- MODULE Enrollment -----------------------------
(***************************************************************************)
(* Employees, face embeddings and enrollment links: the requests of        *)
(* backend/app/api/endpoints_admin.py on the three tables they share.      *)
(*                                                                         *)
(* A handler is a request being served by some thread of some replica of   *)
(* the backend.  Its steps are the database statements it issues, in the   *)
(* order of the code; between two of them any other handler may commit     *)
(* (READ COMMITTED, no row is locked by a read).  A handler's uncommitted  *)
(* writes are flushed by the commit itself, so a write and its commit are  *)
(* one step here.  The ORM sends only the columns whose loaded value       *)
(* changed: what a handler writes depends on the row it loaded.            *)
(***************************************************************************)
EXTENDS Integers

CONSTANTS
    Handlers,       \* requests in progress at the same time
    Employees,      \* normalized employee codes
    Tokens,         \* enrollment links (their token hashes)
    Ops,            \* the kinds of request that arrive, a subset of AllOps
    SessionTTL,     \* enrollment_session_ttl_minutes
    MaxTime,        \* bound: the clock stops here
    Faulty          \* whether commits fail and processes die

EmployeeOps == {"create", "update", "delete", "restore", "enroll", "samples", "issue"}
LinkOps == {"status", "complete", "revoke"}
AllOps == EmployeeOps \cup LinkOps

\* Where an embedding came from: metadata["source"], or the link used.
Sources == {"enroll", "samples"} \cup Tokens

ASSUME OpsAssumption == Ops \subseteq AllOps
ASSUME TokensAssumption ==
    Tokens \cap {"none", "enroll", "samples"} = {} /\ "none" \notin Employees
ASSUME ClockAssumption == SessionTTL \in Nat \ {0} /\ MaxTime \in Nat
ASSUME FaultyAssumption == Faulty \in BOOLEAN

VARIABLES
    clock,
    employees,      \* employees table
    embeddings,     \* face_embeddings table: source of the stored vector
    sessions,       \* enrollment_sessions table
    requests,       \* what each handler is doing
    reply,          \* the response sent by the last step, if it sent one
    enrolled        \* history: links whose capture was ever committed

tables == <<employees, embeddings, sessions>>
vars == <<clock, employees, embeddings, sessions, requests, reply, enrolled>>

Row == [exists : BOOLEAN, active : BOOLEAN, deleted : BOOLEAN]
NoRow == [exists |-> FALSE, active |-> FALSE, deleted |-> FALSE]

Settled == {"completed", "expired", "revoked"}
Session == [status : {"none", "pending"} \cup Settled,
            employee : Employees \cup {"none"},
            expiresAt : Nat]
NoSession == [status |-> "none", employee |-> "none", expiresAt |-> 0]

NoRequest == [op |-> "none", at |-> "idle", employee |-> "none",
              token |-> "none", loaded |-> NoRow, holds |-> FALSE]
NoReply == [op |-> "none", code |-> 0, employee |-> "none", token |-> "none"]

Init ==
    /\ clock = 0
    /\ employees = [e \in Employees |-> NoRow]
    /\ embeddings = [e \in Employees |-> "none"]
    /\ sessions = [t \in Tokens |-> NoSession]
    /\ requests = [h \in Handlers |-> NoRequest]
    /\ reply = NoReply
    /\ enrolled = {}

At(h, op, label) == requests[h].op = op /\ requests[h].at = label
Emp(h) == requests[h].employee
Tok(h) == requests[h].token

\* The next statement of a request.  It may hold an embedding row that its last
\* statement found: a row deleted by another handler is not held any more, and
\* one inserted later for the same employee is another row.
Move(h, label, holds) ==
    /\ requests' = [requests EXCEPT ![h].at = label, ![h].holds = holds]
    /\ reply' = NoReply

Goto(h, label) == Move(h, label, FALSE)

Response(h, code) ==
    [op |-> requests[h].op, code |-> code, employee |-> Emp(h), token |-> Tok(h)]

Reply(h, code) ==
    /\ requests' = [requests EXCEPT ![h] = NoRequest]
    /\ reply' = Response(h, code)

Expired(t) == sessions[t].expiresAt <= clock

(***************************************************************************)
(* A request arrives.  An issue request has drawn the random token it will *)
(* store, which no other link has.                                         *)
(***************************************************************************)
Free(t) ==
    /\ sessions[t].status = "none"
    /\ \A h \in Handlers : ~(requests[h].op = "issue" /\ Tok(h) = t)

Receive(h) ==
    /\ requests[h].at = "idle"
    /\ \/ \E op \in Ops \cap (EmployeeOps \ {"issue"}), e \in Employees :
            requests' = [requests EXCEPT ![h] =
                [NoRequest EXCEPT !.op = op, !.at = "lookup", !.employee = e]]
       \/ \E e \in Employees, t \in Tokens :
            /\ "issue" \in Ops
            /\ Free(t)
            /\ requests' = [requests EXCEPT ![h] =
                 [NoRequest EXCEPT !.op = "issue", !.at = "lookup",
                                   !.employee = e, !.token = t]]
       \/ \E op \in Ops \cap LinkOps, t \in Tokens :
            requests' = [requests EXCEPT ![h] =
                [NoRequest EXCEPT !.op = op, !.at = "session", !.token = t]]
    /\ reply' = NoReply
    /\ UNCHANGED <<clock, employees, embeddings, sessions, enrolled>>

(***************************************************************************)
(* employee_registry.create_employee: a lookup that includes inactive rows *)
(* and an insert.  A row that appeared in between violates the unique      *)
(* index, which nothing catches.                                           *)
(***************************************************************************)
CheckDuplicate(h) ==
    /\ At(h, "create", "lookup")
    /\ IF employees[Emp(h)].exists THEN Reply(h, 409) ELSE Goto(h, "insert")
    /\ UNCHANGED <<clock, employees, embeddings, sessions, enrolled>>

InsertEmployee(h) ==
    /\ At(h, "create", "insert")
    /\ IF employees[Emp(h)].exists
       THEN Reply(h, 500) /\ UNCHANGED employees
       ELSE /\ employees' = [employees EXCEPT ![Emp(h)] =
                               [exists |-> TRUE, active |-> TRUE, deleted |-> FALSE]]
            /\ Reply(h, 201)
    /\ UNCHANGED <<clock, embeddings, sessions, enrolled>>

(***************************************************************************)
(* get_employee: the requests that need an active employee.                *)
(***************************************************************************)
AfterLookup == [update |-> "write", enroll |-> "capture", samples |-> "capture",
                issue |-> "issue", complete |-> "capture"]

FindActive(h) ==
    /\ requests[h].op \in DOMAIN AfterLookup
    /\ requests[h].at = "lookup"
    /\ IF employees[Emp(h)].active
       THEN Goto(h, AfterLookup[requests[h].op])
       ELSE Reply(h, IF requests[h].op = "complete" THEN 410 ELSE 404)
    /\ UNCHANGED <<clock, employees, embeddings, sessions, enrolled>>

\* update_employee writes name and department, which nothing here depends on.
UpdateRow(h) ==
    /\ At(h, "update", "write")
    /\ Reply(h, 200)
    /\ UNCHANGED <<clock, employees, embeddings, sessions, enrolled>>

(***************************************************************************)
(* delete_employee and restore_employee load the row, active or not, then  *)
(* assign active and deleted_at.  A column assigned the value it had when  *)
(* it was loaded is not sent; the time of a deletion is always new.        *)
(***************************************************************************)
LoadRow(h) ==
    /\ requests[h].op \in {"delete", "restore"}
    /\ requests[h].at = "lookup"
    /\ IF employees[Emp(h)].exists
       THEN /\ requests' = [requests EXCEPT ![h].at = "write",
                                            ![h].loaded = employees[Emp(h)]]
            /\ reply' = NoReply
       ELSE Reply(h, 404)
    /\ UNCHANGED <<clock, employees, embeddings, sessions, enrolled>>

Deactivate(h) ==
    /\ At(h, "delete", "write")
    /\ employees' = [employees EXCEPT
         ![Emp(h)].active = IF requests[h].loaded.active THEN FALSE ELSE @,
         ![Emp(h)].deleted = TRUE]
    /\ Goto(h, "findEmbedding")
    /\ UNCHANGED <<clock, embeddings, sessions, enrolled>>

\* Defect: a restored row keeps the time of its deletion.
ReactivateKeepingDeletion(h) ==
    /\ At(h, "restore", "write")
    /\ employees' = [employees EXCEPT ![Emp(h)].active = TRUE]
    /\ Reply(h, 200)
    /\ UNCHANGED <<clock, embeddings, sessions, enrolled>>

Reactivate(h) ==
    /\ At(h, "restore", "write")
    /\ employees' = [employees EXCEPT
         ![Emp(h)].active = IF requests[h].loaded.active THEN @ ELSE TRUE,
         ![Emp(h)].deleted = IF requests[h].loaded.deleted THEN FALSE ELSE @]
    /\ Reply(h, 200)
    /\ UNCHANGED <<clock, embeddings, sessions, enrolled>>

(***************************************************************************)
(* delete_face_embedding: the second commit of a delete request.  Deleting *)
(* a row that is gone already is not an error.                             *)
(***************************************************************************)

\* Defect: the embedding is left where it is.
ForgetEmbedding(h) ==
    /\ At(h, "delete", "findEmbedding")
    /\ Reply(h, 200)
    /\ UNCHANGED <<clock, employees, embeddings, sessions, enrolled>>

FindEmbedding(h) ==
    /\ At(h, "delete", "findEmbedding")
    /\ IF embeddings[Emp(h)] = "none"
       THEN Reply(h, 200)
       ELSE Move(h, "dropEmbedding", TRUE)
    /\ UNCHANGED <<clock, employees, embeddings, sessions, enrolled>>

DropEmbedding(h) ==
    /\ At(h, "delete", "dropEmbedding")
    /\ IF requests[h].holds
       THEN /\ embeddings' = [embeddings EXCEPT ![Emp(h)] = "none"]
            /\ requests' = [g \in Handlers |->
                 IF g = h THEN NoRequest
                 ELSE IF Emp(g) = Emp(h) THEN [requests[g] EXCEPT !.holds = FALSE]
                 ELSE requests[g]]
            /\ reply' = Response(h, 200)
       ELSE UNCHANGED embeddings /\ Reply(h, 200)
    /\ UNCHANGED <<clock, employees, sessions, enrolled>>

(***************************************************************************)
(* Reading the uploaded images and embedding them: awaits and seconds of   *)
(* computation during which the request holds nothing.  Unusable samples,  *)
(* or too few or too many, are a 400; a missing provider is a 503.         *)
(***************************************************************************)

\* Defect: the link is used up before the face is stored.
ConsumeThenStore(h) ==
    /\ requests[h].at = "capture"
    /\ Goto(h, IF requests[h].op = "complete" THEN "recheck" ELSE "store")
    /\ UNCHANGED <<clock, employees, embeddings, sessions, enrolled>>

Capture(h) ==
    /\ requests[h].at = "capture"
    /\ \/ Goto(h, "store")
       \/ \E code \in {400, 503} : Reply(h, code)
    /\ UNCHANGED <<clock, employees, embeddings, sessions, enrolled>>

(***************************************************************************)
(* upsert_face_embedding: a query that decides between insert and update,  *)
(* and the commit.  Inserting a row another handler has inserted, and      *)
(* updating one another handler has deleted, both fail in the flush; the   *)
(* retries then find the transaction rolled back, and the request ends in  *)
(* an error.  The employee is not looked at again.                         *)
(***************************************************************************)
ChooseWrite(h) ==
    /\ requests[h].at = "store"
    /\ IF embeddings[Emp(h)] = "none"
       THEN Goto(h, "insertEmbedding")
       ELSE Move(h, "replaceEmbedding", TRUE)
    /\ UNCHANGED <<clock, employees, embeddings, sessions, enrolled>>

Stored(h) ==
    IF requests[h].op = "complete"
    THEN /\ embeddings' = [embeddings EXCEPT ![Emp(h)] = Tok(h)]
         /\ enrolled' = enrolled \cup {Tok(h)}
         /\ Goto(h, "recheck")
    ELSE /\ embeddings' = [embeddings EXCEPT ![Emp(h)] = requests[h].op]
         /\ UNCHANGED enrolled
         /\ Reply(h, 200)

InsertEmbedding(h) ==
    /\ requests[h].at = "insertEmbedding"
    /\ IF embeddings[Emp(h)] = "none"
       THEN Stored(h)
       ELSE Reply(h, 500) /\ UNCHANGED <<embeddings, enrolled>>
    /\ UNCHANGED <<clock, employees, sessions>>

ReplaceEmbedding(h) ==
    /\ requests[h].at = "replaceEmbedding"
    /\ IF requests[h].holds
       THEN Stored(h)
       ELSE Reply(h, 500) /\ UNCHANGED <<embeddings, enrolled>>
    /\ UNCHANGED <<clock, employees, sessions>>

(***************************************************************************)
(* enrollment_session_service.create_session.                              *)
(***************************************************************************)

\* Defect: the link is stored with a status the other requests do not know.
IssueOpenLink(h) ==
    /\ At(h, "issue", "issue")
    /\ sessions' = [sessions EXCEPT ![Tok(h)] =
         [status |-> "open", employee |-> Emp(h), expiresAt |-> clock + SessionTTL]]
    /\ Reply(h, 201)
    /\ UNCHANGED <<clock, employees, embeddings, enrolled>>

IssueLink(h) ==
    /\ At(h, "issue", "issue")
    /\ sessions' = [sessions EXCEPT ![Tok(h)] =
         [status |-> "pending", employee |-> Emp(h), expiresAt |-> clock + SessionTTL]]
    /\ Reply(h, 201)
    /\ UNCHANGED <<clock, employees, embeddings, enrolled>>

(***************************************************************************)
(* get_session: a pending link past its time is marked expired and         *)
(* committed, whatever became of it since it was loaded.                   *)
(***************************************************************************)
AfterSession == [status |-> "view", complete |-> "lookup", revoke |-> "revoke"]

\* Defect: the expiry time is not looked at.
LoadSessionLate(h) ==
    /\ requests[h].at = "session"
    /\ LET s == sessions[Tok(h)] IN
       \/ /\ s.status = "pending"
          /\ requests' = [requests EXCEPT ![h].at = AfterSession[requests[h].op],
                                          ![h].employee = s.employee]
          /\ reply' = NoReply
       \/ s.status # "pending" /\ Reply(h, 410)
    /\ UNCHANGED <<clock, employees, embeddings, sessions, enrolled>>

\* Defect: the capture is for an employee the request names.
LoadSessionOfAnyone(h) ==
    /\ requests[h].at = "session"
    /\ LET s == sessions[Tok(h)] IN
       \/ /\ s.status = "pending"
          /\ \E e \in Employees :
               requests' = [requests EXCEPT ![h].at = AfterSession[requests[h].op],
                                            ![h].employee = e]
          /\ reply' = NoReply
       \/ s.status # "pending" /\ Reply(h, 410)
    /\ UNCHANGED <<clock, employees, embeddings, sessions, enrolled>>

LoadSession(h) ==
    /\ requests[h].at = "session"
    /\ LET s == sessions[Tok(h)] IN
       \/ s.status = "none" /\ Reply(h, 404)
       \/ /\ s.status = "pending"
          /\ Expired(Tok(h))
          /\ Goto(h, "expire")
       \/ /\ s.status = "pending"
          /\ ~Expired(Tok(h))
          /\ requests' = [requests EXCEPT ![h].at = AfterSession[requests[h].op],
                                          ![h].employee = s.employee]
          /\ reply' = NoReply
       \/ s.status \in Settled /\ requests[h].op = "status" /\ Goto(h, "view")
       \/ s.status \in Settled /\ requests[h].op = "complete" /\ Reply(h, 410)
       \/ s.status \in Settled /\ requests[h].op = "revoke" /\ Reply(h, 200)
    /\ UNCHANGED <<clock, employees, embeddings, sessions, enrolled>>

ExpireLink(h) ==
    /\ requests[h].at = "expire"
    /\ sessions' = [sessions EXCEPT ![Tok(h)].status = "expired"]
    /\ \/ requests[h].op = "status" /\ Goto(h, "view")
       \/ requests[h].op = "complete" /\ Reply(h, 410)
       \/ requests[h].op = "revoke" /\ Reply(h, 200)
    /\ UNCHANGED <<clock, employees, embeddings, enrolled>>

\* The page of a link shows its employee, active or not.
ViewLink(h) ==
    /\ At(h, "status", "view")
    /\ Reply(h, IF employees[sessions[Tok(h)].employee].exists THEN 200 ELSE 410)
    /\ UNCHANGED <<clock, employees, embeddings, sessions, enrolled>>

\* No route calls revoke_session; the service offers it.
RevokeLink(h) ==
    /\ At(h, "revoke", "revoke")
    /\ sessions' = [sessions EXCEPT ![Tok(h)].status = "revoked"]
    /\ Reply(h, 200)
    /\ UNCHANGED <<clock, employees, embeddings, enrolled>>

(***************************************************************************)
(* complete_session: the commit of the embedding has expired the loaded    *)
(* link, so its status is read again; its expiry time is not.              *)
(***************************************************************************)
Recheck(h) ==
    /\ At(h, "complete", "recheck")
    /\ IF sessions[Tok(h)].status = "pending" THEN Goto(h, "consume") ELSE Reply(h, 410)
    /\ UNCHANGED <<clock, employees, embeddings, sessions, enrolled>>

ConsumeLink(h) ==
    /\ At(h, "complete", "consume")
    /\ sessions' = [sessions EXCEPT ![Tok(h)].status = "completed"]
    /\ Reply(h, 200)
    /\ UNCHANGED <<clock, employees, embeddings, enrolled>>

(***************************************************************************)
(* Failures.  A statement or a commit that fails rolls back what the       *)
(* request has not committed; an open circuit breaker refuses the commit   *)
(* of an embedding; a killed process answers nothing.  A blank name is     *)
(* refused before a create looks anything up, and after an update has.     *)
(***************************************************************************)
BlankName(h) ==
    /\ At(h, "create", "lookup") \/ At(h, "update", "write")
    /\ Reply(h, 400)
    /\ UNCHANGED <<clock, employees, embeddings, sessions, enrolled>>

\* Defect: a completion that fails opens its link again.
FailReopening(h) ==
    /\ Faulty
    /\ requests[h].at # "idle"
    /\ sessions' = IF requests[h].at \in {"recheck", "consume"}
                   THEN [sessions EXCEPT ![Tok(h)].status = "pending"]
                   ELSE sessions
    /\ Reply(h, 500)
    /\ UNCHANGED <<clock, employees, embeddings, enrolled>>

Fail(h) ==
    /\ Faulty
    /\ requests[h].at # "idle"
    /\ \/ Reply(h, 500)
       \/ requests[h].at \in {"insertEmbedding", "replaceEmbedding"} /\ Reply(h, 503)
    /\ UNCHANGED <<clock, employees, embeddings, sessions, enrolled>>

Crash(h) ==
    /\ Faulty
    /\ requests[h].at # "idle"
    /\ requests' = [requests EXCEPT ![h] = NoRequest]
    /\ reply' = NoReply
    /\ UNCHANGED <<clock, employees, embeddings, sessions, enrolled>>

Tick ==
    /\ clock < MaxTime
    /\ clock' = clock + 1
    /\ reply' = NoReply
    /\ UNCHANGED <<employees, embeddings, sessions, requests, enrolled>>

EmployeeStep(h) ==
    \/ CheckDuplicate(h) \/ InsertEmployee(h) \/ FindActive(h) \/ UpdateRow(h)
    \/ LoadRow(h) \/ Deactivate(h) \/ Reactivate(h)
    \/ FindEmbedding(h) \/ DropEmbedding(h)

EnrollStep(h) ==
    Capture(h) \/ ChooseWrite(h) \/ InsertEmbedding(h) \/ ReplaceEmbedding(h)

LinkStep(h) ==
    \/ IssueLink(h) \/ LoadSession(h) \/ ExpireLink(h) \/ ViewLink(h)
    \/ RevokeLink(h) \/ Recheck(h) \/ ConsumeLink(h)

Handle(h) == EmployeeStep(h) \/ EnrollStep(h) \/ LinkStep(h)

Next ==
    \/ Tick
    \/ \E h \in Handlers :
         Receive(h) \/ Handle(h) \/ BlankName(h) \/ Fail(h) \/ Crash(h)

Spec == Init /\ [][Next]_vars

(***************************************************************************)
(* Properties                                                              *)
(***************************************************************************)
Labels == {"idle", "lookup", "insert", "write", "findEmbedding", "dropEmbedding",
           "capture", "store", "insertEmbedding", "replaceEmbedding", "issue",
           "session", "expire", "view", "revoke", "recheck", "consume"}

Request == [op : AllOps \cup {"none"}, at : Labels,
            employee : Employees \cup {"none"},
            token : Tokens \cup {"none"}, loaded : Row, holds : BOOLEAN]

\* Every table, every request and the last response keep their type.
TypeOK ==
    /\ clock \in 0..MaxTime
    /\ employees \in [Employees -> Row]
    /\ embeddings \in [Employees -> Sources \cup {"none"}]
    /\ sessions \in [Tokens -> Session]
    /\ requests \in [Handlers -> Request]
    /\ reply \in [op : AllOps \cup {"none"}, code : Nat,
                  employee : Employees \cup {"none"}, token : Tokens \cup {"none"}]
    /\ enrolled \subseteq Tokens

\* A face captured through a link is stored under the employee the link was
\* issued for, whatever other handlers did between the page load, the capture
\* and the upsert.
LinkFaceIsItsEmployees ==
    \A e \in Employees : embeddings[e] \in Tokens =>
        sessions[embeddings[e]].employee = e

\* The two commits of a completion are in the safe order: a link is marked
\* completed only after a face captured through it was stored, also when
\* commits fail and processes die in between.
CompletedMeansEnrolled ==
    \A t \in Tokens : sessions[t].status = "completed" => t \in enrolled

\* Only a link whose time is over is ever marked expired.
ExpiredMeansOverdue ==
    \A t \in Tokens : sessions[t].status = "expired" => Expired(t)

\* A link that was completed, expired or revoked never becomes pending again,
\* although its status is written by requests that loaded it earlier.
SettledStaysSettled ==
    [][\A t \in Tokens : sessions[t].status \in Settled
         => sessions'[t].status \in Settled]_vars

\* The completions of link t that were admitted.
Completing(t) == {h \in Handlers : /\ requests[h].op = "complete"
                                   /\ requests[h].token = t
                                   /\ requests[h].at \notin {"session", "expire"}}

\* Once a link is settled or its time is over no further capture is admitted
\* through it; the ones in progress can only end.
ClosedLinkAdmitsNobody ==
    [][\A t \in Tokens :
         sessions[t].status \in Settled \/ (sessions[t].status = "pending" /\ Expired(t))
         => Completing(t)' \subseteq Completing(t)]_vars

(***************************************************************************)
(* What the interface promises of a request that runs alone.               *)
(***************************************************************************)
Quiet == \A h \in Handlers : requests[h].at = "idle"

\* When nothing is in progress, an inactive employee has no stored face:
\* deleting an employee has revoked it.
InactiveHasNoFace ==
    Quiet => \A e \in Employees : embeddings[e] # "none" => employees[e].active
=============================================================================
