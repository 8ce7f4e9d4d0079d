------------------------- MODULE EnrollmentPromise --------------------------
(***************************************************************************)
(* What the administration interface promises: each request takes effect   *)
(* at one instant, or not at all.  Deleting an employee revokes the face   *)
(* in the same instant, and completing a link stores the face and uses the *)
(* link up in the same instant.                                            *)
(*                                                                         *)
(* Enrollment, whose requests commit in two steps, keeps this promise when *)
(* one request runs at a time and no commit fails.                         *)
(***************************************************************************)
EXTENDS Integers

CONSTANTS Employees, Tokens, SessionTTL, MaxTime

VARIABLES
    clock,
    staff,      \* per employee: "absent", "active" or "deleted"
    faces,      \* per employee: source of the enrolled face, or "none"
    links       \* per link: status, employee and expiry time

promiseVars == <<clock, staff, faces, links>>

NoLink == [status |-> "none", employee |-> "none", expiresAt |-> 0]

PromiseInit ==
    /\ clock = 0
    /\ staff = [e \in Employees |-> "absent"]
    /\ faces = [e \in Employees |-> "none"]
    /\ links = [t \in Tokens |-> NoLink]

Overdue(t) == links[t].expiresAt <= clock

Hire(e) ==
    /\ staff[e] = "absent"
    /\ staff' = [staff EXCEPT ![e] = "active"]
    /\ UNCHANGED <<clock, faces, links>>

Dismiss(e) ==
    /\ staff[e] # "absent"
    /\ staff' = [staff EXCEPT ![e] = "deleted"]
    /\ faces' = [faces EXCEPT ![e] = "none"]
    /\ UNCHANGED <<clock, links>>

\* A restored employee has no face until one is enrolled again.
Rehire(e) ==
    /\ staff[e] = "deleted"
    /\ staff' = [staff EXCEPT ![e] = "active"]
    /\ UNCHANGED <<clock, faces, links>>

Enroll(e, source) ==
    /\ staff[e] = "active"
    /\ faces' = [faces EXCEPT ![e] = source]
    /\ UNCHANGED <<clock, staff, links>>

Issue(t, e) ==
    /\ links[t].status = "none"
    /\ staff[e] = "active"
    /\ links' = [links EXCEPT ![t] =
         [status |-> "pending", employee |-> e, expiresAt |-> clock + SessionTTL]]
    /\ UNCHANGED <<clock, staff, faces>>

\* A capture that began in time may finish late, as long as nobody looked at
\* the link in between.
Complete(t) ==
    /\ links[t].status = "pending"
    /\ staff[links[t].employee] = "active"
    /\ links' = [links EXCEPT ![t].status = "completed"]
    /\ faces' = [faces EXCEPT ![links[t].employee] = t]
    /\ UNCHANGED <<clock, staff>>

Settle(t) ==
    /\ links[t].status = "pending"
    /\ \/ Overdue(t) /\ links' = [links EXCEPT ![t].status = "expired"]
       \/ links' = [links EXCEPT ![t].status = "revoked"]
    /\ UNCHANGED <<clock, staff, faces>>

TimePasses ==
    /\ clock < MaxTime
    /\ clock' = clock + 1
    /\ UNCHANGED <<staff, faces, links>>

PromiseNext ==
    \/ TimePasses
    \/ \E e \in Employees :
         Hire(e) \/ Dismiss(e) \/ Rehire(e) \/ \E s \in {"enroll", "samples"} : Enroll(e, s)
    \/ \E t \in Tokens :
         Complete(t) \/ Settle(t) \/ \E e \in Employees : Issue(t, e)

PromiseSpec == PromiseInit /\ [][PromiseNext]_promiseVars
=============================================================================
