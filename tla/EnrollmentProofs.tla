-------------------------- MODULE EnrollmentProofs --------------------------
(***************************************************************************)
(* Proofs about Enrollment: its safety for any number of concurrent        *)
(* handlers, employees and links, with failing commits and dying           *)
(* processes; and, without failures, that it implements EnrollmentPromise  *)
(* as long as no two requests in progress work on one employee or link.    *)
(***************************************************************************)
EXTENDS EnrollmentRefinement, TLAPS

(***************************************************************************)
(* The inductive invariant.                                                *)
(***************************************************************************)

\* The statements each kind of request goes through.
Embedding == {"capture", "store", "insertEmbedding", "replaceEmbedding"}

Statement(op, at) ==
    \/ op = "none" /\ at = "idle"
    \/ op \in EmployeeOps \cup {"complete"} /\ at = "lookup"
    \/ op = "create" /\ at = "insert"
    \/ op \in {"update", "delete", "restore"} /\ at = "write"
    \/ op = "delete" /\ at \in {"findEmbedding", "dropEmbedding"}
    \/ op \in {"enroll", "samples", "complete"} /\ at \in Embedding
    \/ op = "issue" /\ at = "issue"
    \/ op \in LinkOps /\ at \in {"session", "expire"}
    \/ op = "status" /\ at = "view"
    \/ op = "revoke" /\ at = "revoke"
    \/ op = "complete" /\ at \in {"recheck", "consume"}

\* A request is at one of its own statements and names what it works on.  An
\* issue request holds a token nobody has stored; a link past its lookup was
\* issued, a completion works on the link's own employee, and it reaches its
\* second commit only after the first.
RequestOK(h) ==
    /\ Statement(requests[h].op, requests[h].at)
    /\ requests[h].op \in EmployeeOps => Emp(h) \in Employees
    /\ requests[h].op \in LinkOps \cup {"issue"} => Tok(h) \in Tokens
    /\ requests[h].op = "issue" => sessions[Tok(h)].status = "none"
    /\ requests[h].op \in LinkOps /\ requests[h].at # "session"
         => sessions[Tok(h)].status # "none"
    /\ requests[h].op = "complete" /\ requests[h].at \notin {"session", "expire"}
         => Emp(h) = sessions[Tok(h)].employee
    /\ requests[h].at \in {"recheck", "consume"} => Tok(h) \in enrolled
    /\ requests[h].at = "expire" => Expired(Tok(h))

RequestInv == \A h \in Handlers : RequestOK(h)

\* No two issue requests hold the same token.
IssueInv ==
    \A g, h \in Handlers :
        requests[g].op = "issue" /\ requests[h].op = "issue" /\ Tok(g) = Tok(h) => g = h

\* An issued link names an employee; a face that came through a link came
\* through an issued one.
TableInv ==
    /\ \A t \in Tokens : sessions[t].status # "none" => sessions[t].employee \in Employees
    /\ \A e \in Employees : embeddings[e] \in Tokens
         => sessions[embeddings[e]].status # "none"
    /\ LinkFaceIsItsEmployees
    /\ CompletedMeansEnrolled
    /\ ExpiredMeansOverdue

EnrollmentInv == TypeOK /\ RequestInv /\ IssueInv /\ TableInv

(***************************************************************************)
(* The two ways a handler moves: to its next statement, or to its answer.  *)
(***************************************************************************)
LEMMA RecordTypes ==
    /\ NoRow \in Row
    /\ NoRequest \in Request
    /\ NoReply \in [op : AllOps \cup {"none"}, code : Nat,
                    employee : Employees \cup {"none"}, token : Tokens \cup {"none"}]
    /\ NoSession \in Session
BY DEF NoRow, Row, NoRequest, Request, NoReply, NoSession, Session, Labels, AllOps

MovedTo(h, l) ==
    /\ requests'[h].op = requests[h].op
    /\ requests'[h].at = l
    /\ requests'[h].employee = Emp(h)
    /\ requests'[h].token = Tok(h)

LEMMA MoveMoves ==
    ASSUME TypeOK, NEW h \in Handlers, NEW l \in Labels, NEW b \in BOOLEAN,
           Move(h, l, b)
    PROVE  /\ requests' \in [Handlers -> Request]
           /\ reply' = NoReply
           /\ MovedTo(h, l)
           /\ \A g \in Handlers \ {h} : requests'[g] = requests[g]
<1>1. /\ requests \in [Handlers -> Request]
      /\ requests' = [requests EXCEPT ![h].at = l, ![h].holds = b]
      /\ reply' = NoReply
  BY DEF TypeOK, Move
<1>2. requests[h] \in Request
  BY <1>1
<1> DEFINE row == [requests[h] EXCEPT !.at = l, !.holds = b]
<1>3. /\ row \in Request
      /\ row.op = requests[h].op /\ row.at = l
      /\ row.employee = requests[h].employee /\ row.token = requests[h].token
  BY <1>2 DEF Request
<1>4. requests' = [requests EXCEPT ![h] = row]
  BY <1>1, <1>2 DEF Request
<1>5. /\ requests' \in [Handlers -> Request]
      /\ requests'[h] = row
      /\ \A g \in Handlers \ {h} : requests'[g] = requests[g]
  <2> HIDE DEF row
  <2>1. QED
    BY <1>1, <1>3, <1>4
<1>6. QED
  BY <1>1, <1>3, <1>5 DEF MovedTo, Emp, Tok

LEMMA GotoMoves ==
    ASSUME TypeOK, NEW h \in Handlers, NEW l \in Labels, Goto(h, l)
    PROVE  /\ requests' \in [Handlers -> Request]
           /\ reply' = NoReply
           /\ MovedTo(h, l)
           /\ \A g \in Handlers \ {h} : requests'[g] = requests[g]
<1>1. Move(h, l, FALSE)
  BY DEF Goto
<1>2. FALSE \in BOOLEAN
  OBVIOUS
<1>3. QED
  BY <1>1, <1>2, MoveMoves

LEMMA ReplyMoves ==
    ASSUME TypeOK, NEW h \in Handlers, NEW code \in Nat, Reply(h, code)
    PROVE  /\ requests' \in [Handlers -> Request]
           /\ reply' \in [op : AllOps \cup {"none"}, code : Nat,
                          employee : Employees \cup {"none"},
                          token : Tokens \cup {"none"}]
           /\ \A g \in Handlers : requests'[g] = IF g = h THEN NoRequest ELSE requests[g]
BY RecordTypes DEF TypeOK, Reply, Response, Request, Emp, Tok

LEMMA EnrollmentInvInit == Init => EnrollmentInv
<1> SUFFICES ASSUME Init PROVE EnrollmentInv
  OBVIOUS
<1>1. TypeOK
  BY RecordTypes, ClockAssumption DEF Init, TypeOK
<1>2. RequestInv /\ IssueInv
  BY DEF Init, RequestInv, RequestOK, IssueInv, NoRequest, Statement, EmployeeOps, LinkOps
<1>3. TableInv
  BY TokensAssumption
     DEF Init, TableInv, LinkFaceIsItsEmployees, CompletedMeansEnrolled,
         ExpiredMeansOverdue, NoSession
<1>4. QED
  BY <1>1, <1>2, <1>3 DEF EnrollmentInv

(***************************************************************************)
(* Other handlers do not disturb a request: what it relies on in the       *)
(* tables only grows.  A link keeps its employee and its time once issued, *)
(* and only the request that holds a token stores it.                      *)
(***************************************************************************)
LinksKept(h) ==
    /\ \A t \in Tokens :
         IF sessions[t].status # "none"
         THEN /\ sessions'[t].status # "none"
              /\ sessions'[t].employee = sessions[t].employee
              /\ sessions'[t].expiresAt = sessions[t].expiresAt
         ELSE sessions'[t] = sessions[t] \/ (requests[h].op = "issue" /\ Tok(h) = t)
    /\ enrolled \subseteq enrolled'
    /\ clock <= clock'

\* What a request does and on what; the embedding row it holds may be deleted
\* by another.
SameWork(g) ==
    /\ requests'[g].op = requests[g].op
    /\ requests'[g].at = requests[g].at
    /\ requests'[g].employee = requests[g].employee
    /\ requests'[g].token = requests[g].token

OthersWait(h) == \A g \in Handlers \ {h} : SameWork(g)

LEMMA OthersKept ==
    ASSUME EnrollmentInv, TypeOK', NEW h \in Handlers, LinksKept(h), OthersWait(h),
           NEW g \in Handlers \ {h}
    PROVE  RequestOK(g)'
<1>1. SameWork(g) /\ RequestOK(g)
  BY DEF OthersWait, SameWork, EnrollmentInv, RequestInv
<1>2. requests[g].op \in LinkOps \cup {"issue"} => Tok(g) \in Tokens
  BY <1>1 DEF RequestOK
<1>3. requests[g].op = "issue" => sessions'[Tok(g)].status = "none"
  BY <1>1, <1>2 DEF RequestOK, LinksKept, EnrollmentInv, IssueInv
<1>4. requests[g].at = "expire" => requests[g].op \in LinkOps
  BY <1>1 DEF RequestOK, Statement, LinkOps, Embedding
<1>5. requests[g].at = "expire" => Expired(Tok(g))'
  <2> SUFFICES ASSUME requests[g].at = "expire"
               PROVE  Expired(Tok(g))'
    OBVIOUS
  <2>1. /\ Tok(g) \in Tokens
        /\ sessions[Tok(g)].status # "none"
        /\ sessions[Tok(g)].expiresAt <= clock
    BY <1>1, <1>4 DEF RequestOK, Expired
  <2>2. sessions'[Tok(g)].expiresAt = sessions[Tok(g)].expiresAt /\ clock <= clock'
    BY <2>1 DEF LinksKept
  <2>3. clock \in Nat /\ clock' \in Nat /\ sessions[Tok(g)].expiresAt \in Nat
    BY <2>1, ClockAssumption DEF EnrollmentInv, TypeOK, Session
  <2>4. QED
    BY <1>1, <2>1, <2>2, <2>3 DEF Expired, Tok, SameWork
<1>6. QED
  BY <1>1, <1>2, <1>3, <1>5 DEF SameWork, RequestOK, LinksKept, Emp, Tok, LinkOps

LEMMA IdleRequestOK ==
    ASSUME NEW h \in Handlers, requests'[h] = NoRequest
    PROVE  RequestOK(h)'
BY DEF RequestOK, NoRequest, Statement, EmployeeOps, LinkOps

(***************************************************************************)
(* A step of handler h: it is enough to look at h itself and at the tables.*)
(***************************************************************************)
LEMMA HandlerStep ==
    ASSUME EnrollmentInv, TypeOK', NEW h \in Handlers, LinksKept(h), OthersWait(h),
           RequestOK(h)',
           requests'[h].op = "issue" =>
               \A g \in Handlers \ {h} : ~(requests[g].op = "issue"
                                           /\ Tok(g) = requests'[h].token)
    PROVE  RequestInv' /\ IssueInv'
<1>1. RequestInv'
  BY OthersKept DEF RequestInv
<1>2. IssueInv'
  BY DEF IssueInv, OthersWait, SameWork, EnrollmentInv, Tok
<1>3. QED
  BY <1>1, <1>2

(***************************************************************************)
(* Steps that leave the tables alone.                                      *)
(***************************************************************************)
quiet == <<clock, employees, embeddings, sessions, enrolled>>

LEMMA QuietStep ==
    ASSUME EnrollmentInv, NEW h \in Handlers, UNCHANGED quiet, TypeOK',
           OthersWait(h), RequestOK(h)',
           requests'[h].op = "issue" =>
               \A g \in Handlers \ {h} : ~(requests[g].op = "issue"
                                           /\ Tok(g) = requests'[h].token)
    PROVE  EnrollmentInv'
<1>1. LinksKept(h)
  BY ClockAssumption DEF quiet, LinksKept, EnrollmentInv, TypeOK
<1>2. TableInv'
  BY DEF quiet, EnrollmentInv, TableInv, LinkFaceIsItsEmployees, CompletedMeansEnrolled,
         ExpiredMeansOverdue, Expired
<1>3. QED
  BY <1>1, <1>2, HandlerStep DEF EnrollmentInv

LEMMA QuietReply ==
    ASSUME EnrollmentInv, NEW h \in Handlers, NEW code \in Nat, Reply(h, code),
           UNCHANGED quiet
    PROVE  EnrollmentInv'
<1>1. TypeOK' /\ OthersWait(h) /\ requests'[h] = NoRequest
  BY ReplyMoves DEF EnrollmentInv, TypeOK, quiet, OthersWait, SameWork
<1>2. requests'[h].op # "issue"
  BY <1>1 DEF NoRequest
<1>3. QED
  BY <1>1, <1>2, IdleRequestOK, QuietStep

LEMMA QuietMove ==
    ASSUME EnrollmentInv, NEW h \in Handlers, NEW l \in Labels,
           NEW b \in BOOLEAN, Move(h, l, b),
           UNCHANGED quiet,
           Statement(requests[h].op, l),
           l # "session",
           requests[h].op \in LinkOps => sessions[Tok(h)].status # "none",
           requests[h].op = "complete" /\ l # "expire"
             => Emp(h) = sessions[Tok(h)].employee,
           l \in {"recheck", "consume"} => Tok(h) \in enrolled,
           l = "expire" => Expired(Tok(h))
    PROVE  EnrollmentInv'
<1>1. TypeOK' /\ OthersWait(h)
  <2>1. TypeOK
    BY DEF EnrollmentInv
  <2>2. requests' \in [Handlers -> Request] /\ reply' = NoReply /\ OthersWait(h)
    BY <2>1, MoveMoves DEF OthersWait, SameWork
  <2>3. QED
    BY <2>1, <2>2, RecordTypes DEF TypeOK, quiet
<1>2. MovedTo(h, l)
  BY MoveMoves DEF EnrollmentInv
<1>3. RequestOK(h)'
  <2>1. RequestOK(h)
    BY DEF EnrollmentInv, RequestInv
  <2>2. /\ Emp(h)' = Emp(h)
        /\ Tok(h)' = Tok(h)
        /\ Expired(Tok(h))' = Expired(Tok(h))
    BY <1>2 DEF MovedTo, Emp, Tok, Expired, quiet
  <2>3. sessions' = sessions /\ enrolled' = enrolled
    BY DEF quiet
  <2>4. QED
    BY <1>2, <2>1, <2>2, <2>3 DEF MovedTo, RequestOK, LinkOps
<1>4. requests'[h].op = "issue" =>
        \A g \in Handlers \ {h} : ~(requests[g].op = "issue"
                                    /\ Tok(g) = requests'[h].token)
  BY <1>2 DEF MovedTo, EnrollmentInv, IssueInv
<1>5. QED
  BY <1>1, <1>3, <1>4, QuietStep

LEMMA QuietGoto ==
    ASSUME EnrollmentInv, NEW h \in Handlers, NEW l \in Labels, Goto(h, l),
           UNCHANGED quiet,
           Statement(requests[h].op, l),
           l # "session",
           requests[h].op \in LinkOps => sessions[Tok(h)].status # "none",
           requests[h].op = "complete" /\ l # "expire"
             => Emp(h) = sessions[Tok(h)].employee,
           l \in {"recheck", "consume"} => Tok(h) \in enrolled,
           l = "expire" => Expired(Tok(h))
    PROVE  EnrollmentInv'
<1>1. Move(h, l, FALSE) /\ FALSE \in BOOLEAN
  BY DEF Goto
<1>2. QED
  BY <1>1, QuietMove

\* A request past the look at its link goes on to a statement of its own, and to
\* the second commit of a completion only from the check before it.
Follows(h, l) ==
    /\ l \notin {"session", "expire"}
    /\ Statement(requests[h].op, l)
    /\ requests[h].at \notin {"session", "expire"}
    /\ l \in {"recheck", "consume"} => requests[h].at = "recheck"

\* The statements that only read, or whose write nothing here depends on.
LEMMA ReadSteps ==
    ASSUME EnrollmentInv, NEW h \in Handlers,
           \/ CheckDuplicate(h) \/ FindActive(h) \/ UpdateRow(h) \/ FindEmbedding(h)
           \/ Capture(h) \/ ChooseWrite(h) \/ ViewLink(h) \/ Recheck(h)
           \/ BlankName(h) \/ Fail(h)
    PROVE  EnrollmentInv'
<1>1. UNCHANGED quiet
  BY DEF quiet, CheckDuplicate, FindActive, UpdateRow, FindEmbedding, Capture,
         ChooseWrite, ViewLink, Recheck, BlankName, Fail
<1>2. /\ RequestOK(h)
      /\ requests[h] \in Request
  BY DEF EnrollmentInv, RequestInv, TypeOK
<1>3. CASE \E code \in Nat : Reply(h, code)
  BY <1>1, <1>3, QuietReply
<1>4. ASSUME ~ \E code \in Nat : Reply(h, code)
      PROVE  \/ \E l \in Labels : Goto(h, l) /\ Follows(h, l)
             \/ \E l \in Labels : Move(h, l, TRUE) /\ Follows(h, l)
  <2>1. CASE CheckDuplicate(h)
    <3>1. \E l \in Labels : Goto(h, l) /\ Follows(h, l)
      BY <1>4, <2>1 DEF CheckDuplicate, Follows, At, Labels, Statement
    <3>2. QED
      BY <3>1
  <2>2. CASE FindActive(h)
    <3>1. \E l \in Labels : Goto(h, l) /\ Follows(h, l)
      BY <1>4, <2>2 DEF FindActive, Follows, AfterLookup, Labels, Statement, Embedding
    <3>2. QED
      BY <3>1
  <2>3. CASE Capture(h)
    <3>1. \E l \in Labels : Goto(h, l) /\ Follows(h, l)
      BY <1>2, <1>4, <2>3 DEF Capture, Follows, RequestOK, Labels, Statement, Embedding
    <3>2. QED
      BY <3>1
  <2>4. CASE Recheck(h)
    <3>1. \E l \in Labels : Goto(h, l) /\ Follows(h, l)
      BY <1>4, <2>4 DEF Recheck, Follows, At, Labels, Statement
    <3>2. QED
      BY <3>1
  <2>5. CASE FindEmbedding(h)
    BY <1>4, <2>5 DEF FindEmbedding, Follows, At, Labels, Statement
  <2>6. CASE ChooseWrite(h)
    BY <1>2, <1>4, <2>6 DEF ChooseWrite, Follows, RequestOK, Labels, Statement, Embedding
  <2>7. CASE UpdateRow(h) \/ ViewLink(h) \/ BlankName(h) \/ Fail(h)
    BY <1>4, <2>7 DEF UpdateRow, ViewLink, BlankName, Fail
  <2>8. QED
    BY <2>1, <2>2, <2>3, <2>4, <2>5, <2>6, <2>7
<1>5. ASSUME NEW l \in Labels, Goto(h, l) \/ Move(h, l, TRUE), Follows(h, l)
      PROVE  EnrollmentInv'
  <2>1. CASE Goto(h, l)
    BY <1>1, <1>2, <1>5, <2>1, QuietGoto DEF Follows, RequestOK
  <2>2. CASE Move(h, l, TRUE)
    <3>1. TRUE \in BOOLEAN
      OBVIOUS
    <3>2. QED
      BY <1>1, <1>2, <1>5, <2>2, <3>1, QuietMove DEF Follows, RequestOK
  <2>3. QED
    BY <1>5, <2>1, <2>2
<1>6. QED
  BY <1>3, <1>4, <1>5

LEMMA CrashStep ==
    ASSUME EnrollmentInv, NEW h \in Handlers, Crash(h)
    PROVE  EnrollmentInv'
<1>1. TypeOK' /\ OthersWait(h) /\ requests'[h] = NoRequest
  BY RecordTypes DEF EnrollmentInv, TypeOK, Crash, OthersWait, SameWork
<1>2. requests'[h].op # "issue"
  BY <1>1 DEF NoRequest
<1>3. UNCHANGED quiet
  BY DEF Crash, quiet
<1>4. QED
  BY <1>1, <1>2, <1>3, IdleRequestOK, QuietStep

LEMMA LoadRowStep ==
    ASSUME EnrollmentInv, NEW h \in Handlers, LoadRow(h)
    PROVE  EnrollmentInv'
<1>1. UNCHANGED quiet
  BY DEF LoadRow, quiet
<1>2. CASE ~employees[Emp(h)].exists
  BY <1>1, <1>2, QuietReply DEF LoadRow
<1>3. CASE employees[Emp(h)].exists
  <2>1. TypeOK /\ RequestOK(h)
    BY DEF EnrollmentInv, RequestInv
  <2>2. /\ requests[h].op \in {"delete", "restore"}
        /\ requests' = [requests EXCEPT ![h].at = "write",
                                        ![h].loaded = employees[Emp(h)]]
        /\ reply' = NoReply
    BY <1>3 DEF LoadRow
  <2>3. Emp(h) \in Employees
    BY <2>1, <2>2 DEF RequestOK, EmployeeOps
  <2>4. /\ requests' \in [Handlers -> Request]
        /\ OthersWait(h)
        /\ requests'[h].op = requests[h].op
        /\ requests'[h].at = "write"
        /\ requests'[h].employee = Emp(h)
    <3>1. requests[h] \in Request /\ employees[Emp(h)] \in Row
      BY <2>1, <2>3 DEF TypeOK
    <3> DEFINE row == [requests[h] EXCEPT !.at = "write", !.loaded = employees[Emp(h)]]
    <3>2. /\ row \in Request
          /\ row.op = requests[h].op /\ row.at = "write"
          /\ row.employee = Emp(h)
      BY <3>1 DEF Request, Labels, Emp
    <3>3. requests' = [requests EXCEPT ![h] = row]
      BY <2>1, <2>2, <3>1 DEF TypeOK, Request
    <3>4. /\ requests' \in [Handlers -> Request]
          /\ requests'[h] = row
          /\ OthersWait(h)
      <4> HIDE DEF row
      <4>1. QED
        BY <2>1, <3>2, <3>3 DEF TypeOK, OthersWait, SameWork
    <3>5. QED
      BY <3>2, <3>4
  <2>5. TypeOK'
    BY <1>1, <2>1, <2>2, <2>4, RecordTypes DEF TypeOK, quiet
  <2>6. RequestOK(h)'
    BY <2>2, <2>3, <2>4 DEF RequestOK, Statement, Emp, LinkOps
  <2>7. QED
    BY <1>1, <2>2, <2>4, <2>5, <2>6, QuietStep
<1>4. QED
  BY <1>2, <1>3

LEMMA ReceiveStep ==
    ASSUME EnrollmentInv, NEW h \in Handlers, Receive(h)
    PROVE  EnrollmentInv'
<1>1. UNCHANGED quiet /\ reply' = NoReply /\ TypeOK
  BY DEF Receive, quiet, EnrollmentInv
<1>2. SUFFICES ASSUME NEW r \in Request,
                      requests' = [requests EXCEPT ![h] = r],
                      Statement(r.op, r.at),
                      r.at \in {"lookup", "session"},
                      r.op \in EmployeeOps => r.at = "lookup" /\ r.employee \in Employees,
                      r.op \in LinkOps => r.at = "session",
                      r.op \in LinkOps \cup {"issue"} => r.token \in Tokens,
                      r.op = "issue" => Free(r.token)
               PROVE  EnrollmentInv'
  <2>1. CASE \E op \in Ops \cap (EmployeeOps \ {"issue"}), e \in Employees :
               requests' = [requests EXCEPT ![h] =
                   [NoRequest EXCEPT !.op = op, !.at = "lookup", !.employee = e]]
    <3>1. PICK op \in Ops \cap (EmployeeOps \ {"issue"}), e \in Employees :
               requests' = [requests EXCEPT ![h] =
                   [NoRequest EXCEPT !.op = op, !.at = "lookup", !.employee = e]]
      BY <2>1
    <3> DEFINE r == [NoRequest EXCEPT !.op = op, !.at = "lookup", !.employee = e]
    <3>2. /\ r \in Request
          /\ r.op = op /\ r.at = "lookup" /\ r.employee = e
      BY <3>1, RecordTypes DEF NoRequest, Request, Labels, AllOps
    <3>3. Statement(r.op, r.at) /\ r.op \notin LinkOps \cup {"issue"}
      BY <3>2 DEF Statement, EmployeeOps, LinkOps
    <3>4. QED
      BY <1>2, <3>1, <3>2, <3>3
  <2>2. CASE \E e \in Employees, t \in Tokens :
               /\ "issue" \in Ops
               /\ Free(t)
               /\ requests' = [requests EXCEPT ![h] =
                    [NoRequest EXCEPT !.op = "issue", !.at = "lookup",
                                      !.employee = e, !.token = t]]
    <3>1. PICK e \in Employees, t \in Tokens :
               /\ Free(t)
               /\ requests' = [requests EXCEPT ![h] =
                    [NoRequest EXCEPT !.op = "issue", !.at = "lookup",
                                      !.employee = e, !.token = t]]
      BY <2>2
    <3> DEFINE r == [NoRequest EXCEPT !.op = "issue", !.at = "lookup",
                                      !.employee = e, !.token = t]
    <3>2. /\ r \in Request
          /\ r.op = "issue" /\ r.at = "lookup" /\ r.employee = e /\ r.token = t
      BY <3>1, RecordTypes DEF NoRequest, Request, Labels, AllOps, EmployeeOps
    <3>3. Statement(r.op, r.at) /\ r.op \notin LinkOps
      BY <3>2 DEF Statement, EmployeeOps, LinkOps
    <3>4. QED
      BY <1>2, <3>1, <3>2, <3>3
  <2>3. CASE \E op \in Ops \cap LinkOps, t \in Tokens :
               requests' = [requests EXCEPT ![h] =
                   [NoRequest EXCEPT !.op = op, !.at = "session", !.token = t]]
    <3>1. PICK op \in Ops \cap LinkOps, t \in Tokens :
               requests' = [requests EXCEPT ![h] =
                   [NoRequest EXCEPT !.op = op, !.at = "session", !.token = t]]
      BY <2>3
    <3> DEFINE r == [NoRequest EXCEPT !.op = op, !.at = "session", !.token = t]
    <3>2. /\ r \in Request
          /\ r.op = op /\ r.at = "session" /\ r.token = t
      BY <3>1, RecordTypes DEF NoRequest, Request, Labels, AllOps
    <3>3. Statement(r.op, r.at) /\ r.op \notin EmployeeOps
      BY <3>2 DEF Statement, EmployeeOps, LinkOps
    <3>4. QED
      BY <1>2, <3>1, <3>2, <3>3 DEF EmployeeOps
  <2>4. QED
    BY <2>1, <2>2, <2>3 DEF Receive
<1>3. requests'[h] = r /\ OthersWait(h) /\ requests' \in [Handlers -> Request]
  BY <1>1, <1>2 DEF TypeOK, OthersWait, SameWork
<1>4. TypeOK'
  BY <1>1, <1>3, RecordTypes DEF TypeOK, quiet
<1>5. RequestOK(h)'
  BY <1>1, <1>2, <1>3 DEF RequestOK, Emp, Tok, Free, quiet, EmployeeOps, LinkOps
<1>6. requests'[h].op = "issue" =>
        \A g \in Handlers \ {h} : ~(requests[g].op = "issue"
                                    /\ Tok(g) = requests'[h].token)
  BY <1>2, <1>3 DEF Free
<1>7. QED
  BY <1>1, <1>3, <1>4, <1>5, <1>6, QuietStep

LEMMA LoadSessionStep ==
    ASSUME EnrollmentInv, NEW h \in Handlers, LoadSession(h)
    PROVE  EnrollmentInv'
<1>1. /\ UNCHANGED quiet
      /\ TypeOK
      /\ RequestOK(h)
      /\ requests[h].at = "session"
  BY DEF LoadSession, quiet, EnrollmentInv, RequestInv
<1>2. /\ requests[h].op \in LinkOps
      /\ Tok(h) \in Tokens
  BY <1>1 DEF RequestOK, Statement, Embedding
<1>3. CASE \E code \in Nat : Reply(h, code)
  BY <1>1, <1>3, QuietReply
<1>4. CASE Goto(h, "expire") /\ sessions[Tok(h)].status = "pending" /\ Expired(Tok(h))
  <2>1. Statement(requests[h].op, "expire") /\ "expire" \in Labels
    BY <1>2 DEF Statement, Labels
  <2>2. QED
    BY <1>1, <1>4, <2>1, QuietGoto
<1>5. CASE /\ Goto(h, "view")
           /\ requests[h].op = "status"
           /\ sessions[Tok(h)].status \in Settled
  <2>1. Statement(requests[h].op, "view") /\ "view" \in Labels
    BY <1>5 DEF Statement, Labels
  <2>2. QED
    BY <1>1, <1>5, <2>1, QuietGoto DEF Settled
<1>6. CASE /\ sessions[Tok(h)].status = "pending"
           /\ requests' = [requests EXCEPT ![h].at = AfterSession[requests[h].op],
                                           ![h].employee = sessions[Tok(h)].employee]
           /\ reply' = NoReply
  <2>1. /\ requests[h] \in Request
        /\ sessions[Tok(h)] \in Session
        /\ sessions[Tok(h)].employee \in Employees
    BY <1>1, <1>2, <1>6 DEF TypeOK, EnrollmentInv, TableInv
  <2>2. /\ AfterSession[requests[h].op] \in Labels
        /\ Statement(requests[h].op, AfterSession[requests[h].op])
        /\ AfterSession[requests[h].op] \in {"view", "lookup", "revoke"}
    BY <1>2 DEF AfterSession, LinkOps, Labels, Statement, EmployeeOps
  <2> DEFINE row == [requests[h] EXCEPT !.at = AfterSession[requests[h].op],
                                        !.employee = sessions[Tok(h)].employee]
  <2>3. /\ row \in Request
        /\ row.op = requests[h].op /\ row.at = AfterSession[requests[h].op]
        /\ row.employee = sessions[Tok(h)].employee /\ row.token = Tok(h)
    BY <2>1, <2>2 DEF Request, Tok
  <2>4. requests' = [requests EXCEPT ![h] = row]
    BY <1>1, <1>6, <2>1 DEF TypeOK, Request
  <2>5. /\ requests' \in [Handlers -> Request]
        /\ requests'[h] = row
        /\ OthersWait(h)
    <3> HIDE DEF row
    <3>1. QED
      BY <1>1, <2>3, <2>4 DEF TypeOK, OthersWait, SameWork
  <2>6. TypeOK'
    BY <1>1, <1>6, <2>5, RecordTypes DEF TypeOK, quiet
  <2>7. requests'[h].op # "issue"
    BY <1>2, <2>3, <2>5 DEF LinkOps
  <2>8. RequestOK(h)'
    <3>1. Tok(h)' = Tok(h) /\ Emp(h)' = sessions[Tok(h)].employee
      BY <2>3, <2>5 DEF Tok, Emp
    <3>2. requests'[h].op = requests[h].op
          /\ requests'[h].at = AfterSession[requests[h].op]
      BY <2>3, <2>5
    <3>3. sessions' = sessions /\ enrolled' = enrolled
      BY <1>1 DEF quiet
    <3>4. QED
      BY <1>2, <1>6, <2>1, <2>2, <3>1, <3>2, <3>3
         DEF RequestOK, LinkOps, EmployeeOps
  <2>9. QED
    BY <1>1, <2>5, <2>6, <2>7, <2>8, QuietStep
<1>7. QED
  BY <1>3, <1>4, <1>5, <1>6 DEF LoadSession

(***************************************************************************)
(* Steps that write a table.                                               *)
(***************************************************************************)
LEMMA EmployeesStep ==
    ASSUME EnrollmentInv, NEW h \in Handlers,
           InsertEmployee(h) \/ Deactivate(h) \/ Reactivate(h)
    PROVE  EnrollmentInv'
<1>1. /\ UNCHANGED <<clock, embeddings, sessions, enrolled>>
      /\ TypeOK
      /\ RequestOK(h)
  BY DEF InsertEmployee, Deactivate, Reactivate, EnrollmentInv, RequestInv
<1>2. Emp(h) \in Employees
  BY <1>1 DEF RequestOK, InsertEmployee, Deactivate, Reactivate, At, EmployeeOps
<1>3. employees' \in [Employees -> Row]
  <2>1. /\ employees \in [Employees -> Row]
        /\ requests[h].loaded \in Row
    BY <1>1 DEF TypeOK, Request
  <2>2. CASE InsertEmployee(h)
    <3> DEFINE row == [exists |-> TRUE, active |-> TRUE, deleted |-> FALSE]
    <3>1. row \in Row
      BY DEF Row
    <3>2. \/ employees' = employees
          \/ employees' = [employees EXCEPT ![Emp(h)] = row]
      BY <2>2 DEF InsertEmployee
    <3>3. QED
      BY <2>1, <3>1, <3>2
  <2>3. CASE Deactivate(h)
    <3>1. employees[Emp(h)] \in Row
      BY <1>2, <2>1
    <3> DEFINE row == [employees[Emp(h)] EXCEPT
                         !.active = IF requests[h].loaded.active THEN FALSE ELSE @,
                         !.deleted = TRUE]
    <3>2. row \in Row
      BY <3>1 DEF Row
    <3>3. employees' = [employees EXCEPT ![Emp(h)] = row]
      BY <1>2, <2>1, <2>3, <3>1 DEF Deactivate, Row
    <3>4. QED
      BY <2>1, <3>2, <3>3
  <2>4. CASE Reactivate(h)
    <3>1. employees[Emp(h)] \in Row
      BY <1>2, <2>1
    <3> DEFINE row == [employees[Emp(h)] EXCEPT
                         !.active = IF requests[h].loaded.active THEN @ ELSE TRUE,
                         !.deleted = IF requests[h].loaded.deleted THEN FALSE ELSE @]
    <3>2. row \in Row
      BY <3>1 DEF Row
    <3>3. employees' = [employees EXCEPT ![Emp(h)] = row]
      BY <1>2, <2>1, <2>4, <3>1 DEF Reactivate, Row
    <3>4. QED
      BY <2>1, <3>2, <3>3
  <2>5. QED
    BY <2>2, <2>3, <2>4
<1>4. LinksKept(h)
  BY <1>1, ClockAssumption DEF LinksKept, TypeOK
<1>5. TableInv'
  BY <1>1 DEF EnrollmentInv, TableInv, LinkFaceIsItsEmployees, CompletedMeansEnrolled,
              ExpiredMeansOverdue, Expired
<1>6. CASE \E code \in Nat : Reply(h, code)
  <2>1. TypeOK' /\ OthersWait(h) /\ requests'[h] = NoRequest
    BY <1>1, <1>3, <1>6, ReplyMoves DEF TypeOK, OthersWait, SameWork
  <2>2. requests'[h].op # "issue"
    BY <2>1 DEF NoRequest
  <2>3. QED
    BY <1>4, <1>5, <2>1, <2>2, IdleRequestOK, HandlerStep DEF EnrollmentInv
<1>7. CASE Deactivate(h)
  <2>1. Goto(h, "findEmbedding") /\ requests[h].op = "delete"
        /\ "findEmbedding" \in Labels
    BY <1>7 DEF Deactivate, At, Labels
  <2>2. /\ requests' \in [Handlers -> Request]
        /\ reply' = NoReply
        /\ MovedTo(h, "findEmbedding")
        /\ OthersWait(h)
    BY <1>1, <2>1, GotoMoves DEF OthersWait, SameWork
  <2>3. TypeOK'
    BY <1>1, <1>3, <2>2, RecordTypes DEF TypeOK
  <2>4. RequestOK(h)'
    BY <1>2, <2>1, <2>2 DEF MovedTo, RequestOK, Statement, Emp, LinkOps
  <2>5. requests'[h].op # "issue"
    BY <2>1, <2>2 DEF MovedTo
  <2>6. QED
    BY <1>4, <1>5, <2>2, <2>3, <2>4, <2>5, HandlerStep DEF EnrollmentInv
<1>8. InsertEmployee(h) \/ Reactivate(h) => \E code \in Nat : Reply(h, code)
  <2>1. InsertEmployee(h) => Reply(h, 500) \/ Reply(h, 201)
    BY DEF InsertEmployee
  <2>2. Reactivate(h) => Reply(h, 200)
    BY DEF Reactivate
  <2>3. QED
    BY <2>1, <2>2
<1>9. QED
  BY <1>6, <1>7, <1>8

LEMMA DropEmbeddingStep ==
    ASSUME EnrollmentInv, NEW h \in Handlers, DropEmbedding(h)
    PROVE  EnrollmentInv'
<1>1. UNCHANGED <<clock, employees, sessions, enrolled>> /\ TypeOK
  BY DEF DropEmbedding, EnrollmentInv
<1>2. CASE ~requests[h].holds
  BY <1>1, <1>2, QuietReply DEF DropEmbedding, quiet
<1>3. CASE requests[h].holds
  <2>1. /\ embeddings' = [embeddings EXCEPT ![Emp(h)] = "none"]
        /\ requests' = [g \in Handlers |->
             IF g = h THEN NoRequest
             ELSE IF Emp(g) = Emp(h) THEN [requests[g] EXCEPT !.holds = FALSE]
             ELSE requests[g]]
        /\ reply' = Response(h, 200)
    BY <1>3 DEF DropEmbedding
  <2>2. /\ embeddings' \in [Employees -> Sources \cup {"none"}]
        /\ \A e \in Employees : embeddings'[e] \in {embeddings[e], "none"}
    BY <1>1, <2>1 DEF TypeOK
  <2>3. TableInv'
    BY <1>1, <2>2, TokensAssumption
       DEF EnrollmentInv, TableInv, LinkFaceIsItsEmployees, CompletedMeansEnrolled,
           ExpiredMeansOverdue, Expired
  <2>4. ASSUME NEW g \in Handlers
        PROVE  requests'[g] \in Request /\ (g # h => SameWork(g))
    <3>1. requests[g] \in Request
      BY <1>1 DEF TypeOK
    <3> DEFINE row == [requests[g] EXCEPT !.holds = FALSE]
    <3>2. /\ row \in Request
          /\ row.op = requests[g].op /\ row.at = requests[g].at
          /\ row.employee = requests[g].employee /\ row.token = requests[g].token
      BY <3>1 DEF Request
    <3>3. requests'[g] = IF g = h THEN NoRequest
                         ELSE IF Emp(g) = Emp(h) THEN row ELSE requests[g]
      BY <2>1
    <3>4. QED
      <4> HIDE DEF row
      <4>1. QED
        BY <3>1, <3>2, <3>3, RecordTypes DEF SameWork
  <2>5. requests'[h] = NoRequest /\ requests' \in [Handlers -> Request]
    BY <2>1, <2>4
  <2>6. reply' \in [op : AllOps \cup {"none"}, code : Nat,
                    employee : Employees \cup {"none"}, token : Tokens \cup {"none"}]
    <3>1. requests[h] \in Request
      BY <1>1 DEF TypeOK
    <3>2. QED
      BY <2>1, <3>1 DEF Response, Request, Emp, Tok
  <2>7. TypeOK' /\ OthersWait(h)
    BY <1>1, <2>2, <2>4, <2>5, <2>6 DEF TypeOK, OthersWait
  <2>8. LinksKept(h)
    BY <1>1, ClockAssumption DEF LinksKept, TypeOK
  <2>9. requests'[h].op # "issue"
    BY <2>5 DEF NoRequest
  <2>10. QED
    BY <2>3, <2>5, <2>7, <2>8, <2>9, IdleRequestOK, HandlerStep DEF EnrollmentInv
<1>4. QED
  BY <1>2, <1>3

\* The first commit of a completion, and the only one of the other enrollments.
LEMMA StoredStep ==
    ASSUME EnrollmentInv, NEW h \in Handlers, Stored(h),
           requests[h].at \in Embedding,
           UNCHANGED <<clock, employees, sessions>>
    PROVE  EnrollmentInv'
<1>1. TypeOK /\ RequestOK(h) /\ TableInv
  BY DEF EnrollmentInv, RequestInv
<1>2. /\ requests[h].op \in {"enroll", "samples", "complete"}
      /\ requests[h] \in Request
  BY <1>1 DEF RequestOK, Statement, Embedding, TypeOK
<1>3. LinksKept(h)
  BY <1>1, ClockAssumption DEF LinksKept, TypeOK, Stored
<1>4. CASE requests[h].op = "complete"
  <2>1. /\ embeddings' = [embeddings EXCEPT ![Emp(h)] = Tok(h)]
        /\ enrolled' = enrolled \cup {Tok(h)}
        /\ Goto(h, "recheck")
    BY <1>4 DEF Stored
  <2>2. /\ Tok(h) \in Tokens
        /\ sessions[Tok(h)].status # "none"
        /\ sessions[Tok(h)].employee = Emp(h)
    BY <1>1, <1>4 DEF RequestOK, LinkOps, Embedding
  <2>3. /\ embeddings' \in [Employees -> Sources \cup {"none"}]
        /\ \A e \in Employees :
             embeddings'[e] = IF e = Emp(h) THEN Tok(h) ELSE embeddings[e]
    BY <1>1, <2>1, <2>2 DEF TypeOK, Sources
  <2>4. TableInv'
    BY <1>1, <2>1, <2>2, <2>3
       DEF TableInv, LinkFaceIsItsEmployees, CompletedMeansEnrolled,
           ExpiredMeansOverdue, Expired
  <2>5. /\ requests' \in [Handlers -> Request]
        /\ reply' = NoReply
        /\ MovedTo(h, "recheck")
        /\ OthersWait(h)
    <3>1. "recheck" \in Labels
      BY DEF Labels
    <3>2. QED
      BY <1>1, <2>1, <3>1, GotoMoves DEF OthersWait, SameWork
  <2>6. TypeOK'
    BY <1>1, <2>1, <2>2, <2>3, <2>5, RecordTypes DEF TypeOK
  <2>7. RequestOK(h)'
    BY <1>4, <2>1, <2>2, <2>5
       DEF MovedTo, RequestOK, Statement, Emp, Tok, LinkOps, EmployeeOps
  <2>8. requests'[h].op # "issue"
    BY <1>4, <2>5 DEF MovedTo
  <2>9. QED
    BY <1>3, <2>4, <2>5, <2>6, <2>7, <2>8, HandlerStep DEF EnrollmentInv
<1>5. CASE requests[h].op \in {"enroll", "samples"}
  <2>1. /\ embeddings' = [embeddings EXCEPT ![Emp(h)] = requests[h].op]
        /\ enrolled' = enrolled
        /\ Reply(h, 200)
    BY <1>5 DEF Stored
  <2>2. /\ embeddings' \in [Employees -> Sources \cup {"none"}]
        /\ \A e \in Employees : embeddings'[e] \in {embeddings[e], requests[h].op}
    BY <1>1, <1>5, <2>1 DEF TypeOK, Sources
  <2>3. requests[h].op \notin Tokens
    BY <1>5, TokensAssumption
  <2>4. TableInv'
    BY <1>1, <2>1, <2>2, <2>3
       DEF TableInv, LinkFaceIsItsEmployees, CompletedMeansEnrolled,
           ExpiredMeansOverdue, Expired
  <2>5. TypeOK' /\ OthersWait(h) /\ requests'[h] = NoRequest
    BY <1>1, <2>1, <2>2, ReplyMoves DEF TypeOK, OthersWait, SameWork
  <2>6. requests'[h].op # "issue"
    BY <2>5 DEF NoRequest
  <2>7. QED
    BY <1>3, <2>4, <2>5, <2>6, IdleRequestOK, HandlerStep DEF EnrollmentInv
<1>6. QED
  BY <1>2, <1>4, <1>5

LEMMA EmbeddingStep ==
    ASSUME EnrollmentInv, NEW h \in Handlers, InsertEmbedding(h) \/ ReplaceEmbedding(h)
    PROVE  EnrollmentInv'
<1>1. CASE Stored(h)
  BY <1>1, StoredStep DEF InsertEmbedding, ReplaceEmbedding, Embedding
<1>2. CASE Reply(h, 500) /\ UNCHANGED <<embeddings, enrolled>>
  BY <1>2, QuietReply DEF InsertEmbedding, ReplaceEmbedding, quiet
<1>3. QED
  BY <1>1, <1>2 DEF InsertEmbedding, ReplaceEmbedding

\* Writing the status of an issued link.
LEMMA SettleKeepsTables ==
    ASSUME EnrollmentInv, NEW h \in Handlers, NEW t \in Tokens, NEW s \in Settled,
           sessions' = [sessions EXCEPT ![t].status = s],
           UNCHANGED <<clock, employees, embeddings, enrolled>>,
           sessions[t].status # "none",
           s = "completed" => t \in enrolled,
           s = "expired" => Expired(t)
    PROVE  TableInv' /\ LinksKept(h) /\ sessions' \in [Tokens -> Session]
<1>1. TypeOK /\ TableInv /\ sessions[t] \in Session
  BY DEF EnrollmentInv, TypeOK
<1>2. \A u \in Tokens :
        /\ sessions'[u].status = IF u = t THEN s ELSE sessions[u].status
        /\ sessions'[u].employee = sessions[u].employee
        /\ sessions'[u].expiresAt = sessions[u].expiresAt
        /\ u # t => sessions'[u] = sessions[u]
  BY <1>1 DEF TypeOK, Session
<1>3. s \notin {"none", "pending"}
  BY DEF Settled
<1>4. TableInv'
  <2>1. \A u \in Tokens : sessions'[u].status # "none"
                            => sessions'[u].employee \in Employees
    BY <1>1, <1>2 DEF TableInv
  <2>2. \A e \in Employees : embeddings'[e] \in Tokens
          => /\ sessions'[embeddings'[e]].status # "none"
             /\ sessions'[embeddings'[e]].employee = e
    BY <1>1, <1>2, <1>3 DEF TableInv, LinkFaceIsItsEmployees
  <2>3. CompletedMeansEnrolled' /\ ExpiredMeansOverdue'
    BY <1>1, <1>2 DEF TableInv, CompletedMeansEnrolled, ExpiredMeansOverdue, Expired
  <2>4. QED
    BY <2>1, <2>2, <2>3 DEF TableInv, LinkFaceIsItsEmployees
<1>5. LinksKept(h)
  BY <1>1, <1>2, <1>3, ClockAssumption DEF LinksKept, TypeOK
<1>6. sessions' \in [Tokens -> Session]
  BY <1>1 DEF TypeOK, Session, Settled
<1>7. QED
  BY <1>4, <1>5, <1>6

LEMMA SettleStep ==
    ASSUME EnrollmentInv, NEW h \in Handlers,
           ExpireLink(h) \/ RevokeLink(h) \/ ConsumeLink(h)
    PROVE  EnrollmentInv'
<1>1. TypeOK /\ RequestOK(h)
  BY DEF EnrollmentInv, RequestInv
<1>2. /\ requests[h].op \in LinkOps
      /\ requests[h].at \in {"expire", "revoke", "consume"}
  BY <1>1 DEF ExpireLink, RevokeLink, ConsumeLink, At, RequestOK, Statement, Embedding,
              LinkOps
<1>3. /\ Tok(h) \in Tokens
      /\ sessions[Tok(h)].status # "none"
  BY <1>1, <1>2 DEF RequestOK
<1>4. PICK s \in Settled :
        /\ sessions' = [sessions EXCEPT ![Tok(h)].status = s]
        /\ s = "completed" => Tok(h) \in enrolled
        /\ s = "expired" => Expired(Tok(h))
  BY <1>1 DEF ExpireLink, RevokeLink, ConsumeLink, At, RequestOK, Settled
<1>5. UNCHANGED <<clock, employees, embeddings, enrolled>>
  BY DEF ExpireLink, RevokeLink, ConsumeLink
<1>6. TableInv' /\ LinksKept(h) /\ sessions' \in [Tokens -> Session]
  BY <1>3, <1>4, <1>5, SettleKeepsTables
<1>7. CASE \E code \in Nat : Reply(h, code)
  <2>1. TypeOK' /\ OthersWait(h) /\ requests'[h] = NoRequest
    BY <1>1, <1>5, <1>6, <1>7, ReplyMoves DEF TypeOK, OthersWait, SameWork
  <2>2. requests'[h].op # "issue"
    BY <2>1 DEF NoRequest
  <2>3. QED
    BY <1>6, <2>1, <2>2, IdleRequestOK, HandlerStep DEF EnrollmentInv
<1>8. CASE requests[h].op = "status" /\ Goto(h, "view")
  <2>1. "view" \in Labels
    BY DEF Labels
  <2>2. /\ requests' \in [Handlers -> Request]
        /\ reply' = NoReply
        /\ MovedTo(h, "view")
        /\ OthersWait(h)
    BY <1>1, <1>8, <2>1, GotoMoves DEF OthersWait, SameWork
  <2>3. TypeOK'
    BY <1>1, <1>5, <1>6, <2>2, RecordTypes DEF TypeOK
  <2>4. RequestOK(h)'
    <3>1. sessions'[Tok(h)].status # "none"
      BY <1>3, <1>6 DEF LinksKept
    <3>2. requests'[h].op = "status" /\ requests'[h].at = "view" /\ Tok(h)' = Tok(h)
      BY <1>8, <2>2 DEF MovedTo, Tok
    <3>3. QED
      BY <1>3, <3>1, <3>2 DEF RequestOK, Statement, EmployeeOps
  <2>5. requests'[h].op # "issue"
    BY <1>8, <2>2 DEF MovedTo
  <2>6. QED
    BY <1>6, <2>2, <2>3, <2>4, <2>5, HandlerStep DEF EnrollmentInv
<1>9. \/ \E code \in Nat : Reply(h, code)
      \/ requests[h].op = "status" /\ Goto(h, "view")
  <2>1. \/ Reply(h, 410) \/ Reply(h, 200)
        \/ requests[h].op = "status" /\ Goto(h, "view")
    BY DEF ExpireLink, RevokeLink, ConsumeLink
  <2>2. QED
    BY <2>1
<1>10. QED
  BY <1>7, <1>8, <1>9

LEMMA IssueStep ==
    ASSUME EnrollmentInv, NEW h \in Handlers, IssueLink(h)
    PROVE  EnrollmentInv'
<1>1. /\ TypeOK /\ RequestOK(h) /\ TableInv
      /\ requests[h].op = "issue"
      /\ UNCHANGED <<clock, employees, embeddings, enrolled>>
      /\ Reply(h, 201)
  BY DEF EnrollmentInv, RequestInv, IssueLink, At
<1>2. /\ Tok(h) \in Tokens
      /\ Emp(h) \in Employees
      /\ sessions[Tok(h)].status = "none"
  BY <1>1 DEF RequestOK, EmployeeOps
<1> DEFINE link == [status |-> "pending", employee |-> Emp(h),
                    expiresAt |-> clock + SessionTTL]
<1>3. sessions' = [sessions EXCEPT ![Tok(h)] = link]
  BY DEF IssueLink
<1>4. link \in Session
  BY <1>1, <1>2, ClockAssumption DEF TypeOK, Session
<1>5. sessions' \in [Tokens -> Session]
  BY <1>1, <1>3, <1>4 DEF TypeOK
<1>6. \A t \in Tokens : sessions'[t] = IF t = Tok(h) THEN link ELSE sessions[t]
  BY <1>1, <1>3 DEF TypeOK
<1>7. LinksKept(h)
  BY <1>1, <1>2, <1>6, ClockAssumption DEF LinksKept, TypeOK
<1>8. TableInv'
  BY <1>1, <1>2, <1>6
     DEF TableInv, LinkFaceIsItsEmployees, CompletedMeansEnrolled, ExpiredMeansOverdue,
         Expired
<1>9. TypeOK' /\ OthersWait(h) /\ requests'[h] = NoRequest
  BY <1>1, <1>5, ReplyMoves DEF TypeOK, OthersWait, SameWork
<1>10. requests'[h].op # "issue"
  BY <1>9 DEF NoRequest
<1>11. QED
  BY <1>7, <1>8, <1>9, <1>10, IdleRequestOK, HandlerStep DEF EnrollmentInv

LEMMA TickStep ==
    ASSUME EnrollmentInv, Tick
    PROVE  EnrollmentInv'
<1>1. /\ UNCHANGED <<employees, embeddings, sessions, requests, enrolled>>
      /\ clock' = clock + 1 /\ clock < MaxTime
      /\ reply' = NoReply
      /\ TypeOK /\ RequestInv /\ IssueInv /\ TableInv
  BY DEF Tick, EnrollmentInv
<1>2. TypeOK'
  BY <1>1, RecordTypes, ClockAssumption DEF TypeOK
<1>3. \A t \in Tokens : Expired(t) => Expired(t)'
  BY <1>1, ClockAssumption DEF Expired, TypeOK, Session
<1>4. TableInv'
  BY <1>1, <1>3
     DEF TableInv, LinkFaceIsItsEmployees, CompletedMeansEnrolled, ExpiredMeansOverdue
<1>5. ASSUME NEW h \in Handlers
      PROVE  RequestOK(h)'
  <2>1. RequestOK(h)
    BY <1>1 DEF RequestInv
  <2>2. requests[h].at = "expire" => Tok(h) \in Tokens
    BY <2>1 DEF RequestOK, Statement, Embedding
  <2>3. QED
    BY <1>1, <1>3, <2>1, <2>2 DEF RequestOK, Emp, Tok
<1>6. IssueInv'
  BY <1>1 DEF IssueInv, Tok
<1>7. QED
  BY <1>2, <1>4, <1>5, <1>6 DEF EnrollmentInv, RequestInv

LEMMA EnrollmentInvStep == EnrollmentInv /\ [Next]_vars => EnrollmentInv'
<1> SUFFICES ASSUME EnrollmentInv, [Next]_vars
             PROVE  EnrollmentInv'
  OBVIOUS
<1>1. CASE Tick
  BY <1>1, TickStep
<1>2. ASSUME NEW h \in Handlers, Receive(h) \/ Crash(h)
      PROVE  EnrollmentInv'
  BY <1>2, ReceiveStep, CrashStep
<1>3. ASSUME NEW h \in Handlers, BlankName(h) \/ Fail(h)
      PROVE  EnrollmentInv'
  BY <1>3, ReadSteps
<1>4. ASSUME NEW h \in Handlers, EmployeeStep(h)
      PROVE  EnrollmentInv'
  BY <1>4, ReadSteps, LoadRowStep, EmployeesStep, DropEmbeddingStep DEF EmployeeStep
<1>5. ASSUME NEW h \in Handlers, EnrollStep(h)
      PROVE  EnrollmentInv'
  BY <1>5, ReadSteps, EmbeddingStep DEF EnrollStep
<1>6. ASSUME NEW h \in Handlers, LinkStep(h)
      PROVE  EnrollmentInv'
  BY <1>6, ReadSteps, IssueStep, LoadSessionStep, SettleStep DEF LinkStep
<1>7. CASE UNCHANGED vars
  BY <1>7 DEF vars, EnrollmentInv, TypeOK, RequestInv, RequestOK, IssueInv, TableInv,
              LinkFaceIsItsEmployees, CompletedMeansEnrolled, ExpiredMeansOverdue,
              Expired, Emp, Tok
<1>8. QED
  BY <1>1, <1>2, <1>3, <1>4, <1>5, <1>6, <1>7 DEF Next, Handle

LEMMA EnrollmentInvariant == Spec => []EnrollmentInv
BY EnrollmentInvInit, EnrollmentInvStep, PTL DEF Spec

\* Tables, requests and responses keep their types.
THEOREM EnrollmentTypeCorrect == Spec => []TypeOK
<1>1. EnrollmentInv => TypeOK
  BY DEF EnrollmentInv
<1>2. QED
  BY EnrollmentInvariant, <1>1, PTL

\* A face captured through a link is always stored under the link's employee.
THEOREM LinkFaceSafety == Spec => []LinkFaceIsItsEmployees
<1>1. EnrollmentInv => LinkFaceIsItsEmployees
  BY DEF EnrollmentInv, TableInv
<1>2. QED
  BY EnrollmentInvariant, <1>1, PTL

\* A completed link has had its face stored, whatever failed in between.
THEOREM CompletionSafety == Spec => []CompletedMeansEnrolled
<1>1. EnrollmentInv => CompletedMeansEnrolled
  BY DEF EnrollmentInv, TableInv
<1>2. QED
  BY EnrollmentInvariant, <1>1, PTL

\* No link is marked expired before its time.
THEOREM ExpirySafety == Spec => []ExpiredMeansOverdue
<1>1. EnrollmentInv => ExpiredMeansOverdue
  BY DEF EnrollmentInv, TableInv
<1>2. QED
  BY EnrollmentInvariant, <1>1, PTL

\* A settled link stays settled: requests that loaded a link earlier may still
\* change how it was settled, but nothing makes it pending again.
THEOREM SettledForGood == Spec => SettledStaysSettled
<1> DEFINE Kept == \A t \in Tokens : sessions[t].status \in Settled
                                     => sessions'[t].status \in Settled
<1>1. ASSUME EnrollmentInv, Next
      PROVE  Kept
  <2>1. CASE sessions' = sessions
    BY <2>1
  <2>2. ASSUME NEW h \in Handlers, IssueLink(h)
        PROVE  Kept
    <3>1. sessions[Tok(h)].status = "none"
      BY <1>1, <2>2 DEF EnrollmentInv, RequestInv, RequestOK, IssueLink, At
    <3>2. \A t \in Tokens : t # Tok(h) => sessions'[t] = sessions[t]
      BY <1>1, <2>2 DEF EnrollmentInv, TypeOK, IssueLink
    <3>3. QED
      BY <3>1, <3>2 DEF Settled
  <2>3. ASSUME NEW h \in Handlers, ExpireLink(h) \/ RevokeLink(h) \/ ConsumeLink(h)
        PROVE  Kept
    <3>1. PICK s \in Settled : sessions' = [sessions EXCEPT ![Tok(h)].status = s]
      BY <2>3 DEF ExpireLink, RevokeLink, ConsumeLink, Settled
    <3>2. sessions \in [Tokens -> Session]
      BY <1>1 DEF EnrollmentInv, TypeOK
    <3>3. QED
      BY <3>1, <3>2 DEF Session
  <2>4. ASSUME NEW h \in Handlers, EmployeeStep(h) \/ EnrollStep(h)
        PROVE  sessions' = sessions
    BY <2>4 DEF EmployeeStep, EnrollStep, CheckDuplicate, InsertEmployee, FindActive,
                UpdateRow, LoadRow, Deactivate, Reactivate, FindEmbedding, DropEmbedding,
                Capture, ChooseWrite, InsertEmbedding, ReplaceEmbedding
  <2>5. ASSUME NEW h \in Handlers,
               LoadSession(h) \/ ViewLink(h) \/ Recheck(h) \/ Receive(h)
                 \/ BlankName(h) \/ Fail(h) \/ Crash(h)
        PROVE  sessions' = sessions
    BY <2>5 DEF LoadSession, ViewLink, Recheck, Receive, BlankName, Fail, Crash
  <2>6. CASE Tick
    BY <2>6, <2>1 DEF Tick
  <2>7. QED
    BY <1>1, <2>1, <2>2, <2>3, <2>4, <2>5, <2>6 DEF Next, Handle, LinkStep
<1>2. EnrollmentInv /\ [Next]_vars => [Kept]_vars
  BY <1>1
<1>3. QED
  BY EnrollmentInvariant, <1>2, PTL DEF Spec, SettledStaysSettled
(***************************************************************************)
(* Admission to a capture through a link.                                  *)
(***************************************************************************)
Closed(t) ==
    sessions[t].status \in Settled \/ (sessions[t].status = "pending" /\ Expired(t))

\* A handler goes on with the same request, or has ended it.
Continues(h) ==
    \/ requests'[h] = NoRequest
    \/ requests'[h].op = requests[h].op /\ requests'[h].token = requests[h].token

\* ... and leaves the work of the others alone.
LEMMA StepContinues ==
    ASSUME TypeOK, NEW h \in Handlers,
           Handle(h) \/ BlankName(h) \/ Fail(h) \/ Crash(h)
    PROVE  Continues(h) /\ OthersWait(h)
<1>1. requests \in [Handlers -> Request] /\ requests[h] \in Request
  BY DEF TypeOK
<1>2. ASSUME NEW code, Reply(h, code)
      PROVE  Continues(h) /\ OthersWait(h)
  BY <1>1, <1>2 DEF Reply, Continues, OthersWait, SameWork
<1>3. ASSUME NEW l, NEW b, Move(h, l, b)
      PROVE  Continues(h) /\ OthersWait(h)
  BY <1>1, <1>3 DEF Move, Continues, OthersWait, SameWork, Request
<1>4. ASSUME NEW l, Goto(h, l)
      PROVE  Continues(h) /\ OthersWait(h)
  BY <1>3, <1>4 DEF Goto
<1>5. CASE LoadRow(h)
  BY <1>1, <1>2, <1>5 DEF LoadRow, Continues, OthersWait, SameWork, Request
<1>6. CASE LoadSession(h)
  <2>1. CASE \/ \E code \in {404, 410, 200} : Reply(h, code)
             \/ \E l \in {"expire", "view"} : Goto(h, l)
    BY <1>2, <1>4, <2>1
  <2>2. CASE requests' = [requests EXCEPT ![h].at = AfterSession[requests[h].op],
                                          ![h].employee = sessions[Tok(h)].employee]
    BY <1>1, <2>2 DEF Continues, OthersWait, SameWork, Request
  <2>3. QED
    BY <1>6, <2>1, <2>2 DEF LoadSession
<1>7. CASE DropEmbedding(h)
  <2>1. CASE ~requests[h].holds
    BY <1>2, <1>7, <2>1 DEF DropEmbedding
  <2>2. CASE requests[h].holds
    <3>1. requests' = [g \in Handlers |->
            IF g = h THEN NoRequest
            ELSE IF Emp(g) = Emp(h) THEN [requests[g] EXCEPT !.holds = FALSE]
            ELSE requests[g]]
      BY <1>7, <2>2 DEF DropEmbedding
    <3>2. ASSUME NEW g \in Handlers \ {h}
          PROVE  SameWork(g)
      <4>1. requests[g] \in Request
        BY <1>1
      <4>2. QED
        BY <3>1, <4>1 DEF SameWork, Request
    <3>3. QED
      BY <3>1, <3>2 DEF Continues, OthersWait
  <2>3. QED
    BY <2>1, <2>2
<1>8. CASE CheckDuplicate(h) \/ InsertEmployee(h) \/ FindActive(h) \/ UpdateRow(h)
  BY <1>2, <1>4, <1>8 DEF CheckDuplicate, InsertEmployee, FindActive, UpdateRow
<1>9. CASE Deactivate(h) \/ Reactivate(h) \/ FindEmbedding(h)
  BY <1>2, <1>3, <1>4, <1>9 DEF Deactivate, Reactivate, FindEmbedding
<1>10. CASE EnrollStep(h)
  <2>1. CASE Capture(h) \/ ChooseWrite(h)
    BY <1>2, <1>3, <1>4, <2>1 DEF Capture, ChooseWrite
  <2>2. CASE InsertEmbedding(h) \/ ReplaceEmbedding(h)
    BY <1>2, <1>4, <2>2 DEF InsertEmbedding, ReplaceEmbedding, Stored
  <2>3. QED
    BY <1>10, <2>1, <2>2 DEF EnrollStep
<1>11. CASE IssueLink(h) \/ ExpireLink(h) \/ ViewLink(h) \/ RevokeLink(h)
  BY <1>2, <1>4, <1>11 DEF IssueLink, ExpireLink, ViewLink, RevokeLink
<1>12. CASE Recheck(h) \/ ConsumeLink(h) \/ BlankName(h) \/ Fail(h)
  BY <1>2, <1>4, <1>12 DEF Recheck, ConsumeLink, BlankName, Fail
<1>13. CASE Crash(h)
  BY <1>1, <1>13 DEF Crash, Continues, OthersWait, SameWork
<1>14. QED
  BY <1>5, <1>6, <1>7, <1>8, <1>9, <1>10, <1>11, <1>12, <1>13
     DEF Handle, EmployeeStep, LinkStep

\* A handler that has not read its link yet is not admitted to a closed one.
LEMMA ClosedLinkRefuses ==
    ASSUME EnrollmentInv, NEW h \in Handlers, NEW t \in Tokens, Closed(t),
           requests[h].op = "complete", Tok(h) = t,
           requests[h].at \in {"session", "expire"},
           Handle(h) \/ BlankName(h) \/ Fail(h) \/ Crash(h)
    PROVE  requests'[h] = NoRequest \/ requests'[h].at = "expire"
<1>1. requests \in [Handlers -> Request] /\ requests[h] \in Request
  BY DEF EnrollmentInv, TypeOK
<1>2. ASSUME NEW code, Reply(h, code)
      PROVE  requests'[h] = NoRequest
  BY <1>1, <1>2 DEF Reply
<1>3. CASE LoadSession(h)
  <2>1. CASE Goto(h, "expire")
    BY <1>1, <2>1 DEF Goto, Move, Request
  <2>2. Goto(h, "expire") \/ Reply(h, 410)
    BY <1>3 DEF LoadSession, Closed, Settled
  <2>3. QED
    BY <1>2, <2>1, <2>2
<1>4. CASE ExpireLink(h)
  BY <1>2, <1>4 DEF ExpireLink
<1>5. CASE Fail(h)
  BY <1>2, <1>5 DEF Fail
<1>6. CASE Crash(h)
  BY <1>1, <1>6 DEF Crash
<1>7. ~(EmployeeStep(h) \/ EnrollStep(h) \/ BlankName(h))
  BY DEF EmployeeStep, EnrollStep, CheckDuplicate, InsertEmployee, FindActive, UpdateRow,
         LoadRow, Deactivate, Reactivate, FindEmbedding, DropEmbedding, Capture,
         ChooseWrite, InsertEmbedding, ReplaceEmbedding, BlankName, At
<1>8. ~(IssueLink(h) \/ ViewLink(h) \/ RevokeLink(h) \/ Recheck(h) \/ ConsumeLink(h))
  BY DEF IssueLink, ViewLink, RevokeLink, Recheck, ConsumeLink, At
<1>9. QED
  BY <1>3, <1>4, <1>5, <1>6, <1>7, <1>8 DEF Handle, LinkStep

\* A request that arrives has not read its link.
LEMMA ArrivalsWait ==
    ASSUME TypeOK, NEW h \in Handlers, Receive(h)
    PROVE  OthersWait(h) /\ (requests'[h].op = "complete" => requests'[h].at = "session")
<1>1. requests \in [Handlers -> Request]
  BY DEF TypeOK
<1>2. ASSUME NEW r, requests' = [requests EXCEPT ![h] = r],
             r.op = "complete" => r.at = "session"
      PROVE  OthersWait(h) /\ (requests'[h].op = "complete" => requests'[h].at = "session")
  BY <1>1, <1>2 DEF OthersWait, SameWork
<1>3. CASE \E op \in Ops \cap (EmployeeOps \ {"issue"}), e \in Employees :
             requests' = [requests EXCEPT ![h] =
                 [NoRequest EXCEPT !.op = op, !.at = "lookup", !.employee = e]]
  <2>1. PICK op \in EmployeeOps, e \in Employees :
             requests' = [requests EXCEPT ![h] =
                 [NoRequest EXCEPT !.op = op, !.at = "lookup", !.employee = e]]
    BY <1>3
  <2>2. [NoRequest EXCEPT !.op = op, !.at = "lookup", !.employee = e].op # "complete"
    BY DEF NoRequest, EmployeeOps
  <2>3. QED
    BY <1>2, <2>1, <2>2
<1>4. CASE \E e \in Employees, t \in Tokens :
             requests' = [requests EXCEPT ![h] =
                 [NoRequest EXCEPT !.op = "issue", !.at = "lookup",
                                   !.employee = e, !.token = t]]
  <2>1. PICK e \in Employees, t \in Tokens :
             requests' = [requests EXCEPT ![h] =
                 [NoRequest EXCEPT !.op = "issue", !.at = "lookup",
                                   !.employee = e, !.token = t]]
    BY <1>4
  <2>2. [NoRequest EXCEPT !.op = "issue", !.at = "lookup",
                          !.employee = e, !.token = t].op # "complete"
    BY DEF NoRequest
  <2>3. QED
    BY <1>2, <2>1, <2>2
<1>5. CASE \E op \in Ops \cap LinkOps, t \in Tokens :
             requests' = [requests EXCEPT ![h] =
                 [NoRequest EXCEPT !.op = op, !.at = "session", !.token = t]]
  <2>1. PICK op \in LinkOps, t \in Tokens :
             requests' = [requests EXCEPT ![h] =
                 [NoRequest EXCEPT !.op = op, !.at = "session", !.token = t]]
    BY <1>5
  <2>2. [NoRequest EXCEPT !.op = op, !.at = "session", !.token = t].at = "session"
    BY DEF NoRequest
  <2>3. QED
    BY <1>2, <2>1, <2>2
<1>6. QED
  BY <1>3, <1>4, <1>5 DEF Receive

LEMMA ClosedLinkStep ==
    ASSUME EnrollmentInv, NEW t \in Tokens, Closed(t), NEW h \in Handlers,
           Receive(h) \/ Handle(h) \/ BlankName(h) \/ Fail(h) \/ Crash(h)
    PROVE  Completing(t)' \subseteq Completing(t)
<1> SUFFICES ASSUME NEW g \in Handlers,
                    requests'[g].op = "complete", requests'[g].token = t,
                    requests'[g].at \notin {"session", "expire"}
             PROVE  /\ requests[g].op = "complete"
                    /\ requests[g].token = t
                    /\ requests[g].at \notin {"session", "expire"}
  BY DEF Completing
<1>1. TypeOK
  BY DEF EnrollmentInv
<1>2. CASE g # h
  <2>1. OthersWait(h)
    BY <1>1, StepContinues, ArrivalsWait
  <2>2. QED
    BY <1>2, <2>1 DEF OthersWait, SameWork
<1>3. CASE g = h
  <2>1. ~Receive(h)
    BY <1>1, <1>3, ArrivalsWait
  <2>2. requests'[h] # NoRequest
    BY <1>3 DEF NoRequest
  <2>3. requests[h].op = "complete" /\ Tok(h) = t
    BY <1>1, <1>3, <2>1, <2>2, StepContinues DEF Continues, Tok
  <2>4. requests[h].at \notin {"session", "expire"}
    BY <1>3, <2>1, <2>2, <2>3, ClosedLinkRefuses
  <2>5. QED
    BY <1>3, <2>3, <2>4 DEF Tok
<1>4. QED
  BY <1>2, <1>3

\* Once a link is settled or overdue, no capture is admitted through it any
\* more: only those that read it in time are still under way.
THEOREM ClosedToCaptures == Spec => ClosedLinkAdmitsNobody
<1> DEFINE Refused == \A t \in Tokens :
             sessions[t].status \in Settled \/ (sessions[t].status = "pending" /\ Expired(t))
             => Completing(t)' \subseteq Completing(t)
<1>1. ASSUME EnrollmentInv, Next
      PROVE  Refused
  <2>1. CASE Tick
    BY <2>1 DEF Tick, Completing
  <2>2. CASE \E h \in Handlers :
               Receive(h) \/ Handle(h) \/ BlankName(h) \/ Fail(h) \/ Crash(h)
    BY <1>1, <2>2, ClosedLinkStep DEF Closed
  <2>3. QED
    BY <1>1, <2>1, <2>2 DEF Next
<1>2. EnrollmentInv /\ [Next]_vars => [Refused]_vars
  BY <1>1
<1>3. QED
  BY EnrollmentInvariant, <1>2, PTL DEF Spec, ClosedLinkAdmitsNobody

(***************************************************************************)
(* Requests that do not meet: while a request is under way no other works  *)
(* on its employee or on its link, as if each locked both.  Requests on    *)
(* others run at the same time, on any replica.  A request then finds its  *)
(* rows as its last statement left them, and nothing comes between its two *)
(* commits.  So what it answers is true; and if none fails, it takes       *)
(* effect as EnrollmentPromise says.                                       *)
(***************************************************************************)
Apart ==
    \A g, h \in Handlers : g # h =>
        /\ Emp(g) = Emp(h) => Emp(g) = "none"
        /\ Tok(g) = Tok(h) => Tok(g) = "none"

Current == [exists |-> TRUE, active |-> TRUE, deleted |-> FALSE]
Former == [exists |-> TRUE, active |-> FALSE, deleted |-> TRUE]

SecondCommit == {"findEmbedding", "dropEmbedding"}
LinkClosing == {"recheck", "consume"}

\* What a request found is still so when it acts on it.
Found(h) ==
    /\ requests[h].op \in {"delete", "restore"} /\ requests[h].at = "write"
         => employees[Emp(h)].exists /\ requests[h].loaded = employees[Emp(h)]
    /\ requests[h].at \in SecondCommit => employees[Emp(h)] = Former
    /\ requests[h].at = "dropEmbedding" => requests[h].holds
    /\ requests[h].at \in Embedding \cup LinkClosing \cup {"issue"}
         => employees[Emp(h)].active
    /\ requests[h].at \in LinkClosing => embeddings[Emp(h)] = Tok(h)
    /\ requests[h].op = "complete" /\ requests[h].at # "session"
         => sessions[Tok(h)].status = "pending"
    /\ requests[h].at \in {"expire", "revoke"}
         => sessions[Tok(h)].status = "pending"

\* No row is mixed, and a face is of an active employee or about to be
\* revoked by the request that dismissed its employee, unless that one failed.
RowsInv ==
    \A e \in Employees :
        /\ employees[e] \in {NoRow, Current, Former}
        /\ embeddings[e] # "none" => employees[e].active \/ Deleting(e) \/ Faulty

ApartInv == RowsInv /\ \A h \in Handlers : Found(h)

(***************************************************************************)
(* What a step of handler h changes is its own: the row and the face of    *)
(* its employee, its link, and what the refinement mapping makes of them.  *)
(***************************************************************************)
Dismissing(h, e) ==
    requests[h].op = "delete" /\ Emp(h) = e /\ requests[h].at \in SecondCommit

Closing(h, t) ==
    requests[h].op = "complete" /\ Tok(h) = t /\ requests[h].at \in LinkClosing

Confined(h) ==
    /\ \A g \in Handlers \ {h} : requests'[g] = requests[g]
    /\ \A e \in Employees \ {Emp(h)} :
          /\ UNCHANGED <<employees[e], embeddings[e]>>
          /\ ~Dismissing(h, e)'
    /\ \A t \in Tokens \ {Tok(h)} : UNCHANGED sessions[t] /\ ~Closing(h, t)'

LEMMA OwnMarks ==
    ASSUME Apart, NEW h \in Handlers
    PROVE  /\ \A e \in Employees : e = Emp(h) => (Deleting(e) <=> Dismissing(h, e))
           /\ \A t \in Tokens : t = Tok(h) => (Consuming(t) <=> Closing(h, t))
BY TokensAssumption
   DEF Apart, Deleting, Consuming, Dismissing, Closing, SecondCommit, LinkClosing,
       Emp, Tok

LEMMA NextMarks ==
    ASSUME Apart, NEW h \in Handlers, Confined(h)
    PROVE  /\ \A e \in Employees :
                 Deleting(e)' <=> IF e = Emp(h) THEN Dismissing(h, e)' ELSE Deleting(e)
           /\ \A t \in Tokens :
                 Consuming(t)' <=> IF t = Tok(h) THEN Closing(h, t)' ELSE Consuming(t)
<1>1. ASSUME NEW g \in Handlers \ {h}
      PROVE  /\ requests'[g] = requests[g]
             /\ \A e \in Employees : e = Emp(h) => ~Dismissing(g, e)
             /\ \A t \in Tokens : t = Tok(h) => ~Closing(g, t)
  BY TokensAssumption DEF Apart, Confined, Dismissing, Closing
<1>2. /\ \A e : Deleting(e) <=> \E g \in Handlers : Dismissing(g, e)
      /\ \A t : Consuming(t) <=> \E g \in Handlers : Closing(g, t)
      /\ \A e : Deleting(e)' <=> \E g \in Handlers : Dismissing(g, e)'
      /\ \A t : Consuming(t)' <=> \E g \in Handlers : Closing(g, t)'
  BY DEF Deleting, Consuming, Dismissing, Closing, SecondCommit, LinkClosing, Emp, Tok
<1>3. /\ \A g \in Handlers \ {h} : \A e : Dismissing(g, e)' <=> Dismissing(g, e)
      /\ \A g \in Handlers \ {h} : \A t : Closing(g, t)' <=> Closing(g, t)
  BY <1>1 DEF Dismissing, Closing, Emp, Tok
<1>4. /\ \A e \in Employees \ {Emp(h)} : ~Dismissing(h, e) /\ ~Dismissing(h, e)'
      /\ \A t \in Tokens \ {Tok(h)} : ~Closing(h, t) /\ ~Closing(h, t)'
  BY DEF Confined, Dismissing, Closing
<1>5. \A e \in Employees :
          Deleting(e)' <=> IF e = Emp(h) THEN Dismissing(h, e)' ELSE Deleting(e)
  BY <1>1, <1>2, <1>3, <1>4
<1>6. \A t \in Tokens :
          Consuming(t)' <=> IF t = Tok(h) THEN Closing(h, t)' ELSE Consuming(t)
  BY <1>1, <1>2, <1>3, <1>4
<1>7. QED
  BY <1>5, <1>6

\* Others still find what they found.
LEMMA OthersFound ==
    ASSUME Apart, EnrollmentInv, ApartInv, NEW h \in Handlers, Confined(h),
           NEW g \in Handlers \ {h}
    PROVE  Found(g)'
<1>1. requests'[g] = requests[g] /\ Found(g) /\ RequestOK(g)
  BY DEF Confined, ApartInv, EnrollmentInv, RequestInv
<1>2. Emp(g) \in Employees => /\ employees'[Emp(g)] = employees[Emp(g)]
                             /\ embeddings'[Emp(g)] = embeddings[Emp(g)]
  BY TokensAssumption DEF Apart, Confined
<1>3. Tok(g) \in Tokens => sessions'[Tok(g)] = sessions[Tok(g)]
  BY TokensAssumption DEF Apart, Confined
<1>4. requests[g].op \in LinkOps => Tok(g) \in Tokens
  BY <1>1 DEF RequestOK
<1>5. \/ requests[g].op \in {"delete", "restore"}
      \/ requests[g].at \in SecondCommit \cup Embedding \cup LinkClosing \cup {"issue"}
      => Emp(g) \in Employees
  BY <1>1, <1>4 DEF RequestOK, Statement, SecondCommit, LinkClosing, Embedding,
                    EmployeeOps, LinkOps, EnrollmentInv, TableInv
<1>6. requests[g].op = "complete" \/ requests[g].at \in {"expire", "revoke"}
      => Tok(g) \in Tokens
  BY <1>1, <1>4 DEF RequestOK, Statement, Embedding, LinkOps
<1>7. Emp(g)' = Emp(g) /\ Tok(g)' = Tok(g)
  BY <1>1 DEF Emp, Tok
<1>8. QED
  BY <1>1, <1>2, <1>3, <1>5, <1>6, <1>7 DEF Found

\* It is enough to look at h itself, its employee and its link.
LEMMA OwnStep ==
    ASSUME Apart, EnrollmentInv, ApartInv, NEW h \in Handlers, Confined(h), Found(h)',
           \A e \in Employees : e = Emp(h) =>
               /\ employees'[e] \in {NoRow, Current, Former}
               /\ embeddings'[e] # "none"
                    => employees'[e].active \/ Dismissing(h, e)' \/ Faulty
    PROVE  /\ ApartInv'
           /\ \A e \in Employees \ {Emp(h)} : UNCHANGED <<StaffOf(e), FaceOf(e)>>
           /\ \A e \in Employees : e = Emp(h) =>
                 /\ FaceOf(e) = IF Dismissing(h, e) THEN "none" ELSE embeddings[e]
                 /\ FaceOf(e)' = IF Dismissing(h, e)' THEN "none" ELSE embeddings'[e]
           /\ \A t \in Tokens \ {Tok(h)} : UNCHANGED LinkOf(t)
           /\ \A t \in Tokens : t = Tok(h) =>
                 /\ LinkOf(t) = IF Closing(h, t)
                                THEN [sessions[t] EXCEPT !.status = "completed"]
                                ELSE sessions[t]
                 /\ LinkOf(t)' = IF Closing(h, t)'
                                 THEN [sessions'[t] EXCEPT !.status = "completed"]
                                 ELSE sessions'[t]
<1>1. RowsInv'
  <2> SUFFICES ASSUME NEW e \in Employees
               PROVE  /\ employees'[e] \in {NoRow, Current, Former}
                      /\ embeddings'[e] # "none"
                           => employees'[e].active \/ Deleting(e)' \/ Faulty
    BY DEF RowsInv
  <2>1. CASE e = Emp(h)
    BY <2>1, NextMarks
  <2>2. CASE e # Emp(h)
    BY <2>2, NextMarks DEF ApartInv, RowsInv, Confined
  <2>3. QED
    BY <2>1, <2>2
<1>2. ApartInv'
  BY <1>1, OthersFound DEF ApartInv
<1>3. \A e \in Employees \ {Emp(h)} : UNCHANGED <<StaffOf(e), FaceOf(e)>>
  BY NextMarks DEF Confined, StaffOf, FaceOf
<1>4. \A t \in Tokens \ {Tok(h)} : UNCHANGED LinkOf(t)
  BY NextMarks DEF Confined, LinkOf
<1>5. \A e \in Employees : e = Emp(h) =>
          /\ FaceOf(e) = IF Dismissing(h, e) THEN "none" ELSE embeddings[e]
          /\ FaceOf(e)' = IF Dismissing(h, e)' THEN "none" ELSE embeddings'[e]
  BY OwnMarks, NextMarks DEF FaceOf
<1>6. \A t \in Tokens : t = Tok(h) =>
          /\ LinkOf(t) = IF Closing(h, t)
                         THEN [sessions[t] EXCEPT !.status = "completed"]
                         ELSE sessions[t]
          /\ LinkOf(t)' = IF Closing(h, t)'
                          THEN [sessions'[t] EXCEPT !.status = "completed"]
                          ELSE sessions'[t]
  BY OwnMarks, NextMarks DEF LinkOf
<1>7. QED
  BY <1>2, <1>3, <1>4, <1>5, <1>6

LEMMA MapUnchanged ==
    ASSUME UNCHANGED clock,
           \A e \in Employees : UNCHANGED <<StaffOf(e), FaceOf(e)>>,
           \A t \in Tokens : UNCHANGED LinkOf(t)
    PROVE  UNCHANGED Promise!promiseVars
BY DEF Promise!promiseVars

\* Steps that change no table.
LEMMA ApartQuiet ==
    ASSUME Apart, EnrollmentInv, ApartInv, NEW h \in Handlers, UNCHANGED quiet,
           \A g \in Handlers \ {h} : requests'[g] = requests[g],
           Found(h)',
           \A e \in Employees :
               /\ Dismissing(h, e)' => Dismissing(h, e)
               /\ Dismissing(h, e) => Dismissing(h, e)' \/ embeddings[e] = "none",
           \A t \in Tokens : Closing(h, t)' <=> Closing(h, t)
    PROVE  ApartInv' /\ UNCHANGED Promise!promiseVars
<1>1. UNCHANGED <<clock, employees, embeddings, sessions>>
  BY DEF quiet
<1>2. Confined(h)
  BY <1>1 DEF Confined, Dismissing, Closing
<1>3. \A e \in Employees : e = Emp(h) =>
          /\ employees'[e] \in {NoRow, Current, Former}
          /\ embeddings'[e] # "none"
               => employees'[e].active \/ Dismissing(h, e)' \/ Faulty
  BY <1>1, OwnMarks DEF ApartInv, RowsInv
<1>4. ApartInv'
  BY <1>2, <1>3, OwnStep
<1>5. \A e \in Employees : StaffOf(e)' = StaffOf(e)
  BY <1>1 DEF StaffOf
<1>6. \A e \in Employees : FaceOf(e)' = FaceOf(e)
  BY <1>1, <1>2, <1>3, OwnStep
<1>7. \A t \in Tokens : LinkOf(t)' = LinkOf(t)
  BY <1>1, <1>2, <1>3, OwnStep
<1>8. QED
  BY <1>1, <1>4, <1>5, <1>6, <1>7, MapUnchanged

LEMMA ApartReply ==
    ASSUME Apart, EnrollmentInv, ApartInv, NEW h \in Handlers,
           NEW code \in Nat, Reply(h, code), UNCHANGED quiet,
           requests[h].at \in SecondCommit => embeddings[Emp(h)] = "none",
           requests[h].at \notin LinkClosing
    PROVE  ApartInv' /\ UNCHANGED Promise!promiseVars
<1>1. \A g \in Handlers : requests'[g] = IF g = h THEN NoRequest ELSE requests[g]
  BY ReplyMoves DEF EnrollmentInv
<1>2. Found(h)'
  BY <1>1 DEF Found, NoRequest, SecondCommit, LinkClosing, Embedding
<1>3. /\ \A e \in Employees : /\ ~Dismissing(h, e)'
                              /\ Dismissing(h, e) => embeddings[e] = "none"
      /\ \A t \in Tokens : ~Closing(h, t)' /\ ~Closing(h, t)
  BY <1>1 DEF Dismissing, Closing, NoRequest
<1>4. QED
  BY <1>1, <1>2, <1>3, ApartQuiet

\* A request goes on, between statements that the mapping does not tell apart.
LEMMA ApartWentOn ==
    ASSUME Apart, EnrollmentInv, ApartInv, NEW h \in Handlers, UNCHANGED quiet,
           \A g \in Handlers \ {h} : requests'[g] = requests[g],
           requests'[h].op = requests[h].op,
           requests'[h].token = Tok(h),
           requests'[h].employee = Emp(h) \/ requests[h].op # "delete",
           requests[h].at \in SecondCommit <=> requests'[h].at \in SecondCommit,
           requests[h].at \in LinkClosing <=> requests'[h].at \in LinkClosing,
           Found(h)'
    PROVE  ApartInv' /\ UNCHANGED Promise!promiseVars
<1>1. /\ \A e \in Employees : Dismissing(h, e)' <=> Dismissing(h, e)
      /\ \A t \in Tokens : Closing(h, t)' <=> Closing(h, t)
  BY DEF Dismissing, Closing, Emp, Tok
<1>2. QED
  BY <1>1, ApartQuiet

\* A request arrives at a handler that was idle.
LEMMA Arrives ==
    ASSUME EnrollmentInv, NEW h \in Handlers, Receive(h)
    PROVE  /\ requests'[h].at \in {"lookup", "session"}
           /\ requests'[h].op = "complete" => requests'[h].at = "session"
<1>1. requests \in [Handlers -> Request]
  BY DEF EnrollmentInv, TypeOK
<1>2. PICK r : /\ requests' = [requests EXCEPT ![h] = r]
               /\ r.at \in {"lookup", "session"}
               /\ r.op = "complete" => r.at = "session"
  <2> DEFINE Fits(r) == /\ requests' = [requests EXCEPT ![h] = r]
                        /\ r.at \in {"lookup", "session"}
                        /\ r.op = "complete" => r.at = "session"
  <2>1. CASE \E op \in Ops \cap (EmployeeOps \ {"issue"}), e \in Employees :
               requests' = [requests EXCEPT ![h] =
                   [NoRequest EXCEPT !.op = op, !.at = "lookup", !.employee = e]]
    <3>1. PICK op \in EmployeeOps, e \in Employees :
            requests' = [requests EXCEPT ![h] =
                [NoRequest EXCEPT !.op = op, !.at = "lookup", !.employee = e]]
      BY <2>1
    <3>2. Fits([NoRequest EXCEPT !.op = op, !.at = "lookup", !.employee = e])
      BY <3>1 DEF NoRequest, EmployeeOps
    <3>3. QED
      BY <3>2
  <2>2. CASE \E e \in Employees, t \in Tokens :
               requests' = [requests EXCEPT ![h] =
                   [NoRequest EXCEPT !.op = "issue", !.at = "lookup",
                                     !.employee = e, !.token = t]]
    <3>1. PICK e \in Employees, t \in Tokens :
            requests' = [requests EXCEPT ![h] =
                [NoRequest EXCEPT !.op = "issue", !.at = "lookup",
                                  !.employee = e, !.token = t]]
      BY <2>2
    <3>2. Fits([NoRequest EXCEPT !.op = "issue", !.at = "lookup",
                                 !.employee = e, !.token = t])
      BY <3>1 DEF NoRequest
    <3>3. QED
      BY <3>2
  <2>3. CASE \E op \in Ops \cap LinkOps, t \in Tokens :
               requests' = [requests EXCEPT ![h] =
                   [NoRequest EXCEPT !.op = op, !.at = "session", !.token = t]]
    <3>1. PICK op \in LinkOps, t \in Tokens :
            requests' = [requests EXCEPT ![h] =
                [NoRequest EXCEPT !.op = op, !.at = "session", !.token = t]]
      BY <2>3
    <3>2. Fits([NoRequest EXCEPT !.op = op, !.at = "session", !.token = t])
      BY <3>1 DEF NoRequest
    <3>3. QED
      BY <3>2
  <2>4. QED
    BY <2>1, <2>2, <2>3 DEF Receive
<1>3. QED
  BY <1>1, <1>2

LEMMA ApartReceive ==
    ASSUME Apart, EnrollmentInv, ApartInv, NEW h \in Handlers, Receive(h)
    PROVE  ApartInv' /\ UNCHANGED Promise!promiseVars
<1>1. UNCHANGED quiet /\ requests[h].at = "idle"
  BY DEF Receive, quiet
<1>2. \A g \in Handlers \ {h} : requests'[g] = requests[g]
  BY DEF Receive, EnrollmentInv, TypeOK
<1>3. /\ \A e \in Employees : ~Dismissing(h, e) /\ ~Dismissing(h, e)'
      /\ \A t \in Tokens : ~Closing(h, t) /\ ~Closing(h, t)'
  BY <1>1, Arrives DEF Dismissing, Closing, SecondCommit, LinkClosing
<1>4. Found(h)'
  BY Arrives DEF Found, SecondCommit, LinkClosing, Embedding
<1>5. QED
  BY <1>1, <1>2, <1>3, <1>4, ApartQuiet

\* Statements that go on to another statement without writing: what they
\* found holds of the tables as they are.
LEMMA ApartGoto ==
    ASSUME Apart, EnrollmentInv, ApartInv, NEW h \in Handlers,
           NEW l \in Labels, NEW b \in BOOLEAN, Move(h, l, b), UNCHANGED quiet,
           requests[h].at \in SecondCommit <=> l \in SecondCommit,
           requests[h].at \in LinkClosing <=> l \in LinkClosing,
           l = "dropEmbedding" => b,
           l \notin {"session", "revoke"},
           requests[h].op \in {"delete", "restore"} => l # "write",
           requests[h].op = "complete" => sessions[Tok(h)].status = "pending",
           l = "expire" => sessions[Tok(h)].status = "pending",
           l \in Embedding \cup {"issue"} => employees[Emp(h)].active
    PROVE  ApartInv' /\ UNCHANGED Promise!promiseVars
<1>1. MovedTo(h, l)
  BY MoveMoves DEF EnrollmentInv
<1>2. requests'[h].holds = b
  <2>1. requests \in [Handlers -> Request]
        /\ requests' = [requests EXCEPT ![h].at = l, ![h].holds = b]
    BY DEF EnrollmentInv, TypeOK, Move
  <2>2. QED
    BY <2>1 DEF Request
<1>3. Found(h)
  BY DEF ApartInv
<1>4. /\ Emp(h)' = Emp(h) /\ Tok(h)' = Tok(h)
      /\ UNCHANGED <<employees, embeddings, sessions>>
  BY <1>1 DEF MovedTo, Emp, Tok, quiet
<1>5. Found(h)'
  BY <1>1, <1>2, <1>3, <1>4 DEF Found, MovedTo
<1>6. \A g \in Handlers \ {h} : requests'[g] = requests[g]
  BY MoveMoves DEF EnrollmentInv
<1>7. QED
  BY <1>1, <1>5, <1>6, ApartWentOn DEF MovedTo

\* The statements that only read, and the update of a name.
LEMMA ApartReads ==
    ASSUME Apart, EnrollmentInv, ApartInv, NEW h \in Handlers,
           \/ CheckDuplicate(h) \/ FindActive(h) \/ UpdateRow(h) \/ FindEmbedding(h)
           \/ Capture(h) \/ ChooseWrite(h) \/ ViewLink(h) \/ Recheck(h)
           \/ BlankName(h)
    PROVE  ApartInv' /\ UNCHANGED Promise!promiseVars
<1> USE DEF SecondCommit, LinkClosing
<1>1. UNCHANGED quiet
  BY DEF quiet, CheckDuplicate, FindActive, UpdateRow, FindEmbedding, Capture,
         ChooseWrite, ViewLink, Recheck, BlankName
<1>2. RequestOK(h) /\ Found(h)
  BY DEF EnrollmentInv, RequestInv, ApartInv
<1>3. TRUE \in BOOLEAN /\ FALSE \in BOOLEAN
  OBVIOUS
<1>4. CASE CheckDuplicate(h)
  <2>1. Reply(h, 409) \/ Goto(h, "insert")
    BY <1>4 DEF CheckDuplicate
  <2>2. requests[h].op = "create" /\ requests[h].at = "lookup"
    BY <1>4 DEF CheckDuplicate, At
  <2>3. "insert" \in Labels
    BY DEF Labels
  <2>4. CASE Reply(h, 409)
    BY <1>1, <2>2, <2>4, ApartReply
  <2>5. CASE Move(h, "insert", FALSE)
    BY <1>1, <1>3, <2>2, <2>3, <2>5, ApartGoto DEF Embedding
  <2>6. QED
    BY <2>1, <2>4, <2>5 DEF Goto
<1>5. CASE FindActive(h)
  <2>1. \/ Reply(h, 410) \/ Reply(h, 404)
        \/ employees[Emp(h)].active /\ Goto(h, AfterLookup[requests[h].op])
    BY <1>5 DEF FindActive
  <2>2. /\ requests[h].op \in {"update", "enroll", "samples", "issue", "complete"}
        /\ requests[h].at = "lookup"
        /\ AfterLookup[requests[h].op] \in {"write", "capture", "issue"}
    BY <1>5 DEF FindActive, AfterLookup
  <2>3. {"write", "capture", "issue"} \subseteq Labels
    BY DEF Labels
  <2>4. requests[h].op = "complete" => sessions[Tok(h)].status = "pending"
    BY <1>2, <2>2 DEF Found
  <2>5. CASE Reply(h, 410) \/ Reply(h, 404)
    BY <1>1, <2>2, <2>5, ApartReply
  <2>6. CASE employees[Emp(h)].active /\ Goto(h, AfterLookup[requests[h].op])
    BY <1>1, <1>3, <2>2, <2>3, <2>4, <2>6, ApartGoto DEF Goto
  <2>7. QED
    BY <2>1, <2>5, <2>6
<1>6. CASE UpdateRow(h) \/ ViewLink(h) \/ BlankName(h)
  <2>1. requests[h].at \in {"write", "view", "lookup"}
        /\ \E code \in Nat : Reply(h, code)
    BY <1>6 DEF UpdateRow, ViewLink, BlankName, At
  <2>2. QED
    BY <1>1, <2>1, ApartReply
<1>7. CASE FindEmbedding(h)
  <2>1. /\ requests[h].op = "delete" /\ requests[h].at = "findEmbedding"
        /\ \/ embeddings[Emp(h)] = "none" /\ Reply(h, 200)
           \/ Move(h, "dropEmbedding", TRUE)
    BY <1>7 DEF FindEmbedding, At
  <2>2. "dropEmbedding" \in Labels
    BY DEF Labels
  <2>3. CASE embeddings[Emp(h)] = "none" /\ Reply(h, 200)
    BY <1>1, <2>1, <2>3, ApartReply
  <2>4. CASE Move(h, "dropEmbedding", TRUE)
    BY <1>1, <1>3, <2>1, <2>2, <2>4, ApartGoto DEF Embedding
  <2>5. QED
    BY <2>1, <2>3, <2>4
<1>8. CASE Capture(h) \/ ChooseWrite(h)
  <2>1. /\ requests[h].at \in {"capture", "store"}
        /\ \/ \E code \in {400, 503} : Reply(h, code)
           \/ Move(h, "store", FALSE) \/ Move(h, "insertEmbedding", FALSE)
           \/ Move(h, "replaceEmbedding", TRUE)
    BY <1>8 DEF Capture, ChooseWrite, Goto
  <2>2. {"store", "insertEmbedding", "replaceEmbedding"} \subseteq Labels
    BY DEF Labels
  <2>3. /\ requests[h].op \in {"enroll", "samples", "complete"}
        /\ requests[h].op = "complete" => sessions[Tok(h)].status = "pending"
        /\ employees[Emp(h)].active
    BY <1>2, <2>1 DEF RequestOK, Statement, Found, Embedding
  <2>4. ASSUME NEW l \in {"store", "insertEmbedding", "replaceEmbedding"},
               NEW b \in BOOLEAN, Move(h, l, b)
        PROVE  ApartInv' /\ UNCHANGED Promise!promiseVars
    BY <1>1, <2>1, <2>2, <2>3, <2>4, ApartGoto
  <2>5. CASE \E code \in {400, 503} : Reply(h, code)
    BY <1>1, <2>1, <2>5, ApartReply
  <2>6. QED
    BY <1>3, <2>1, <2>4, <2>5
<1>9. CASE Recheck(h)
  <2>1. /\ requests[h].op = "complete" /\ requests[h].at = "recheck"
        /\ sessions[Tok(h)].status = "pending"
    BY <1>2, <1>9 DEF Recheck, At, Found
  <2>2. Move(h, "consume", FALSE) /\ "consume" \in Labels
    BY <1>9, <2>1 DEF Recheck, Goto, Labels
  <2>3. QED
    BY <1>1, <1>3, <2>1, <2>2, ApartGoto DEF Embedding
<1>10. QED
  BY <1>4, <1>5, <1>6, <1>7, <1>8, <1>9

LEMMA ApartLoadRow ==
    ASSUME Apart, EnrollmentInv, ApartInv, NEW h \in Handlers, LoadRow(h)
    PROVE  ApartInv' /\ UNCHANGED Promise!promiseVars
<1> USE DEF SecondCommit, LinkClosing
<1>1. /\ UNCHANGED quiet
      /\ requests[h].op \in {"delete", "restore"} /\ requests[h].at = "lookup"
  BY DEF LoadRow, quiet
<1>2. CASE ~employees[Emp(h)].exists
  BY <1>1, <1>2, ApartReply DEF LoadRow
<1>3. CASE employees[Emp(h)].exists
  <2>1. requests' = [requests EXCEPT ![h].at = "write",
                                     ![h].loaded = employees[Emp(h)]]
        /\ requests \in [Handlers -> Request]
    BY <1>3 DEF LoadRow, EnrollmentInv, TypeOK
  <2>2. /\ requests'[h].op = requests[h].op /\ requests'[h].at = "write"
        /\ requests'[h].employee = Emp(h) /\ requests'[h].token = Tok(h)
        /\ requests'[h].loaded = employees[Emp(h)]
    BY <2>1 DEF Request, Emp, Tok
  <2>3. Found(h)'
    BY <1>1, <1>3, <2>2 DEF Found, Embedding, quiet, Emp
  <2>4. QED
    BY <1>1, <2>1, <2>2, <2>3, ApartWentOn
<1>4. QED
  BY <1>2, <1>3

LEMMA ApartLoadSession ==
    ASSUME Apart, EnrollmentInv, ApartInv, NEW h \in Handlers, LoadSession(h)
    PROVE  ApartInv' /\ UNCHANGED Promise!promiseVars
<1> USE DEF SecondCommit, LinkClosing
<1>1. /\ UNCHANGED quiet /\ requests[h].at = "session"
      /\ requests[h].op \in LinkOps
  BY DEF LoadSession, quiet, EnrollmentInv, RequestInv, RequestOK, Statement,
         Embedding
<1>2. CASE Reply(h, 404) \/ Reply(h, 410) \/ Reply(h, 200)
  BY <1>1, <1>2, ApartReply
<1>3. CASE sessions[Tok(h)].status = "pending" /\ Goto(h, "expire")
  <2>1. Move(h, "expire", FALSE) /\ "expire" \in Labels /\ FALSE \in BOOLEAN
    BY <1>3 DEF Goto, Labels
  <2>2. QED
    BY <1>1, <1>3, <2>1, ApartGoto DEF Embedding
<1>4. CASE /\ sessions[Tok(h)].status \in Settled
           /\ requests[h].op = "status" /\ Goto(h, "view")
  <2>1. Move(h, "view", FALSE) /\ "view" \in Labels /\ FALSE \in BOOLEAN
    BY <1>4 DEF Goto, Labels
  <2>2. QED
    BY <1>1, <1>4, <2>1, ApartGoto DEF Embedding
<1>5. CASE /\ sessions[Tok(h)].status = "pending"
           /\ requests' = [requests EXCEPT ![h].at = AfterSession[requests[h].op],
                                           ![h].employee = sessions[Tok(h)].employee]
  <2>1. /\ requests'[h].op = requests[h].op /\ requests'[h].token = Tok(h)
        /\ requests'[h].at \in {"view", "lookup", "revoke"}
    BY <1>1, <1>5 DEF EnrollmentInv, TypeOK, Request, Tok, AfterSession, LinkOps
  <2>2. requests[h].op \notin {"delete", "restore"}
    BY <1>1 DEF LinkOps
  <2>3. Found(h)'
    BY <1>1, <1>5, <2>1, <2>2 DEF Found, Embedding, quiet, Tok
  <2>4. \A g \in Handlers \ {h} : requests'[g] = requests[g]
    BY <1>5 DEF EnrollmentInv, TypeOK
  <2>5. QED
    BY <1>1, <2>1, <2>2, <2>3, <2>4, ApartWentOn
<1>6. QED
  BY <1>2, <1>3, <1>4, <1>5 DEF LoadSession

\* What the mapping reads of a row.
LEMMA StaffOfRow ==
    ASSUME NEW e \in Employees
    PROVE  /\ employees[e] = NoRow => StaffOf(e) = "absent"
           /\ employees[e] = Current => StaffOf(e) = "active"
           /\ employees[e] = Former => StaffOf(e) = "deleted"
           /\ employees'[e] = Current => StaffOf(e)' = "active"
           /\ employees'[e] = Former => StaffOf(e)' = "deleted"
           /\ employees'[e] = employees[e] => StaffOf(e)' = StaffOf(e)
BY DEF StaffOf, NoRow, Current, Former

\* An answered request finds nothing and closes nothing.
LEMMA Answered ==
    ASSUME NEW h \in Handlers, requests'[h] = NoRequest
    PROVE  /\ Found(h)'
           /\ \A e : ~Dismissing(h, e)'
           /\ \A t : ~Closing(h, t)'
BY DEF Found, Dismissing, Closing, NoRequest, SecondCommit, LinkClosing, Embedding

LEMMA ApartInsert ==
    ASSUME Apart, EnrollmentInv, ApartInv, NEW h \in Handlers, InsertEmployee(h)
    PROVE  ApartInv' /\ [Promise!PromiseNext]_(Promise!promiseVars)
<1>1. /\ TypeOK /\ RequestOK(h)
      /\ requests[h].op = "create" /\ requests[h].at = "insert"
      /\ UNCHANGED <<clock, embeddings, sessions, enrolled>>
  BY DEF EnrollmentInv, RequestInv, InsertEmployee, At
<1>2. Emp(h) \in Employees
  BY <1>1 DEF RequestOK, EmployeeOps
<1>3. CASE employees[Emp(h)].exists
  <2>1. Reply(h, 500) /\ UNCHANGED quiet
    BY <1>1, <1>3 DEF InsertEmployee, quiet
  <2>2. QED
    BY <1>1, <2>1, ApartReply DEF SecondCommit, LinkClosing
<1>4. CASE ~employees[Emp(h)].exists
  <2>1. Reply(h, 201) /\ employees' = [employees EXCEPT ![Emp(h)] = Current]
    BY <1>4 DEF InsertEmployee, Current
  <2>2. \A g \in Handlers : requests'[g] = IF g = h THEN NoRequest ELSE requests[g]
    BY <1>1, <2>1, ReplyMoves
  <2>3. \A e \in Employees :
            employees'[e] = IF e = Emp(h) THEN Current ELSE employees[e]
    BY <1>1, <2>1 DEF TypeOK
  <2>4. Confined(h)
    BY <1>1, <2>2, <2>3, Answered DEF Confined
  <2>5. employees[Emp(h)] = NoRow
    BY <1>2, <1>4 DEF ApartInv, RowsInv, Current, Former
  <2>6. \A e \in Employees : e = Emp(h) =>
            /\ employees'[e] \in {NoRow, Current, Former}
            /\ embeddings'[e] # "none"
                 => employees'[e].active \/ Dismissing(h, e)' \/ Faulty
    BY <2>3 DEF Current
  <2>7. /\ ApartInv'
        /\ \A e \in Employees : FaceOf(e)' = FaceOf(e)
        /\ \A t \in Tokens : LinkOf(t)' = LinkOf(t)
    <3>1. /\ \A e : ~Dismissing(h, e)
          /\ \A t : ~Closing(h, t)
      BY <1>1 DEF Dismissing, Closing, SecondCommit, LinkClosing
    <3>2. QED
      BY <1>1, <2>2, <2>4, <2>6, <3>1, Answered, OwnStep
  <2>8. /\ StaffOf(Emp(h)) = "absent"
        /\ \A e \in Employees :
              StaffOf(e)' = IF e = Emp(h) THEN "active" ELSE StaffOf(e)
    BY <1>2, <2>3, <2>5, StaffOfRow
  <2>9. Promise!Hire(Emp(h))
    BY <1>1, <1>2, <2>7, <2>8 DEF Promise!Hire
  <2>10. QED
    BY <1>2, <2>7, <2>9 DEF Promise!PromiseNext
<1>5. QED
  BY <1>3, <1>4

LEMMA ApartDeactivate ==
    ASSUME Apart, EnrollmentInv, ApartInv, NEW h \in Handlers, Deactivate(h)
    PROVE  ApartInv' /\ [Promise!PromiseNext]_(Promise!promiseVars)
<1>1. /\ TypeOK /\ RequestOK(h) /\ Found(h)
      /\ requests[h].op = "delete" /\ requests[h].at = "write"
      /\ UNCHANGED <<clock, embeddings, sessions, enrolled>>
      /\ Goto(h, "findEmbedding")
  BY DEF EnrollmentInv, RequestInv, ApartInv, Deactivate, At
<1>2. Emp(h) \in Employees
  BY <1>1 DEF RequestOK, EmployeeOps
<1>3. /\ employees[Emp(h)] \in {Current, Former}
      /\ requests[h].loaded = employees[Emp(h)]
  BY <1>1, <1>2 DEF Found, ApartInv, RowsInv, NoRow
<1>4. \A e \in Employees :
          employees'[e] = IF e = Emp(h) THEN Former ELSE employees[e]
  <2> DEFINE row == [employees[Emp(h)] EXCEPT
                       !.active = IF requests[h].loaded.active THEN FALSE ELSE @,
                       !.deleted = TRUE]
  <2>1. row = Former
    <3> DEFINE old == employees[Emp(h)]
               active == IF requests[h].loaded.active THEN FALSE
                             ELSE employees[Emp(h)].active
               deleted == TRUE
    <3>1. old \in Row
      BY <1>1, <1>2 DEF TypeOK
    <3>2. active = FALSE /\ deleted = TRUE /\ old.exists
      BY <1>3 DEF Current, Former
    <3>3. row = [old EXCEPT !.active = active, !.deleted = deleted]
      OBVIOUS
    <3> HIDE DEF row, old, active, deleted
    <3>4. QED
      BY <3>1, <3>2, <3>3 DEF Row, Former
  <2>2. employees' = [employees EXCEPT ![Emp(h)] = row]
    BY <1>1, <1>2 DEF Deactivate, TypeOK, Row
  <2>3. QED
    BY <1>1, <2>1, <2>2 DEF TypeOK
<1>5. MovedTo(h, "findEmbedding")
      /\ \A g \in Handlers \ {h} : requests'[g] = requests[g]
  BY <1>1, GotoMoves DEF Labels
<1>6. /\ \A e : ~Dismissing(h, e) /\ (Dismissing(h, e)' <=> e = Emp(h))
      /\ \A t : ~Closing(h, t) /\ ~Closing(h, t)'
  BY <1>1, <1>5
     DEF MovedTo, Dismissing, Closing, SecondCommit, LinkClosing, Emp
<1>7. Confined(h)
  BY <1>1, <1>4, <1>5, <1>6 DEF Confined
<1>8. Found(h)'
  BY <1>1, <1>2, <1>4, <1>5
     DEF Found, MovedTo, SecondCommit, LinkClosing, Embedding, Emp
<1>9. /\ ApartInv'
      /\ \A e \in Employees : FaceOf(e)' = IF e = Emp(h) THEN "none" ELSE FaceOf(e)
      /\ \A t \in Tokens : LinkOf(t)' = LinkOf(t)
  BY <1>1, <1>4, <1>6, <1>7, <1>8, OwnStep
<1>10. /\ StaffOf(Emp(h)) # "absent"
       /\ \A e \in Employees :
             StaffOf(e)' = IF e = Emp(h) THEN "deleted" ELSE StaffOf(e)
  BY <1>2, <1>3, <1>4, StaffOfRow
<1>11. Promise!Dismiss(Emp(h))
  BY <1>1, <1>2, <1>9, <1>10 DEF Promise!Dismiss
<1>12. QED
  BY <1>2, <1>9, <1>11 DEF Promise!PromiseNext

LEMMA ReactivatedRow ==
    ASSUME EnrollmentInv, ApartInv, NEW h \in Handlers, Reactivate(h)
    PROVE  /\ Emp(h) \in Employees
           /\ employees[Emp(h)] \in {Current, Former}
           /\ \A e \in Employees :
                 employees'[e] = IF e = Emp(h) THEN Current ELSE employees[e]
<1>1. /\ TypeOK /\ RequestOK(h) /\ Found(h)
      /\ requests[h].op = "restore" /\ requests[h].at = "write"
  BY DEF EnrollmentInv, RequestInv, ApartInv, Reactivate, At
<1>2. Emp(h) \in Employees
  BY <1>1 DEF RequestOK, EmployeeOps
<1>3. /\ employees[Emp(h)] \in {Current, Former}
      /\ requests[h].loaded = employees[Emp(h)]
  BY <1>1, <1>2 DEF Found, ApartInv, RowsInv, NoRow
<1>4. \A e \in Employees :
          employees'[e] = IF e = Emp(h) THEN Current ELSE employees[e]
  <2> DEFINE row == [employees[Emp(h)] EXCEPT
                       !.active = IF requests[h].loaded.active THEN @ ELSE TRUE,
                       !.deleted = IF requests[h].loaded.deleted THEN FALSE ELSE @]
  <2>1. row = Current
    <3> DEFINE old == employees[Emp(h)]
               active == IF requests[h].loaded.active
                            THEN employees[Emp(h)].active ELSE TRUE
               deleted == IF requests[h].loaded.deleted
                             THEN FALSE ELSE employees[Emp(h)].deleted
    <3>1. old \in Row
      BY <1>1, <1>2 DEF TypeOK
    <3>2. active = TRUE /\ deleted = FALSE /\ old.exists
      BY <1>3 DEF Current, Former
    <3>3. row = [old EXCEPT !.active = active, !.deleted = deleted]
      OBVIOUS
    <3> HIDE DEF row, old, active, deleted
    <3>4. QED
      BY <3>1, <3>2, <3>3 DEF Row, Current
  <2>2. employees' = [employees EXCEPT ![Emp(h)] = row]
    BY <1>1, <1>2 DEF Reactivate, TypeOK, Row
  <2>3. QED
    BY <1>1, <2>1, <2>2 DEF TypeOK
<1>5. QED
  BY <1>2, <1>3, <1>4

LEMMA ApartReactivate ==
    ASSUME Apart, EnrollmentInv, ApartInv, NEW h \in Handlers, Reactivate(h)
    PROVE  ApartInv' /\ [Promise!PromiseNext]_(Promise!promiseVars)
<1>1. /\ TypeOK
      /\ requests[h].op = "restore" /\ requests[h].at = "write"
      /\ UNCHANGED <<clock, embeddings, sessions, enrolled>>
      /\ Reply(h, 200)
  BY DEF EnrollmentInv, Reactivate, At
<1>2. Emp(h) \in Employees
  BY ReactivatedRow
<1>3. employees[Emp(h)] \in {Current, Former}
  BY ReactivatedRow
<1>4. \A e \in Employees :
          employees'[e] = IF e = Emp(h) THEN Current ELSE employees[e]
  BY ReactivatedRow
<1>5. \A g \in Handlers : requests'[g] = IF g = h THEN NoRequest ELSE requests[g]
  BY <1>1, ReplyMoves
<1>6. /\ \A e : ~Dismissing(h, e)
      /\ \A t : ~Closing(h, t)
  BY <1>1 DEF Dismissing, Closing, SecondCommit, LinkClosing
<1>7. Confined(h)
  BY <1>1, <1>4, <1>5, Answered DEF Confined
<1>8. \A e \in Employees : e = Emp(h) =>
          /\ employees'[e] \in {NoRow, Current, Former}
          /\ embeddings'[e] # "none"
               => employees'[e].active \/ Dismissing(h, e)' \/ Faulty
  BY <1>4 DEF Current
<1>9. /\ ApartInv'
      /\ \A e \in Employees : FaceOf(e)' = FaceOf(e)
      /\ \A t \in Tokens : LinkOf(t)' = LinkOf(t)
  BY <1>1, <1>5, <1>6, <1>7, <1>8, Answered, OwnStep
<1>10. \A e \in Employees :
           StaffOf(e)' = IF e = Emp(h) THEN "active" ELSE StaffOf(e)
  BY <1>2, <1>4, StaffOfRow
<1>11. CASE employees[Emp(h)] = Current
  <2>1. \A e \in Employees : StaffOf(e)' = StaffOf(e)
    BY <1>2, <1>10, <1>11, StaffOfRow
  <2>2. QED
    BY <1>1, <1>9, <2>1, MapUnchanged
<1>12. CASE employees[Emp(h)] = Former
  <2>1. StaffOf(Emp(h)) = "deleted"
    BY <1>2, <1>12, StaffOfRow
  <2>2. Promise!Rehire(Emp(h))
    BY <1>1, <1>2, <1>9, <1>10, <2>1 DEF Promise!Rehire
  <2>3. QED
    BY <1>2, <1>9, <2>2 DEF Promise!PromiseNext
<1>13. QED
  BY <1>3, <1>11, <1>12

\* The embedding of an employee who counts as dismissed, and has no face,
\* already: the second commit of a delete changes nothing of the promise.
LEMMA ApartDrop ==
    ASSUME Apart, EnrollmentInv, ApartInv, NEW h \in Handlers, DropEmbedding(h)
    PROVE  ApartInv' /\ UNCHANGED Promise!promiseVars
<1>1. /\ TypeOK /\ RequestOK(h) /\ Found(h)
      /\ requests[h].op = "delete" /\ requests[h].at = "dropEmbedding"
      /\ UNCHANGED <<clock, employees, sessions, enrolled>>
  BY DEF EnrollmentInv, RequestInv, ApartInv, DropEmbedding, At
<1>2. Emp(h) \in Employees
  BY <1>1 DEF RequestOK, EmployeeOps
<1>3. /\ embeddings' = [embeddings EXCEPT ![Emp(h)] = "none"]
      /\ requests' = [g \in Handlers |->
           IF g = h THEN NoRequest
           ELSE IF Emp(g) = Emp(h) THEN [requests[g] EXCEPT !.holds = FALSE]
           ELSE requests[g]]
  BY <1>1 DEF Found, DropEmbedding
<1>4. \A g \in Handlers : requests'[g] = IF g = h THEN NoRequest ELSE requests[g]
  BY <1>2, <1>3, TokensAssumption DEF Apart
<1>5. \A e \in Employees :
          embeddings'[e] = IF e = Emp(h) THEN "none" ELSE embeddings[e]
  BY <1>1, <1>3 DEF TypeOK
<1>6. /\ \A e : Dismissing(h, e) <=> e = Emp(h)
      /\ \A t : ~Closing(h, t)
  BY <1>1 DEF Dismissing, Closing, SecondCommit
<1>7. Confined(h)
  BY <1>1, <1>4, <1>5, Answered DEF Confined
<1>8. \A e \in Employees : e = Emp(h) =>
          /\ employees'[e] \in {NoRow, Current, Former}
          /\ embeddings'[e] # "none"
               => employees'[e].active \/ Dismissing(h, e)' \/ Faulty
  BY <1>1, <1>5 DEF ApartInv, RowsInv
<1>9. /\ ApartInv'
      /\ \A e \in Employees : FaceOf(e)' = FaceOf(e)
      /\ \A t \in Tokens : LinkOf(t)' = LinkOf(t)
  BY <1>1, <1>4, <1>5, <1>6, <1>7, <1>8, Answered, OwnStep
<1>10. \A e \in Employees : StaffOf(e)' = StaffOf(e)
  BY <1>1, StaffOfRow
<1>11. QED
  BY <1>1, <1>9, <1>10, MapUnchanged

\* The first commit of a completion stands for the whole of it, the only one
\* of the other enrollments for itself.
LEMMA ApartStored ==
    ASSUME Apart, EnrollmentInv, ApartInv, NEW h \in Handlers, Stored(h),
           requests[h].at \in Embedding,
           UNCHANGED <<clock, employees, sessions>>
    PROVE  ApartInv' /\ [Promise!PromiseNext]_(Promise!promiseVars)
<1>1. TypeOK /\ RequestOK(h) /\ Found(h)
  BY DEF EnrollmentInv, RequestInv, ApartInv
<1>2. /\ requests[h].op \in {"enroll", "samples", "complete"}
      /\ employees[Emp(h)].active
  BY <1>1 DEF RequestOK, Found, Statement, Embedding
<1>3. /\ requests[h].op = "complete" =>
            /\ Tok(h) \in Tokens
            /\ sessions[Tok(h)].status = "pending"
            /\ sessions[Tok(h)].employee = Emp(h)
      /\ Emp(h) \in Employees
  BY <1>1, <1>2
     DEF RequestOK, Found, Embedding, LinkOps, EmployeeOps, EnrollmentInv, TableInv
<1>4. StaffOf(Emp(h)) = "active"
  BY <1>2, <1>3, StaffOfRow DEF ApartInv, RowsInv, NoRow, Former
<1>5. \A e \in Employees : StaffOf(e)' = StaffOf(e)
  BY StaffOfRow
<1>6. \A e \in Employees : e = Emp(h) =>
          employees'[e] \in {NoRow, Current, Former} /\ employees'[e].active
  BY <1>2 DEF ApartInv, RowsInv
<1>7. /\ \A e : ~Dismissing(h, e)
      /\ \A t : ~Closing(h, t)
  BY DEF Dismissing, Closing, SecondCommit, LinkClosing, Embedding
<1>8. CASE requests[h].op = "complete"
  <2>1. /\ embeddings' = [embeddings EXCEPT ![Emp(h)] = Tok(h)]
        /\ Goto(h, "recheck")
    BY <1>8 DEF Stored
  <2>2. MovedTo(h, "recheck")
        /\ \A g \in Handlers \ {h} : requests'[g] = requests[g]
    BY <1>1, <2>1, GotoMoves DEF Labels
  <2>3. \A e \in Employees :
            embeddings'[e] = IF e = Emp(h) THEN Tok(h) ELSE embeddings[e]
    BY <1>1, <2>1 DEF TypeOK
  <2>4. /\ \A e : ~Dismissing(h, e)'
        /\ \A t : Closing(h, t)' <=> t = Tok(h)
    BY <1>8, <2>2
       DEF MovedTo, Dismissing, Closing, SecondCommit, LinkClosing, Tok
  <2>5. Found(h)'
    BY <1>1, <1>2, <1>3, <1>8, <2>2, <2>3
       DEF Found, MovedTo, SecondCommit, Embedding, Emp, Tok
  <2>6. Confined(h)
    BY <2>2, <2>3, <2>4 DEF Confined
  <2>7. /\ ApartInv'
        /\ \A e \in Employees :
              FaceOf(e)' = IF e = Emp(h) THEN Tok(h) ELSE FaceOf(e)
        /\ LinkOf(Tok(h)) = sessions[Tok(h)]
        /\ \A t \in Tokens :
              LinkOf(t)' = IF t = Tok(h)
                           THEN [sessions[t] EXCEPT !.status = "completed"]
                           ELSE LinkOf(t)
    BY <1>3, <1>6, <1>7, <1>8, <2>3, <2>4, <2>5, <2>6, OwnStep
  <2>8. Promise!Complete(Tok(h))
    BY <1>3, <1>4, <1>5, <1>8, <2>7 DEF Promise!Complete
  <2>9. QED
    BY <1>3, <1>8, <2>7, <2>8 DEF Promise!PromiseNext
<1>9. CASE requests[h].op \in {"enroll", "samples"}
  <2>1. /\ embeddings' = [embeddings EXCEPT ![Emp(h)] = requests[h].op]
        /\ Reply(h, 200)
    BY <1>9 DEF Stored
  <2>2. \A g \in Handlers : requests'[g] = IF g = h THEN NoRequest ELSE requests[g]
    BY <1>1, <2>1, ReplyMoves
  <2>3. \A e \in Employees :
            embeddings'[e] = IF e = Emp(h) THEN requests[h].op ELSE embeddings[e]
    BY <1>1, <2>1 DEF TypeOK
  <2>4. Confined(h)
    BY <2>2, <2>3, Answered DEF Confined
  <2>5. /\ ApartInv'
        /\ \A e \in Employees :
              FaceOf(e)' = IF e = Emp(h) THEN requests[h].op ELSE FaceOf(e)
        /\ \A t \in Tokens : LinkOf(t)' = LinkOf(t)
    BY <1>6, <1>7, <2>2, <2>3, <2>4, Answered, OwnStep
  <2>6. Promise!Enroll(Emp(h), requests[h].op)
    BY <1>3, <1>4, <1>5, <1>9, <2>5 DEF Promise!Enroll
  <2>7. QED
    BY <1>3, <1>9, <2>5, <2>6 DEF Promise!PromiseNext
<1>10. QED
  BY <1>2, <1>8, <1>9

LEMMA ApartStore ==
    ASSUME Apart, EnrollmentInv, ApartInv, NEW h \in Handlers,
           InsertEmbedding(h) \/ ReplaceEmbedding(h)
    PROVE  ApartInv' /\ [Promise!PromiseNext]_(Promise!promiseVars)
<1>1. /\ requests[h].at \in Embedding
      /\ UNCHANGED <<clock, employees, sessions>>
      /\ Stored(h) \/ (Reply(h, 500) /\ UNCHANGED <<embeddings, enrolled>>)
  BY DEF InsertEmbedding, ReplaceEmbedding, Embedding
<1>2. CASE Reply(h, 500) /\ UNCHANGED <<embeddings, enrolled>>
  BY <1>1, <1>2, ApartReply DEF quiet, Embedding, SecondCommit, LinkClosing
<1>3. QED
  BY <1>1, <1>2, ApartStored

\* A step that writes the state of one link, and answers or goes on.
LEMMA LinkWritten ==
    ASSUME Apart, EnrollmentInv, ApartInv, NEW h \in Handlers, NEW link,
           \A g \in Handlers \ {h} : requests'[g] = requests[g],
           Tok(h) \in Tokens,
           sessions' = [sessions EXCEPT ![Tok(h)] = link],
           UNCHANGED <<employees, embeddings>>,
           Found(h)',
           \A e \in Employees : ~Dismissing(h, e) /\ ~Dismissing(h, e)',
           \A t \in Tokens : ~Closing(h, t)'
    PROVE  /\ ApartInv'
           /\ \A e \in Employees : UNCHANGED <<StaffOf(e), FaceOf(e)>>
           /\ \A t \in Tokens : LinkOf(t)' = IF t = Tok(h) THEN link ELSE LinkOf(t)
           /\ LinkOf(Tok(h)) = IF Closing(h, Tok(h))
                               THEN [sessions[Tok(h)] EXCEPT !.status = "completed"]
                               ELSE sessions[Tok(h)]
<1>1. \A t \in Tokens : sessions'[t] = IF t = Tok(h) THEN link ELSE sessions[t]
  BY DEF EnrollmentInv, TypeOK
<1>2. Confined(h)
  BY <1>1 DEF Confined
<1>3. \A e \in Employees : e = Emp(h) =>
          /\ employees'[e] \in {NoRow, Current, Former}
          /\ embeddings'[e] # "none"
               => employees'[e].active \/ Dismissing(h, e)' \/ Faulty
  BY OwnMarks DEF ApartInv, RowsInv
<1>4. \A e \in Employees : StaffOf(e)' = StaffOf(e)
  BY StaffOfRow
<1>5. QED
  BY <1>1, <1>2, <1>3, <1>4, OwnStep

LEMMA ApartIssue ==
    ASSUME Apart, EnrollmentInv, ApartInv, NEW h \in Handlers, IssueLink(h)
    PROVE  ApartInv' /\ [Promise!PromiseNext]_(Promise!promiseVars)
<1> DEFINE link == [status |-> "pending", employee |-> Emp(h),
                    expiresAt |-> clock + SessionTTL]
<1>1. /\ TypeOK /\ RequestOK(h) /\ Found(h)
      /\ requests[h].op = "issue" /\ requests[h].at = "issue"
      /\ UNCHANGED <<clock, employees, embeddings, enrolled>>
      /\ Reply(h, 201)
      /\ sessions' = [sessions EXCEPT ![Tok(h)] = link]
  BY DEF EnrollmentInv, RequestInv, ApartInv, IssueLink, At
<1>2. /\ Emp(h) \in Employees /\ Tok(h) \in Tokens
      /\ sessions[Tok(h)].status = "none"
      /\ employees[Emp(h)].active
  BY <1>1 DEF RequestOK, Found, EmployeeOps
<1>3. \A g \in Handlers : requests'[g] = IF g = h THEN NoRequest ELSE requests[g]
  BY <1>1, ReplyMoves
<1>4. /\ \A e : ~Dismissing(h, e)
      /\ \A t : ~Closing(h, t)
  BY <1>1 DEF Dismissing, Closing
<1>5. /\ ApartInv'
      /\ \A e \in Employees : UNCHANGED <<StaffOf(e), FaceOf(e)>>
      /\ \A t \in Tokens : LinkOf(t)' = IF t = Tok(h) THEN link ELSE LinkOf(t)
      /\ LinkOf(Tok(h)) = sessions[Tok(h)]
  <2> HIDE DEF link
  <2>1. QED
    BY <1>1, <1>2, <1>3, <1>4, Answered, LinkWritten
<1>6. StaffOf(Emp(h)) = "active"
  BY <1>2, StaffOfRow DEF ApartInv, RowsInv, NoRow, Former
<1>7. Promise!Issue(Tok(h), Emp(h))
  BY <1>1, <1>2, <1>5, <1>6 DEF Promise!Issue
<1>8. QED
  BY <1>2, <1>5, <1>7 DEF Promise!PromiseNext

LEMMA ApartRevoke ==
    ASSUME Apart, EnrollmentInv, ApartInv, NEW h \in Handlers, RevokeLink(h)
    PROVE  ApartInv' /\ [Promise!PromiseNext]_(Promise!promiseVars)
<1> DEFINE link == [sessions[Tok(h)] EXCEPT !.status = "revoked"]
<1>1. /\ TypeOK /\ RequestOK(h) /\ Found(h)
      /\ requests[h].op = "revoke" /\ requests[h].at = "revoke"
      /\ UNCHANGED <<clock, employees, embeddings, enrolled>>
      /\ Reply(h, 200)
      /\ sessions' = [sessions EXCEPT ![Tok(h)].status = "revoked"]
  BY DEF EnrollmentInv, RequestInv, ApartInv, RevokeLink, At
<1>2. Tok(h) \in Tokens /\ sessions[Tok(h)].status = "pending"
  BY <1>1 DEF RequestOK, Found, LinkOps
<1>3. \A g \in Handlers : requests'[g] = IF g = h THEN NoRequest ELSE requests[g]
  BY <1>1, ReplyMoves
<1>4. /\ \A e : ~Dismissing(h, e)
      /\ \A t : ~Closing(h, t)
  BY <1>1 DEF Dismissing, Closing
<1>5. /\ ApartInv'
      /\ \A e \in Employees : UNCHANGED <<StaffOf(e), FaceOf(e)>>
      /\ \A t \in Tokens : LinkOf(t)' = IF t = Tok(h) THEN link ELSE LinkOf(t)
      /\ LinkOf(Tok(h)) = sessions[Tok(h)]
  BY <1>1, <1>2, <1>3, <1>4, Answered, LinkWritten
<1>6. Promise!Settle(Tok(h))
  BY <1>1, <1>2, <1>5 DEF Promise!Settle
<1>7. QED
  BY <1>2, <1>5, <1>6 DEF Promise!PromiseNext

LEMMA ApartConsume ==
    ASSUME Apart, EnrollmentInv, ApartInv, NEW h \in Handlers, ConsumeLink(h)
    PROVE  ApartInv' /\ UNCHANGED Promise!promiseVars
<1> DEFINE link == [sessions[Tok(h)] EXCEPT !.status = "completed"]
<1>1. /\ TypeOK /\ RequestOK(h)
      /\ requests[h].op = "complete" /\ requests[h].at = "consume"
      /\ UNCHANGED <<clock, employees, embeddings, enrolled>>
      /\ Reply(h, 200)
      /\ sessions' = [sessions EXCEPT ![Tok(h)].status = "completed"]
  BY DEF EnrollmentInv, RequestInv, ConsumeLink, At
<1>2. Tok(h) \in Tokens
  BY <1>1 DEF RequestOK, LinkOps
<1>3. \A g \in Handlers : requests'[g] = IF g = h THEN NoRequest ELSE requests[g]
  BY <1>1, ReplyMoves
<1>4. /\ \A e : ~Dismissing(h, e)
      /\ Closing(h, Tok(h))
  BY <1>1 DEF Dismissing, Closing, LinkClosing
<1>5. /\ ApartInv'
      /\ \A e \in Employees : UNCHANGED <<StaffOf(e), FaceOf(e)>>
      /\ \A t \in Tokens : LinkOf(t)' = IF t = Tok(h) THEN link ELSE LinkOf(t)
      /\ LinkOf(Tok(h)) = link
  BY <1>1, <1>2, <1>3, <1>4, Answered, LinkWritten
<1>6. QED
  BY <1>1, <1>5, MapUnchanged

\* A status request that finds its link overdue shows it afterwards.
LEMMA ApartExpire ==
    ASSUME Apart, EnrollmentInv, ApartInv, NEW h \in Handlers, ExpireLink(h)
    PROVE  ApartInv' /\ [Promise!PromiseNext]_(Promise!promiseVars)
<1> DEFINE link == [sessions[Tok(h)] EXCEPT !.status = "expired"]
<1>1. /\ TypeOK /\ RequestOK(h) /\ Found(h)
      /\ requests[h].at = "expire"
      /\ UNCHANGED <<clock, employees, embeddings, enrolled>>
      /\ sessions' = [sessions EXCEPT ![Tok(h)].status = "expired"]
      /\ \/ requests[h].op = "status" /\ Goto(h, "view")
         \/ Reply(h, 410) \/ Reply(h, 200)
  BY DEF EnrollmentInv, RequestInv, ApartInv, ExpireLink
<1>2. /\ Tok(h) \in Tokens /\ Expired(Tok(h))
      /\ sessions[Tok(h)].status = "pending"
  BY <1>1 DEF RequestOK, Found, Statement, Embedding, LinkOps
<1>3. /\ \A e : ~Dismissing(h, e)
      /\ \A t : ~Closing(h, t)
  BY <1>1 DEF Dismissing, Closing, SecondCommit, LinkClosing
<1>4. /\ \A g \in Handlers \ {h} : requests'[g] = requests[g]
      /\ Found(h)'
      /\ \A e : ~Dismissing(h, e)'
      /\ \A t : ~Closing(h, t)'
  <2>1. CASE Reply(h, 410) \/ Reply(h, 200)
    BY <1>1, <2>1, ReplyMoves, Answered
  <2>2. CASE requests[h].op = "status" /\ Goto(h, "view")
    <3>1. MovedTo(h, "view")
          /\ \A g \in Handlers \ {h} : requests'[g] = requests[g]
      BY <1>1, <2>2, GotoMoves DEF Labels
    <3>2. QED
      BY <2>2, <3>1
         DEF MovedTo, Found, Dismissing, Closing, SecondCommit, LinkClosing, Embedding
  <2>3. QED
    BY <1>1, <2>1, <2>2
<1>5. /\ ApartInv'
      /\ \A e \in Employees : UNCHANGED <<StaffOf(e), FaceOf(e)>>
      /\ \A t \in Tokens : LinkOf(t)' = IF t = Tok(h) THEN link ELSE LinkOf(t)
      /\ LinkOf(Tok(h)) = sessions[Tok(h)]
  BY <1>1, <1>2, <1>3, <1>4, LinkWritten
<1>6. Promise!Settle(Tok(h))
  BY <1>1, <1>2, <1>5 DEF Promise!Settle, Promise!Overdue, Expired
<1>7. QED
  BY <1>2, <1>5, <1>6 DEF Promise!PromiseNext

LEMMA ApartTick ==
    ASSUME ApartInv, Tick
    PROVE  ApartInv' /\ [Promise!PromiseNext]_(Promise!promiseVars)
<1>1. /\ clock < MaxTime /\ clock' = clock + 1
      /\ UNCHANGED <<employees, embeddings, sessions, requests>>
  BY DEF Tick
<1>2. /\ \A e \in Employees : Deleting(e)' <=> Deleting(e)
      /\ \A t \in Tokens : Consuming(t)' <=> Consuming(t)
  BY <1>1 DEF Deleting, Consuming
<1>3. ApartInv'
  BY <1>1, <1>2 DEF ApartInv, RowsInv, Found, Emp, Tok
<1>4. /\ \A e \in Employees : UNCHANGED <<StaffOf(e), FaceOf(e)>>
      /\ \A t \in Tokens : UNCHANGED LinkOf(t)
  BY <1>1, <1>2 DEF StaffOf, FaceOf, LinkOf
<1>5. Promise!TimePasses
  BY <1>1, <1>4 DEF Promise!TimePasses
<1>6. QED
  BY <1>3, <1>5 DEF Promise!PromiseNext

LEMMA ApartInit == Init => ApartInv /\ Promise!PromiseInit
<1> SUFFICES ASSUME Init
             PROVE  ApartInv /\ Promise!PromiseInit
  OBVIOUS
<1>1. ApartInv
  BY DEF Init, ApartInv, RowsInv, Found, NoRequest, SecondCommit, LinkClosing, Embedding
<1>2. /\ \A e \in Employees : ~Deleting(e)
      /\ \A t \in Tokens : ~Consuming(t)
  BY DEF Init, NoRequest, Deleting, Consuming
<1>3. /\ \A e \in Employees : StaffOf(e) = "absent" /\ FaceOf(e) = "none"
      /\ \A t \in Tokens : LinkOf(t) = NoSession
  BY <1>2 DEF Init, StaffOf, NoRow, FaceOf, LinkOf
<1>4. Promise!PromiseInit
  BY <1>3 DEF Init, Promise!PromiseInit, Promise!NoLink, NoSession
<1>5. QED
  BY <1>1, <1>4

\* A request that fails or dies leaves the tables as they are, and none of its
\* own to be found; what its first commit did stays.
LEMMA ApartFails ==
    ASSUME Apart, EnrollmentInv, ApartInv, NEW h \in Handlers, Fail(h) \/ Crash(h)
    PROVE  ApartInv'
<1>1. /\ Faulty /\ UNCHANGED <<employees, embeddings, sessions>>
      /\ \A g \in Handlers : requests'[g] = IF g = h THEN NoRequest ELSE requests[g]
  BY DEF Fail, Crash, Reply, EnrollmentInv, TypeOK
<1>2. Confined(h)
  BY <1>1, Answered DEF Confined
<1>3. \A e \in Employees : e = Emp(h) =>
          /\ employees'[e] \in {NoRow, Current, Former}
          /\ embeddings'[e] # "none"
               => employees'[e].active \/ Dismissing(h, e)' \/ Faulty
  BY <1>1 DEF ApartInv, RowsInv
<1>4. QED
  BY <1>1, <1>2, <1>3, Answered, OwnStep

\* Every step of requests that do not meet, and do not fail, is one step of the
\* promise or none.
LEMMA ApartStep ==
    ASSUME Apart, EnrollmentInv, ApartInv, [Next]_vars
    PROVE  ApartInv' /\ (~Faulty => [Promise!PromiseNext]_(Promise!promiseVars))
<1>1. CASE Tick
  BY <1>1, ApartTick
<1>2. ASSUME NEW h \in Handlers, Receive(h) \/ BlankName(h)
      PROVE  ApartInv' /\ [Promise!PromiseNext]_(Promise!promiseVars)
  BY <1>2, ApartReceive, ApartReads
<1>3. ASSUME NEW h \in Handlers, EmployeeStep(h)
      PROVE  ApartInv' /\ [Promise!PromiseNext]_(Promise!promiseVars)
  BY <1>3, ApartReads, ApartLoadRow, ApartInsert, ApartDeactivate,
     ApartReactivate, ApartDrop DEF EmployeeStep
<1>4. ASSUME NEW h \in Handlers, EnrollStep(h)
      PROVE  ApartInv' /\ [Promise!PromiseNext]_(Promise!promiseVars)
  BY <1>4, ApartReads, ApartStore DEF EnrollStep
<1>5. ASSUME NEW h \in Handlers, LinkStep(h)
      PROVE  ApartInv' /\ [Promise!PromiseNext]_(Promise!promiseVars)
  BY <1>5, ApartReads, ApartLoadSession, ApartIssue, ApartExpire,
     ApartRevoke, ApartConsume DEF LinkStep
<1>6. ASSUME NEW h \in Handlers, Fail(h) \/ Crash(h)
      PROVE  ApartInv' /\ Faulty
  BY <1>6, ApartFails DEF Fail, Crash
<1>7. CASE UNCHANGED vars
  <2>1. UNCHANGED <<clock, employees, embeddings, sessions, requests>>
    BY <1>7 DEF vars
  <2>2. /\ \A e \in Employees : Deleting(e)' <=> Deleting(e)
        /\ \A t \in Tokens : Consuming(t)' <=> Consuming(t)
    BY <2>1 DEF Deleting, Consuming
  <2>3. ApartInv'
    BY <2>1, <2>2 DEF ApartInv, RowsInv, Found, Emp, Tok
  <2>4. /\ \A e \in Employees : UNCHANGED <<StaffOf(e), FaceOf(e)>>
        /\ \A t \in Tokens : UNCHANGED LinkOf(t)
    BY <2>1, <2>2 DEF StaffOf, FaceOf, LinkOf
  <2>5. QED
    BY <2>1, <2>3, <2>4, MapUnchanged
<1>8. QED
  BY <1>1, <1>2, <1>3, <1>4, <1>5, <1>6, <1>7 DEF Next, Handle

(***************************************************************************)
(* What a request that answers with success has done, when other requests  *)
(* may have failed before it and other ones are still in progress.         *)
(***************************************************************************)
SuccessIsTrue ==
    LET e == reply.employee
        t == reply.token
    IN  reply.code \in {200, 201} =>
          /\ reply.op \in {"create", "restore"} => employees[e] = Current
          /\ reply.op = "delete" => employees[e] = Former /\ embeddings[e] = "none"
          /\ reply.op \in {"enroll", "samples"} =>
                employees[e] = Current /\ embeddings[e] = reply.op
          /\ reply.op = "issue" =>
                sessions[t] = [status |-> "pending", employee |-> e,
                               expiresAt |-> clock + SessionTTL]
          /\ reply.op = "complete" =>
                /\ sessions[t].status = "completed" /\ sessions[t].employee = e
                /\ employees[e] = Current /\ embeddings[e] = t
          /\ reply.op = "revoke" => sessions[t].status \in Settled

LEMMA NoSuccess ==
    ASSUME \/ reply' = NoReply
           \/ \E h \in Handlers, code \in {400, 404, 409, 410, 500, 503} : Reply(h, code)
    PROVE  SuccessIsTrue'
<1>1. reply'.code \notin {200, 201}
  BY DEF NoReply, Reply, Response
<1>2. QED
  BY <1>1 DEF SuccessIsTrue

LEMMA Responded ==
    ASSUME NEW h, NEW code, Reply(h, code)
    PROVE  /\ reply'.op = requests[h].op /\ reply'.code = code
           /\ reply'.employee = Emp(h) /\ reply'.token = Tok(h)
BY DEF Reply, Response

\* The statements of a request on an employee, one of them its answer.
LEMMA EmployeeSuccess ==
    ASSUME EnrollmentInv, ApartInv, NEW h \in Handlers, EmployeeStep(h)
    PROVE  SuccessIsTrue'
<1>1. TypeOK /\ RequestOK(h) /\ Found(h)
  BY DEF EnrollmentInv, RequestInv, ApartInv
<1>2. CASE CheckDuplicate(h) \/ FindActive(h) \/ LoadRow(h) \/ Deactivate(h)
  <2>1. \/ reply' = NoReply
        \/ Reply(h, 409) \/ Reply(h, 410) \/ Reply(h, 404)
    BY <1>2 DEF CheckDuplicate, FindActive, LoadRow, Deactivate, Goto, Move
  <2>2. QED
    BY <2>1, NoSuccess
<1>3. CASE UpdateRow(h)
  <2>1. Reply(h, 200) /\ requests[h].op = "update"
    BY <1>3 DEF UpdateRow, At
  <2>2. QED
    BY <2>1, Responded DEF SuccessIsTrue
<1>4. CASE InsertEmployee(h)
  <2>1. requests[h].op = "create" /\ Emp(h) \in Employees
    BY <1>1, <1>4 DEF InsertEmployee, At, RequestOK, EmployeeOps
  <2>2. CASE Reply(h, 500)
    BY <2>2, NoSuccess
  <2>3. CASE /\ employees' = [employees EXCEPT ![Emp(h)] = Current]
             /\ Reply(h, 201)
    <3>1. employees'[Emp(h)] = Current
      BY <1>1, <2>1, <2>3 DEF TypeOK
    <3>2. QED
      BY <2>1, <2>3, <3>1, Responded DEF SuccessIsTrue
  <2>4. QED
    BY <1>4, <2>2, <2>3 DEF InsertEmployee, Current
<1>5. CASE Reactivate(h)
  <2>1. Reply(h, 200) /\ requests[h].op = "restore"
    BY <1>5 DEF Reactivate, At
  <2>2. employees'[Emp(h)] = Current
    BY <1>5, ReactivatedRow
  <2>3. QED
    BY <2>1, <2>2, Responded DEF SuccessIsTrue
<1>6. CASE FindEmbedding(h) \/ DropEmbedding(h)
  <2>1. /\ requests[h].op = "delete" /\ Emp(h) \in Employees
        /\ employees'[Emp(h)] = Former
    BY <1>1, <1>6
       DEF FindEmbedding, DropEmbedding, At, Found, SecondCommit, RequestOK, EmployeeOps
  <2>2. \/ reply' = NoReply
        \/ /\ embeddings'[Emp(h)] = "none"
           /\ reply' = Response(h, 200)
    BY <1>1, <1>6, <2>1
       DEF FindEmbedding, DropEmbedding, At, Move, Found, TypeOK, Reply
  <2>3. CASE embeddings'[Emp(h)] = "none" /\ reply' = Response(h, 200)
    <3>1. /\ reply'.op = "delete" /\ reply'.employee = Emp(h)
      BY <2>1, <2>3 DEF Response
    <3>2. QED
      BY <2>1, <2>3, <3>1 DEF SuccessIsTrue
  <2>4. QED
    BY <2>2, <2>3, NoSuccess
<1>7. QED
  BY <1>2, <1>3, <1>4, <1>5, <1>6 DEF EmployeeStep

LEMMA EnrollSuccess ==
    ASSUME EnrollmentInv, ApartInv, NEW h \in Handlers, EnrollStep(h)
    PROVE  SuccessIsTrue'
<1>1. TypeOK /\ RequestOK(h) /\ Found(h)
  BY DEF EnrollmentInv, RequestInv, ApartInv
<1>2. CASE \/ reply' = NoReply
           \/ Reply(h, 400) \/ Reply(h, 503) \/ Reply(h, 500)
  BY <1>2, NoSuccess
<1>3. CASE /\ requests[h].at \in Embedding /\ requests[h].op # "complete"
           /\ embeddings' = [embeddings EXCEPT ![Emp(h)] = requests[h].op]
           /\ employees' = employees
           /\ Reply(h, 200)
  <2>1. /\ requests[h].op \in {"enroll", "samples"}
        /\ Emp(h) \in Employees /\ employees[Emp(h)].active
    BY <1>1, <1>3 DEF RequestOK, Statement, Embedding, EmployeeOps, Found
  <2>2. employees'[Emp(h)] = Current
    BY <1>3, <2>1 DEF ApartInv, RowsInv, NoRow, Former
  <2>3. embeddings'[Emp(h)] = requests[h].op
    BY <1>1, <1>3, <2>1 DEF TypeOK
  <2>4. QED
    BY <1>3, <2>1, <2>2, <2>3, Responded DEF SuccessIsTrue
<1>4. CASE Capture(h) \/ ChooseWrite(h)
  BY <1>2, <1>4 DEF Capture, ChooseWrite, Goto, Move
<1>5. CASE InsertEmbedding(h) \/ ReplaceEmbedding(h)
  BY <1>2, <1>3, <1>5
     DEF InsertEmbedding, ReplaceEmbedding, Stored, Embedding, Goto, Move
<1>6. QED
  BY <1>4, <1>5 DEF EnrollStep

LEMMA LinkSuccess ==
    ASSUME EnrollmentInv, ApartInv, NEW h \in Handlers, LinkStep(h)
    PROVE  SuccessIsTrue'
<1>1. TypeOK /\ RequestOK(h) /\ Found(h)
  BY DEF EnrollmentInv, RequestInv, ApartInv
<1>2. requests[h].op \in LinkOps \cup {"issue"} => Tok(h) \in Tokens
  BY <1>1 DEF RequestOK
<1>3. CASE reply' = NoReply \/ Reply(h, 404) \/ Reply(h, 410)
  BY <1>3, NoSuccess
<1>4. CASE Reply(h, 200) /\ requests[h].op = "revoke" /\ sessions'[Tok(h)].status \in Settled
  BY <1>4, Responded DEF SuccessIsTrue
<1>5. CASE IssueLink(h)
  <2>1. /\ requests[h].op = "issue" /\ Reply(h, 201) /\ clock' = clock
        /\ sessions' = [sessions EXCEPT ![Tok(h)] =
             [status |-> "pending", employee |-> Emp(h), expiresAt |-> clock + SessionTTL]]
    BY <1>5 DEF IssueLink, At
  <2>2. sessions'[Tok(h)] = [status |-> "pending", employee |-> Emp(h),
                             expiresAt |-> clock + SessionTTL]
    BY <1>1, <1>2, <2>1 DEF TypeOK
  <2>3. QED
    BY <2>1, <2>2, Responded DEF SuccessIsTrue
<1>6. CASE LoadSession(h)
  BY <1>3, <1>4, <1>6 DEF LoadSession, Goto, Move
<1>7. CASE ExpireLink(h)
  <2>1. sessions' = [sessions EXCEPT ![Tok(h)].status = "expired"]
        /\ requests[h].at = "expire"
    BY <1>7 DEF ExpireLink
  <2>2. Tok(h) \in Tokens
    BY <1>1, <1>2, <2>1 DEF RequestOK, Statement, Embedding
  <2>3. sessions'[Tok(h)].status \in Settled
    BY <1>1, <2>1, <2>2 DEF TypeOK, Session, Settled
  <2>4. QED
    BY <1>3, <1>4, <1>7, <2>3 DEF ExpireLink, Goto, Move
<1>8. CASE ViewLink(h)
  <2>1. requests[h].op = "status" /\ (Reply(h, 200) \/ Reply(h, 410))
    BY <1>8 DEF ViewLink, At
  <2>2. QED
    BY <2>1, <1>3, Responded DEF SuccessIsTrue
<1>9. CASE RevokeLink(h)
  <2>1. /\ requests[h].op = "revoke" /\ Reply(h, 200)
        /\ sessions' = [sessions EXCEPT ![Tok(h)].status = "revoked"]
    BY <1>9 DEF RevokeLink, At
  <2>2. sessions'[Tok(h)].status \in Settled
    BY <1>1, <1>2, <2>1 DEF TypeOK, Session, Settled, LinkOps
  <2>3. QED
    BY <1>4, <2>1, <2>2
<1>10. CASE Recheck(h)
  <2>1. reply' = NoReply \/ Reply(h, 410)
    BY <1>10 DEF Recheck, Goto, Move
  <2>2. QED
    BY <1>3, <2>1
<1>11. CASE ConsumeLink(h)
  <2>1. /\ requests[h].op = "complete" /\ requests[h].at = "consume"
        /\ Reply(h, 200)
        /\ sessions' = [sessions EXCEPT ![Tok(h)].status = "completed"]
        /\ UNCHANGED <<employees, embeddings>>
    BY <1>11 DEF ConsumeLink, At
  <2>2. /\ Tok(h) \in Tokens
        /\ Emp(h) = sessions[Tok(h)].employee /\ Emp(h) \in Employees
    BY <1>1, <1>2, <2>1 DEF RequestOK, LinkOps, EnrollmentInv, TableInv
  <2>3. employees'[Emp(h)] = Current /\ embeddings'[Emp(h)] = Tok(h)
    BY <1>1, <2>1, <2>2 DEF Found, LinkClosing, ApartInv, RowsInv, NoRow, Former
  <2>4. /\ sessions'[Tok(h)].status = "completed"
        /\ sessions'[Tok(h)].employee = Emp(h)
    BY <1>1, <2>1, <2>2 DEF TypeOK, Session
  <2>5. QED
    BY <2>1, <2>3, <2>4, Responded DEF SuccessIsTrue
<1>12. QED
  BY <1>5, <1>6, <1>7, <1>8, <1>9, <1>10, <1>11 DEF LinkStep

LEMMA SuccessStep ==
    ASSUME EnrollmentInv, ApartInv, SuccessIsTrue, [Next]_vars
    PROVE  SuccessIsTrue'
<1>1. CASE Tick
  BY <1>1, NoSuccess DEF Tick
<1>2. ASSUME NEW h \in Handlers, Receive(h) \/ BlankName(h) \/ Fail(h) \/ Crash(h)
      PROVE  SuccessIsTrue'
  <2>1. reply' = NoReply \/ Reply(h, 400) \/ Reply(h, 500) \/ Reply(h, 503)
    BY <1>2 DEF Receive, BlankName, Fail, Crash
  <2>2. QED
    BY <2>1, NoSuccess
<1>3. ASSUME NEW h \in Handlers, Handle(h)
      PROVE  SuccessIsTrue'
  BY <1>3, EmployeeSuccess, EnrollSuccess, LinkSuccess DEF Handle
<1>4. CASE UNCHANGED vars
  BY <1>4 DEF vars, SuccessIsTrue
<1>5. QED
  BY <1>1, <1>2, <1>3, <1>4 DEF Next

\* As long as requests in progress work on different employees and links, an
\* answer of success is true and whole, however many requests failed or died
\* before it: who was deleted has no face, who was enrolled or restored is
\* active, a completed link has its face stored.
THEOREM SuccessesAreTrue == Spec /\ []Apart => []SuccessIsTrue
<1>1. EnrollmentInv /\ ApartInv /\ Apart /\ [Next]_vars => ApartInv'
  BY ApartStep
<1>2. EnrollmentInv /\ ApartInv /\ SuccessIsTrue /\ [Next]_vars => SuccessIsTrue'
  BY SuccessStep
<1>3. Init => SuccessIsTrue
  BY DEF Init, NoReply, SuccessIsTrue
<1>4. QED
  BY EnrollmentInvariant, ApartInit, <1>1, <1>2, <1>3, PTL DEF Spec

\* As long as requests in progress work on different employees and links, and
\* none fails, each takes effect as a whole: deleting revokes the face, and
\* completing stores it and uses up the link.
THEOREM ApartKeepsPromise ==
    ASSUME ~Faulty
    PROVE  Spec /\ []Apart => KeepsPromise
<1>1. EnrollmentInv /\ ApartInv /\ Apart /\ [Next]_vars
        => ApartInv' /\ [Promise!PromiseNext]_(Promise!promiseVars)
  BY ApartStep
<1>2. QED
  BY EnrollmentInvariant, ApartInit, <1>1, PTL
     DEF Spec, KeepsPromise, Promise!PromiseSpec

\* Then an employee who is not active has no face when nothing is under way.
THEOREM ApartRevokes ==
    ASSUME ~Faulty
    PROVE  Spec /\ []Apart => []InactiveHasNoFace
<1>1. EnrollmentInv /\ ApartInv /\ Apart /\ [Next]_vars => ApartInv'
  BY ApartStep
<1>2. ApartInv => InactiveHasNoFace
  BY DEF ApartInv, RowsInv, InactiveHasNoFace, Quiet, Deleting
<1>3. QED
  BY EnrollmentInvariant, ApartInit, <1>1, <1>2, PTL DEF Spec

\* One request at a time never meets another.
Alone == \A g, h \in Handlers : g = h

\* Requests that run one at a time and do not fail keep the promise, with any
\* number of employees and links, and of requests one after another.
THEOREM OneAtATimeKeepsPromise ==
    ASSUME Alone, ~Faulty
    PROVE  Spec => KeepsPromise
<1>1. Apart
  BY DEF Alone, Apart
<1>2. QED
  BY <1>1, ApartKeepsPromise, PTL

\* And leave no face of an inactive employee.
THEOREM OneAtATimeRevokes ==
    ASSUME Alone, ~Faulty
    PROVE  Spec => []InactiveHasNoFace
<1>1. Apart
  BY DEF Alone, Apart
<1>2. QED
  BY <1>1, ApartRevokes, PTL
=============================================================================
