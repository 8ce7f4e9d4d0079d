---------------------------- MODULE Recognition -----------------------------
(***************************************************************************)
(* RecognitionService: every scan of a face becomes a snapshot in the      *)
(* object store and a row of the recognition_events table, and is answered *)
(* "granted" or "rejected".                                                *)
(*                                                                         *)
(* The route is a coroutine that never awaits once it has the image, so a  *)
(* replica works on one scan at a time; scans overlap across replicas.     *)
(* Rows carry a dedupe key, employee and time window, under a unique       *)
(* index: inserting a key that another transaction has inserted and not    *)
(* yet committed waits for that transaction to end.                        *)
(*                                                                         *)
(* Whether a request to the recogniser, the database or the object store   *)
(* fails, and whether a circuit breaker refuses it, is left open here; the *)
(* breaker itself is module CircuitBreaker.                                *)
(***************************************************************************)
EXTENDS Integers

CONSTANTS
    Scans,      \* the requests ever received
    Replicas,   \* backend processes
    Employees,  \* codes the vector search may find
    Objects,    \* object names: device and file name
    Window,     \* dedupe_window_seconds
    MaxTime     \* bound: the clock stops here

ASSUME WindowAssumption == Window \in Nat \ {0} /\ MaxTime \in Nat
ASSUME NamesAssumption == "none" \notin Employees \cup Scans

VARIABLES
    clock,      \* time.time(), the same for all replicas
    objects,    \* object store: the scan whose image an object holds
    scans,      \* progress and event columns of each scan
    events      \* recognition_events: the scans whose row is committed

vars == <<clock, objects, scans, events>>

NoBucket == -1
NoScan == [at |-> "new", replica |-> "none", object |-> "none",
           employee |-> "none", bucket |-> NoBucket, code |-> 0]

Init ==
    /\ clock = 0
    /\ objects = [o \in Objects |-> "none"]
    /\ scans = [s \in Scans |-> NoScan]
    /\ events = {}

Working == {"embed", "search", "upload", "key", "insert", "commit"}
InProgress(s) == scans[s].at \in Working

Goto(s, label) == scans' = [scans EXCEPT ![s].at = label]

\* A replica whose scan has ended is free for another one.
Leave(s, label, code) ==
    scans' = [scans EXCEPT ![s] =
        [@ EXCEPT !.at = label, !.code = code, !.replica = "none"]]

Answer(s, code) == Leave(s, "answered", code)

(***************************************************************************)
(* A replica that is free takes up a scan; a device or file name that      *)
(* normalises to nothing is refused.                                       *)
(***************************************************************************)
Start(s, r, o) ==
    /\ scans[s].at = "new"
    /\ \A t \in Scans : InProgress(t) => scans[t].replica # r
    /\ scans' = [scans EXCEPT ![s] =
         [@ EXCEPT !.at = "embed", !.replica = r, !.object = o]]
    /\ UNCHANGED <<clock, objects, events>>

\* No usable face is a 400, a missing or failing recogniser a 503 or a 500.
Embed(s) ==
    /\ scans[s].at = "embed"
    /\ Goto(s, "search") \/ \E code \in {400, 500, 503} : Answer(s, code)
    /\ UNCHANGED <<clock, objects, events>>

\* Defect: the event is written before the snapshot.
SearchThenSave(s) ==
    /\ scans[s].at = "search"
    /\ \E e \in Employees \cup {"none"} :
         scans' = [scans EXCEPT ![s] = [@ EXCEPT !.at = "key", !.employee = e]]
    /\ UNCHANGED <<clock, objects, events>>

\* The nearest stored face, if it is near enough.
SearchSimilarFace(s) ==
    /\ scans[s].at = "search"
    /\ \/ \E e \in Employees \cup {"none"} :
            scans' = [scans EXCEPT ![s] = [@ EXCEPT !.at = "upload", !.employee = e]]
       \/ \E code \in {400, 500, 503} : Answer(s, code)
    /\ UNCHANGED <<clock, objects, events>>

\* The object is written before anything refers to it, over whatever an
\* earlier scan stored under that name.  A failed upload may have happened.
UploadSnapshot(s) ==
    /\ scans[s].at = "upload"
    /\ \/ /\ objects' = [objects EXCEPT ![scans[s].object] = s]
          /\ Goto(s, "key") \/ Answer(s, 500)
       \/ /\ UNCHANGED objects
          /\ \E code \in {400, 500, 503} : Answer(s, code)
    /\ UNCHANGED <<clock, events>>

(***************************************************************************)
(* _save_event.  Only a matched event gets a key: the employee and the     *)
(* number of the window the clock is in.                                   *)
(***************************************************************************)

\* Defect: the time itself serves as the number of the window.
BucketOfTime == clock

Bucket == clock \div Window

\* Defect: matched and unmatched events are mixed up.
BuildKeyOfUnmatched(s) ==
    /\ scans[s].at = "key"
    /\ scans' = [scans EXCEPT ![s] = [@ EXCEPT !.at = "insert"]]
    /\ UNCHANGED <<clock, objects, events>>

BuildDedupeKey(s) ==
    /\ scans[s].at = "key"
    /\ scans' = [scans EXCEPT ![s] =
         [@ EXCEPT !.at = "insert",
                   !.bucket = IF scans[s].employee = "none" THEN NoBucket ELSE Bucket]]
    /\ UNCHANGED <<clock, objects, events>>

SameKey(s, t) ==
    /\ scans[s].bucket # NoBucket
    /\ scans[s].bucket = scans[t].bucket
    /\ scans[s].employee = scans[t].employee

Taken(s) == \E t \in events : SameKey(s, t)
Held(s) == \E t \in Scans \ {s} : scans[t].at = "commit" /\ SameKey(s, t)

\* Defect: a duplicate is tried again with a new key.
FlushUntilWritten(s) ==
    /\ scans[s].at = "insert"
    /\ \/ Taken(s) /\ Goto(s, "key")
       \/ ~Taken(s) /\ ~Held(s) /\ Goto(s, "commit")
    /\ UNCHANGED <<clock, objects, events>>

\* The flush.  A key that is taken is a duplicate, which is not an error: the
\* row is given up and the scan answered as if it had been written.
FlushEvent(s) ==
    /\ scans[s].at = "insert"
    /\ \/ Taken(s) /\ Answer(s, 200)
       \/ ~Taken(s) /\ ~Held(s) /\ Goto(s, "commit")
    /\ UNCHANGED <<clock, objects, events>>

\* Any other error of the flush, at once or while waiting.
FlushFails(s) ==
    /\ scans[s].at = "insert"
    /\ Answer(s, 500)
    /\ UNCHANGED <<clock, objects, events>>

\* Defect: an error of the commit is logged and forgotten.
CommitIgnoringErrors(s) ==
    /\ scans[s].at = "commit"
    /\ events' = events \cup {s} \/ UNCHANGED events
    /\ Answer(s, 200)
    /\ UNCHANGED <<clock, objects>>

\* Defect: every error of the commit is answered as if nothing had happened.
CommitErrorsAreRefusals(s) ==
    /\ scans[s].at = "commit"
    /\ \/ events' = events \cup {s} /\ \E code \in {200, 503} : Answer(s, code)
       \/ UNCHANGED events /\ Answer(s, 503)
    /\ UNCHANGED <<clock, objects>>

\* The commit, retried and guarded by a breaker.  What is not committed is
\* rolled back; an error may also mean that only the confirmation was lost.
CommitEvent(s) ==
    /\ scans[s].at = "commit"
    /\ \/ events' = events \cup {s} /\ \E code \in {200, 500} : Answer(s, code)
       \/ UNCHANGED events /\ \E code \in {500, 503} : Answer(s, code)
    /\ UNCHANGED <<clock, objects>>

(***************************************************************************)
(* A replica dies: the database rolls its open transaction back, or had    *)
(* received the commit already.                                            *)
(***************************************************************************)
Crash(s) ==
    /\ InProgress(s)
    /\ Leave(s, "lost", 0)
    /\ events' = events \/ (scans[s].at = "commit" /\ events' = events \cup {s})
    /\ UNCHANGED <<clock, objects>>

Tick ==
    /\ clock < MaxTime
    /\ clock' = clock + 1
    /\ UNCHANGED <<objects, scans, events>>

Work(s) ==
    \/ Embed(s) \/ SearchSimilarFace(s) \/ UploadSnapshot(s)
    \/ BuildDedupeKey(s) \/ FlushEvent(s) \/ CommitEvent(s)

Next ==
    \/ Tick
    \/ \E s \in Scans :
         \/ Work(s) \/ FlushFails(s) \/ Crash(s)
         \/ \E r \in Replicas, o \in Objects : Start(s, r, o)

Spec == Init /\ [][Next]_vars

\* A replica goes on with the scan it took up; a database wait ends when the
\* transaction waited for has ended, and nothing obliges it to fail before.
FairSpec == Spec /\ \A s \in Scans : WF_vars(Work(s))

(***************************************************************************)
(* Properties                                                              *)
(***************************************************************************)
Places == Working \cup {"new", "answered", "lost"}
Buckets == {NoBucket} \cup 0..(MaxTime \div Window)
Codes == {0, 200, 400, 500, 503}

Scan == [at : Places,
         replica : Replicas \cup {"none"},
         object : Objects \cup {"none"},
         employee : Employees \cup {"none"},
         bucket : Buckets,
         code : Codes]

\* Scans, objects and events keep their type.
TypeOK ==
    /\ clock \in 0..MaxTime
    /\ objects \in [Objects -> Scans \cup {"none"}]
    /\ scans \in [Scans -> Scan]
    /\ events \subseteq Scans

\* No answer without a trace: a person who was granted entry has a committed
\* event in that window, the scan's own or the one it was a duplicate of, and
\* a rejected scan has its own, whichever transactions failed meanwhile.
AnsweredIsLogged ==
    \A s \in Scans : scans[s].code = 200 =>
        s \in events \/ \E t \in events : SameKey(s, t)

\* An employee has at most one event in a window, however many replicas scan
\* the same face at the same time.
OneEventPerWindow ==
    \A s, t \in events :
        /\ scans[s].employee # "none"
        /\ scans[s].employee = scans[t].employee
        /\ scans[s].bucket = scans[t].bucket
        => s = t

\* A request that was refused (bad input, or a breaker that is open) has left
\* no event behind: sending it again cannot count twice.
RefusedLeavesNoEvent ==
    \A s \in Scans : scans[s].code \in {400, 503} => s \notin events

\* Every event refers to an object that exists.
EventHasSnapshot == \A s \in events : objects[scans[s].object] # "none"

\* Every event's snapshot is the image that was recognised.
SnapshotIsTheEvents == \A s \in events : objects[scans[s].object] = s

\* Every scan taken up is answered or lost: replicas that wait for each other's
\* keys never wait for ever.
ScansEnd == \A s \in Scans : InProgress(s) ~> ~InProgress(s)
=============================================================================
