------------------------- MODULE RecognitionProofs --------------------------
(***************************************************************************)
(* Proofs about Recognition, for any number of scans, replicas, employees  *)
(* and object names.                                                       *)
(*                                                                         *)
(* What a committed event says never changes, because the columns of a     *)
(* scan are written before its row is inserted.  The heart of the argument *)
(* is KeysExclusive: of two different scans that own a row, committed or   *)
(* not, at most one has a given key.                                       *)
(***************************************************************************)
EXTENDS Recognition, TLAPS

Owner(s) == s \in events \/ scans[s].at = "commit"

\* How far a scan has come tells which of its columns are filled in.
ScanOrder(s) ==
    /\ InProgress(s) => scans[s].object \in Objects
    /\ scans[s].code # 0 => scans[s].at = "answered"
    /\ scans[s].at \in {"key", "insert", "commit"} => objects[scans[s].object] # "none"
    /\ scans[s].at \in {"insert", "commit"} /\ scans[s].employee # "none"
         => scans[s].bucket # NoBucket

EventOrder(s) ==
    s \in events =>
        /\ scans[s].at \in {"answered", "lost"}
        /\ scans[s].code \in {0, 200, 500}
        /\ scans[s].object \in Objects
        /\ objects[scans[s].object] # "none"
        /\ scans[s].employee # "none" => scans[s].bucket # NoBucket

Order == \A s \in Scans : ScanOrder(s) /\ EventOrder(s)

KeysExclusive ==
    \A s, t \in Scans : s # t /\ Owner(s) /\ Owner(t) => ~SameKey(s, t)

RecognitionInv == TypeOK /\ Order /\ KeysExclusive /\ AnsweredIsLogged

\* The initial state satisfies the invariant.
LEMMA RecognitionInvInit == Init => RecognitionInv
  BY WindowAssumption, SMT
     DEF Init, RecognitionInv, TypeOK, Order, ScanOrder, EventOrder, KeysExclusive,
         AnsweredIsLogged, Owner, NoScan, Scan, Places, Buckets, Codes,
         InProgress, Working, NoBucket

-----------------------------------------------------------------------------
(***************************************************************************)
(* Type correctness of each step.                                          *)
(***************************************************************************)

\* The number of the current window is within the range of the type.
LEMMA BucketType == TypeOK => Bucket \in 0..(MaxTime \div Window)
  <1> SUFFICES ASSUME TypeOK PROVE clock \div Window \in 0..(MaxTime \div Window)
    BY DEF Bucket
  <1>1. clock \in Nat /\ clock <= MaxTime /\ MaxTime \in Nat /\ Window \in Nat /\ Window > 0
    BY WindowAssumption DEF TypeOK
  <1> DEFINE q == clock \div Window
             m == MaxTime \div Window
  <1>2. /\ q \in Int /\ m \in Int
        /\ Window * q <= clock /\ clock < Window * (q + 1)
        /\ Window * m <= MaxTime /\ MaxTime < Window * (m + 1)
    BY <1>1, SMT
  <1>3. q >= 0
    BY <1>1, <1>2, SMT
  <1>4. q <= m
    <2>1. SUFFICES ASSUME q >= m + 1 PROVE FALSE
      BY <1>2, SMT
    <2>2. Window * (m + 1) <= Window * q
      BY <1>1, <1>2, <2>1, SMT
    <2>. QED BY <1>1, <1>2, <2>2, SMT
  <1>. QED BY <1>2, <1>3, <1>4, SMT

\* An object that holds an image, written to or not, holds one afterwards.
ObjectsKept == \A o \in Objects : objects[o] # "none" => objects'[o] # "none"

\* Scan s moved, and nothing else did.
Moves(s, row) ==
    /\ row \in Scan
    /\ scans' = [scans EXCEPT ![s] = row]

\* Columns of a scan that neither an answer nor a change of place touches.
SameColumns(s, row) ==
    /\ row.object = scans[s].object
    /\ row.employee = scans[s].employee
    /\ row.bucket = scans[s].bucket

\* Goto, Leave and Answer move one scan and leave its columns alone.
LEMMA GotoMoves ==
  ASSUME TypeOK, NEW s \in Scans,
         NEW l \in Places, Goto(s, l)
  PROVE  \E row : /\ Moves(s, row) /\ SameColumns(s, row)
                  /\ row.at = l /\ row.code = scans[s].code
  <1> DEFINE row == [scans[s] EXCEPT !.at = l]
  <1>1. scans[s] \in Scan
    BY DEF TypeOK
  <1>2. row \in Scan /\ SameColumns(s, row) /\ row.at = l /\ row.code = scans[s].code
    BY <1>1 DEF Scan, SameColumns
  <1>3. scans' = [scans EXCEPT ![s] = row]
    BY DEF Goto, TypeOK
  <1> QED BY <1>2, <1>3 DEF Moves

\* A scan that ends, answered or lost, gives its replica back.
LEMMA LeaveMoves ==
  ASSUME TypeOK, NEW s \in Scans, NEW l \in {"answered", "lost"},
         NEW c \in Codes, Leave(s, l, c)
  PROVE  \E row : /\ Moves(s, row) /\ SameColumns(s, row)
                  /\ row.at = l /\ row.code = c
  <1> DEFINE row == [scans[s] EXCEPT !.at = l, !.code = c, !.replica = "none"]
  <1>1. scans[s] \in Scan
    BY DEF TypeOK
  <1>2. l \in Places
    BY DEF Places
  <1>3. row \in Scan
    BY <1>1, <1>2 DEF Scan
  <1>4. SameColumns(s, row) /\ row.at = l /\ row.code = c
    BY <1>1 DEF Scan, SameColumns
  <1>5. scans' = [scans EXCEPT ![s] = row]
    BY DEF Leave, TypeOK
  <1> QED BY <1>3, <1>4, <1>5 DEF Moves

LEMMA AnswerMoves ==
  ASSUME TypeOK, NEW s \in Scans, NEW c \in {200, 400, 500, 503}, Answer(s, c)
  PROVE  \E row : /\ Moves(s, row) /\ SameColumns(s, row)
                  /\ row.at = "answered" /\ row.code = c
  <1>1. c \in Codes
    BY DEF Codes
  <1> QED BY <1>1, LeaveMoves DEF Answer

\* What is left to show of a step in which one scan moves: everything the
\* invariant says of the other scans is carried over.
LEMMA OneScanMoves ==
  ASSUME RecognitionInv,
         NEW s \in Scans, NEW row, Moves(s, row), InProgress(s) \/ scans[s].at = "new",
         clock' \in 0..MaxTime,
         objects' \in [Objects -> Scans \cup {"none"}], ObjectsKept,
         events' = events \/ events' = events \cup {s},
         ScanOrder(s)', EventOrder(s)',
         Owner(s)' => \A t \in Scans \ {s} : Owner(t) => ~SameKey(s, t)',
         row.code = 200 => s \in events' \/ \E t \in events \ {s} : SameKey(s, t)'
  PROVE  RecognitionInv'
  <1>1. TypeOK /\ Order /\ KeysExclusive /\ AnsweredIsLogged
    BY DEF RecognitionInv
  <1>2. /\ scans'[s] = row
        /\ \A t \in Scans \ {s} : scans'[t] = scans[t]
    BY <1>1 DEF TypeOK, Moves
  <1>3. TypeOK'
    BY <1>1 DEF TypeOK, Moves
  <1>4. s \notin events
    BY <1>1 DEF Order, EventOrder, InProgress, Working
  <1>5. Order'
    <2>1. SUFFICES ASSUME NEW t \in Scans \ {s} PROVE ScanOrder(t)' /\ EventOrder(t)'
      BY DEF Order
    <2>2. scans'[t] = scans[t] /\ (t \in events' <=> t \in events)
      BY <1>2
    <2>3. scans[t] \in Scan /\ ScanOrder(t) /\ EventOrder(t)
      BY <1>1 DEF TypeOK, Order
    <2>4. scans[t].object \in Objects /\ objects[scans[t].object] # "none"
            => objects'[scans[t].object] # "none"
      BY DEF ObjectsKept
    <2>5. ScanOrder(t)'
      BY <2>2, <2>3, <2>4 DEF ScanOrder, InProgress, Working
    <2>6. EventOrder(t)'
      BY <2>2, <2>3, <2>4 DEF EventOrder
    <2> QED BY <2>5, <2>6
  <1>6. \A t, u \in Scans \ {s} : SameKey(t, u)' <=> SameKey(t, u)
    BY <1>2 DEF SameKey
  <1>7. \A t \in Scans \ {s} : Owner(t)' <=> Owner(t)
    BY <1>2 DEF Owner
  <1>8. KeysExclusive'
    <2>1. SUFFICES ASSUME NEW t \in Scans, NEW u \in Scans, t # u, Owner(t)', Owner(u)'
                   PROVE  ~SameKey(t, u)'
      BY DEF KeysExclusive
    <2>2. CASE t = s
      BY <2>1, <2>2, <1>7
    <2>3. CASE u = s
      <3>1. ~SameKey(s, t)'
        BY <2>1, <2>3, <1>7
      <3> QED BY <3>1, <2>3 DEF SameKey
    <2>4. CASE t # s /\ u # s
      BY <2>1, <2>4, <1>1, <1>6, <1>7 DEF KeysExclusive
    <2> QED BY <2>2, <2>3, <2>4
  <1>9. AnsweredIsLogged'
    <2>1. SUFFICES ASSUME NEW t \in Scans, scans'[t].code = 200
                   PROVE  t \in events' \/ \E u \in events' : SameKey(t, u)'
      BY DEF AnsweredIsLogged
    <2>2. CASE t = s
      BY <2>1, <2>2, <1>2
    <2>3. CASE t # s
      <3>1. t \in events \/ \E u \in events : SameKey(t, u)
        BY <2>1, <2>3, <1>1, <1>2 DEF AnsweredIsLogged
      <3>2. ASSUME NEW u \in events, SameKey(t, u)
            PROVE  SameKey(t, u)' /\ u \in events'
        BY <2>3, <3>2, <1>1, <1>4, <1>6 DEF TypeOK
      <3> QED BY <3>1, <3>2
    <2> QED BY <2>2, <2>3
  <1> QED BY <1>3, <1>5, <1>8, <1>9 DEF RecognitionInv

\* A scan that ends without a new event: the usual end of a request.
LEMMA EndsQuietly ==
  ASSUME RecognitionInv, NEW s \in Scans, InProgress(s),
         NEW row, Moves(s, row), SameColumns(s, row),
         \/ row.at = "answered"
         \/ row.at = "lost" /\ row.code = 0,
         row.code = 200 => \E t \in events \ {s} : SameKey(s, t),
         clock' = clock, events' = events,
         objects' \in [Objects -> Scans \cup {"none"}], ObjectsKept
  PROVE  RecognitionInv'
  <1>1. TypeOK /\ Order
    BY DEF RecognitionInv
  <1>2. scans'[s] = row /\ \A t \in Scans \ {s} : scans'[t] = scans[t]
    BY <1>1 DEF TypeOK, Moves
  <1>3. s \notin events
    BY <1>1 DEF Order, EventOrder, InProgress, Working
  <1>4. ScanOrder(s)' /\ EventOrder(s)' /\ ~Owner(s)'
    BY <1>2, <1>3 DEF ScanOrder, EventOrder, Owner, InProgress, Working
  <1>5. \A t \in events \ {s} : SameKey(s, t)' <=> SameKey(s, t)
    BY <1>1, <1>2 DEF SameKey, SameColumns, TypeOK
  <1> QED BY <1>1, <1>4, <1>5, OneScanMoves DEF TypeOK

\* A scan that goes on to another place with its columns as they are, having
\* its snapshot stored where the next step relies on it.
LEMMA GoesOn ==
  ASSUME RecognitionInv, NEW s \in Scans, InProgress(s),
         NEW row, Moves(s, row), SameColumns(s, row), row.code = scans[s].code,
         row.at \in {"search", "key"},
         row.at = "key" => objects'[scans[s].object] # "none",
         clock' = clock, events' = events,
         objects' \in [Objects -> Scans \cup {"none"}], ObjectsKept
  PROVE  RecognitionInv'
  <1>1. TypeOK /\ Order
    BY DEF RecognitionInv
  <1>2. scans'[s] = row /\ \A t \in Scans \ {s} : scans'[t] = scans[t]
    BY <1>1 DEF TypeOK, Moves
  <1>3. s \notin events /\ scans[s].code = 0 /\ scans[s].object \in Objects
    BY <1>1 DEF Order, EventOrder, ScanOrder, InProgress, Working
  <1>4. ScanOrder(s)' /\ EventOrder(s)' /\ ~Owner(s)'
    BY <1>2, <1>3 DEF ScanOrder, EventOrder, Owner, SameColumns, InProgress, Working
  <1> QED BY <1>1, <1>3, <1>4, OneScanMoves DEF TypeOK

-----------------------------------------------------------------------------
(***************************************************************************)
(* One lemma per action.                                                   *)
(***************************************************************************)

LEMMA StartStep ==
  ASSUME RecognitionInv, NEW s \in Scans, NEW r \in Replicas, NEW o \in Objects,
         Start(s, r, o)
  PROVE  RecognitionInv'
  <1> DEFINE row == [scans[s] EXCEPT !.at = "embed", !.replica = r, !.object = o]
  <1>1. TypeOK /\ Order /\ scans[s] \in Scan
    BY DEF RecognitionInv, TypeOK
  <1>2. row \in Scan
    <2>1. "embed" \in Places
      BY DEF Places, Working
    <2> QED BY <1>1, <2>1 DEF Scan
  <1>3. row.at = "embed" /\ row.object = o /\ row.code = scans[s].code
    BY <1>1 DEF Scan
  <1>4. Moves(s, row) /\ scans[s].at = "new" /\ UNCHANGED <<clock, objects, events>>
    BY <1>2 DEF Start, Moves
  <1>5. scans'[s] = row
    BY <1>1, <1>4 DEF TypeOK, Moves
  <1>6. s \notin events /\ scans[s].code = 0
    BY <1>1, <1>4 DEF Order, EventOrder, ScanOrder
  <1> HIDE DEF row
  <1>7. ScanOrder(s)' /\ EventOrder(s)' /\ ~Owner(s)'
    BY <1>3, <1>4, <1>5, <1>6 DEF ScanOrder, EventOrder, Owner, InProgress, Working
  <1> QED BY <1>1, <1>3, <1>4, <1>6, <1>7, OneScanMoves DEF TypeOK, ObjectsKept

LEMMA EmbedStep ==
  ASSUME RecognitionInv, NEW s \in Scans, Embed(s)
  PROVE  RecognitionInv'
  <1>1. TypeOK /\ InProgress(s) /\ UNCHANGED <<clock, objects, events>>
    BY DEF Embed, RecognitionInv, InProgress, Working
  <1>2. objects' \in [Objects -> Scans \cup {"none"}] /\ ObjectsKept
    BY <1>1 DEF TypeOK, ObjectsKept
  <1>3. CASE Goto(s, "search")
    <2>1. "search" \in Places
      BY DEF Places, Working
    <2> QED BY <1>1, <1>2, <1>3, <2>1, GotoMoves, GoesOn
  <1>4. ASSUME NEW c \in {400, 500, 503}, Answer(s, c) PROVE RecognitionInv'
    BY <1>1, <1>2, <1>4, AnswerMoves, EndsQuietly
  <1> QED BY <1>3, <1>4 DEF Embed

LEMMA SearchStep ==
  ASSUME RecognitionInv, NEW s \in Scans, SearchSimilarFace(s)
  PROVE  RecognitionInv'
  <1>1. /\ TypeOK /\ Order /\ scans[s] \in Scan
        /\ scans[s].at = "search" /\ InProgress(s)
        /\ UNCHANGED <<clock, objects, events>>
    <2>1. TypeOK /\ Order
      BY DEF RecognitionInv
    <2>2. scans[s] \in Scan
      BY <2>1 DEF TypeOK
    <2> QED BY <2>1, <2>2 DEF SearchSimilarFace, InProgress, Working
  <1>2. objects' \in [Objects -> Scans \cup {"none"}] /\ ObjectsKept
    BY <1>1 DEF TypeOK, ObjectsKept
  <1>3. ASSUME NEW e \in Employees \cup {"none"},
               scans' = [scans EXCEPT ![s] = [@ EXCEPT !.at = "upload", !.employee = e]]
        PROVE  RecognitionInv'
    <2> DEFINE row == [scans[s] EXCEPT !.at = "upload", !.employee = e]
    <2>1. row \in Scan
      <3>1. "upload" \in Places
        BY DEF Places, Working
      <3> QED BY <1>1, <3>1 DEF Scan
    <2>2. row.at = "upload" /\ row.object = scans[s].object /\ row.code = scans[s].code
      BY <1>1 DEF Scan
    <2>3. Moves(s, row) /\ scans'[s] = row
      BY <1>1, <1>3, <2>1 DEF TypeOK, Moves
    <2>4. s \notin events /\ scans[s].code = 0 /\ scans[s].object \in Objects
      BY <1>1 DEF Order, EventOrder, ScanOrder
    <2> HIDE DEF row
    <2>5. ScanOrder(s)' /\ EventOrder(s)' /\ ~Owner(s)'
      BY <1>1, <2>2, <2>3, <2>4 DEF ScanOrder, EventOrder, Owner, InProgress, Working
    <2> QED BY <1>1, <1>2, <2>2, <2>3, <2>4, <2>5, OneScanMoves DEF TypeOK
  <1>4. ASSUME NEW c \in {400, 500, 503}, Answer(s, c) PROVE RecognitionInv'
    BY <1>1, <1>2, <1>4, AnswerMoves, EndsQuietly
  <1>5. CASE \E e \in Employees \cup {"none"} :
                scans' = [scans EXCEPT ![s] = [@ EXCEPT !.at = "upload", !.employee = e]]
    BY <1>3, <1>5
  <1>6. CASE \E c \in {400, 500, 503} : Answer(s, c)
    BY <1>4, <1>6
  <1> QED BY <1>5, <1>6 DEF SearchSimilarFace

LEMMA UploadStep ==
  ASSUME RecognitionInv, NEW s \in Scans, UploadSnapshot(s)
  PROVE  RecognitionInv'
  <1>1. /\ TypeOK /\ Order /\ scans[s].at = "upload" /\ InProgress(s)
        /\ UNCHANGED <<clock, events>>
    BY DEF UploadSnapshot, RecognitionInv, InProgress, Working
  <1>2. scans[s].object \in Objects
    BY <1>1 DEF Order, ScanOrder
  <1>3. CASE objects' = [objects EXCEPT ![scans[s].object] = s]
    <2>1. objects' \in [Objects -> Scans \cup {"none"}]
      BY <1>1, <1>2, <1>3 DEF TypeOK
    <2>2. ObjectsKept /\ objects'[scans[s].object] # "none"
      BY <1>1, <1>2, <1>3, NamesAssumption DEF TypeOK, ObjectsKept
    <2>3. CASE Goto(s, "key")
      <3>1. "key" \in Places
        BY DEF Places, Working
      <3> QED BY <1>1, <2>1, <2>2, <2>3, <3>1, GotoMoves, GoesOn
    <2>4. ASSUME NEW c \in {400, 500, 503}, Answer(s, c) PROVE RecognitionInv'
      BY <1>1, <2>1, <2>2, <2>4, AnswerMoves, EndsQuietly
    <2> QED BY <1>1, <1>3, <2>3, <2>4 DEF UploadSnapshot
  <1>4. CASE UNCHANGED objects
    <2>1. objects' \in [Objects -> Scans \cup {"none"}] /\ ObjectsKept
      BY <1>1, <1>4 DEF TypeOK, ObjectsKept
    <2>2. ASSUME NEW c \in {400, 500, 503}, Answer(s, c) PROVE RecognitionInv'
      BY <1>1, <2>1, <2>2, AnswerMoves, EndsQuietly
    <2>3. CASE objects' = [objects EXCEPT ![scans[s].object] = s]
      BY <1>3, <2>3
    <2> QED BY <2>2, <2>3 DEF UploadSnapshot
  <1> QED BY <1>3, <1>4 DEF UploadSnapshot

LEMMA BuildDedupeKeyStep ==
  ASSUME RecognitionInv, NEW s \in Scans, BuildDedupeKey(s)
  PROVE  RecognitionInv'
  <1> DEFINE b == IF scans[s].employee = "none" THEN NoBucket ELSE Bucket
             row == [scans[s] EXCEPT !.at = "insert", !.bucket = b]
  <1>1. TypeOK /\ Order
    BY DEF RecognitionInv
  <1>2. /\ scans[s] \in Scan /\ scans[s].at = "key" /\ InProgress(s)
        /\ UNCHANGED <<clock, objects, events>>
        /\ scans' = [scans EXCEPT ![s] = row]
    BY <1>1 DEF BuildDedupeKey, InProgress, Working, TypeOK
  <1>3. b \in Buckets /\ (scans[s].employee # "none" => b # NoBucket)
    BY <1>1, BucketType DEF Buckets, NoBucket
  <1> HIDE DEF b
  <1>4. row \in Scan
    <2>1. "insert" \in Places
      BY DEF Places, Working
    <2> QED BY <1>2, <1>3, <2>1 DEF Scan
  <1>5. /\ row.at = "insert" /\ row.bucket = b /\ row.employee = scans[s].employee
        /\ row.object = scans[s].object /\ row.code = scans[s].code
    BY <1>2 DEF Scan
  <1>6. Moves(s, row) /\ scans'[s] = row
    BY <1>1, <1>2, <1>4 DEF Moves, TypeOK
  <1>7. /\ s \notin events /\ scans[s].code = 0 /\ scans[s].object \in Objects
        /\ objects[scans[s].object] # "none"
    BY <1>1, <1>2 DEF Order, EventOrder, ScanOrder
  <1> HIDE DEF row
  <1>8. ScanOrder(s)' /\ EventOrder(s)' /\ ~Owner(s)'
    BY <1>2, <1>3, <1>5, <1>6, <1>7 DEF ScanOrder, EventOrder, Owner, InProgress, Working
  <1> QED BY <1>1, <1>2, <1>5, <1>6, <1>7, <1>8, OneScanMoves DEF TypeOK, ObjectsKept

\* A key that is neither taken nor held has no owner, so the scan that goes on
\* to its commit becomes the only one.
LEMMA FlushStep ==
  ASSUME RecognitionInv, NEW s \in Scans, FlushEvent(s)
  PROVE  RecognitionInv'
  <1>1. TypeOK /\ Order
    BY DEF RecognitionInv
  <1>2. /\ scans[s].at = "insert" /\ InProgress(s)
        /\ UNCHANGED <<clock, objects, events>>
    BY DEF FlushEvent, InProgress, Working
  <1>3. objects' \in [Objects -> Scans \cup {"none"}] /\ ObjectsKept
    BY <1>1, <1>2 DEF TypeOK, ObjectsKept
  <1>4. /\ s \notin events /\ scans[s].code = 0 /\ scans[s].object \in Objects
        /\ objects[scans[s].object] # "none"
        /\ scans[s].employee # "none" => scans[s].bucket # NoBucket
    BY <1>1, <1>2 DEF Order, EventOrder, ScanOrder, InProgress
  <1>5. CASE Taken(s) /\ Answer(s, 200)
    <2>1. \E t \in events \ {s} : SameKey(s, t)
      BY <1>4, <1>5 DEF Taken
    <2> QED BY <1>1, <1>2, <1>3, <1>5, <2>1, AnswerMoves, EndsQuietly
  <1>6. CASE ~Taken(s) /\ ~Held(s) /\ Goto(s, "commit")
    <2>1. "commit" \in Places
      BY DEF Places, Working
    <2>2. PICK row : /\ Moves(s, row) /\ SameColumns(s, row)
                     /\ row.at = "commit" /\ row.code = scans[s].code
      BY <1>1, <1>6, <2>1, GotoMoves
    <2>3. scans'[s] = row /\ \A t \in Scans \ {s} : scans'[t] = scans[t]
      BY <1>1, <2>2 DEF TypeOK, Moves
    <2>4. ScanOrder(s)' /\ EventOrder(s)'
      BY <1>2, <1>4, <2>2, <2>3
         DEF ScanOrder, EventOrder, SameColumns, InProgress, Working
    <2>5. ASSUME NEW t \in Scans \ {s}, Owner(t) PROVE ~SameKey(s, t)'
      <3>1. ~SameKey(s, t)
        BY <1>6, <2>5 DEF Taken, Held, Owner
      <3> QED BY <2>2, <2>3, <3>1 DEF SameKey, SameColumns
    <2> QED BY <1>1, <1>2, <1>3, <1>4, <2>2, <2>4, <2>5, OneScanMoves DEF TypeOK
  <1> QED BY <1>5, <1>6 DEF FlushEvent

LEMMA FlushFailsStep ==
  ASSUME RecognitionInv, NEW s \in Scans, FlushFails(s)
  PROVE  RecognitionInv'
  <1>1. TypeOK /\ InProgress(s) /\ UNCHANGED <<clock, objects, events>>
    BY DEF RecognitionInv, FlushFails, InProgress, Working
  <1>2. objects' \in [Objects -> Scans \cup {"none"}] /\ ObjectsKept
    BY <1>1 DEF TypeOK, ObjectsKept
  <1> QED BY <1>1, <1>2, AnswerMoves, EndsQuietly DEF FlushFails

\* The committed row was already the only owner of its key.
LEMMA CommitStep ==
  ASSUME RecognitionInv, NEW s \in Scans, scans[s].at = "commit",
         NEW row, Moves(s, row), SameColumns(s, row),
         \/ row.at = "answered" /\ row.code \in {200, 500}
         \/ row.at = "lost" /\ row.code = 0,
         events' = events \cup {s}, UNCHANGED <<clock, objects>>
  PROVE  RecognitionInv'
  <1>1. TypeOK /\ Order /\ KeysExclusive /\ InProgress(s)
    BY DEF RecognitionInv, InProgress, Working
  <1>2. scans'[s] = row /\ \A t \in Scans \ {s} : scans'[t] = scans[t]
    BY <1>1 DEF TypeOK, Moves
  <1>3. /\ scans[s].object \in Objects /\ objects[scans[s].object] # "none"
        /\ scans[s].employee # "none" => scans[s].bucket # NoBucket
    BY <1>1 DEF Order, ScanOrder
  <1>4. ScanOrder(s)' /\ EventOrder(s)'
    BY <1>2, <1>3 DEF ScanOrder, EventOrder, SameColumns, InProgress, Working
  <1>5. ASSUME NEW t \in Scans \ {s}, Owner(t) PROVE ~SameKey(s, t)'
    <2>1. ~SameKey(s, t)
      BY <1>1, <1>5 DEF KeysExclusive, Owner
    <2> QED BY <1>2, <2>1 DEF SameKey, SameColumns
  <1>6. objects' \in [Objects -> Scans \cup {"none"}] /\ ObjectsKept
    BY <1>1 DEF TypeOK, ObjectsKept
  <1> QED BY <1>1, <1>4, <1>5, <1>6, OneScanMoves DEF TypeOK

LEMMA CommitEventStep ==
  ASSUME RecognitionInv, NEW s \in Scans, CommitEvent(s)
  PROVE  RecognitionInv'
  <1>1. /\ TypeOK /\ scans[s].at = "commit" /\ InProgress(s)
        /\ UNCHANGED <<clock, objects>>
    BY DEF RecognitionInv, CommitEvent, InProgress, Working
  <1>2. objects' \in [Objects -> Scans \cup {"none"}] /\ ObjectsKept
    BY <1>1 DEF TypeOK, ObjectsKept
  <1>3. ASSUME events' = events \cup {s}, NEW c \in {200, 500}, Answer(s, c)
        PROVE  RecognitionInv'
    BY <1>1, <1>3, AnswerMoves, CommitStep
  <1>4. ASSUME UNCHANGED events, NEW c \in {500, 503}, Answer(s, c)
        PROVE  RecognitionInv'
    BY <1>1, <1>2, <1>4, AnswerMoves, EndsQuietly
  <1> QED BY <1>3, <1>4 DEF CommitEvent

LEMMA CrashStep ==
  ASSUME RecognitionInv, NEW s \in Scans, Crash(s)
  PROVE  RecognitionInv'
  <1>1. TypeOK /\ Order /\ InProgress(s) /\ UNCHANGED <<clock, objects>>
    BY DEF RecognitionInv, Crash
  <1>2. objects' \in [Objects -> Scans \cup {"none"}] /\ ObjectsKept
    BY <1>1 DEF TypeOK, ObjectsKept
  <1>3. PICK row : /\ Moves(s, row) /\ SameColumns(s, row)
                   /\ row.at = "lost" /\ row.code = 0
    <2>1. 0 \in Codes
      BY DEF Codes
    <2> QED BY <1>1, <2>1, LeaveMoves DEF Crash
  <1>4. CASE events' = events
    BY <1>1, <1>2, <1>3, <1>4, EndsQuietly
  <1>5. CASE scans[s].at = "commit" /\ events' = events \cup {s}
    BY <1>1, <1>3, <1>5, CommitStep
  <1> QED BY <1>4, <1>5 DEF Crash

\* Time, or nothing, passes.
LEMMA TimeStep ==
  ASSUME RecognitionInv, Tick \/ UNCHANGED vars
  PROVE  RecognitionInv'
  <1>1. UNCHANGED <<objects, scans, events>> /\ clock' \in 0..MaxTime
    BY WindowAssumption DEF RecognitionInv, TypeOK, Tick, vars
  <1> QED BY <1>1 DEF RecognitionInv, TypeOK, Order, ScanOrder, EventOrder, InProgress,
                     KeysExclusive, Owner, SameKey, AnsweredIsLogged

-----------------------------------------------------------------------------
\* Every step preserves the invariant.
LEMMA RecognitionInvStep == RecognitionInv /\ [Next]_vars => RecognitionInv'
  <1> SUFFICES ASSUME RecognitionInv, [Next]_vars PROVE RecognitionInv'
    OBVIOUS
  <1>1. ASSUME NEW s \in Scans, Work(s) PROVE RecognitionInv'
    BY <1>1, EmbedStep, SearchStep, UploadStep, BuildDedupeKeyStep, FlushStep,
       CommitEventStep DEF Work
  <1>2. ASSUME NEW s \in Scans, FlushFails(s) \/ Crash(s) PROVE RecognitionInv'
    BY <1>2, FlushFailsStep, CrashStep
  <1>3. ASSUME NEW s \in Scans, NEW r \in Replicas, NEW o \in Objects, Start(s, r, o)
        PROVE  RecognitionInv'
    BY <1>3, StartStep
  <1>4. CASE Tick \/ UNCHANGED vars
    BY <1>4, TimeStep
  <1> QED BY <1>1, <1>2, <1>3, <1>4 DEF Next

LEMMA RecognitionInvariant == Spec => []RecognitionInv
  BY RecognitionInvInit, RecognitionInvStep, PTL DEF Spec

\* TypeOK, the type of the scans, the objects and the events table, holds in
\* every reachable state.
THEOREM RecognitionTypeCorrect == Spec => []TypeOK
  <1>1. RecognitionInv => TypeOK
    BY DEF RecognitionInv
  <1> QED BY <1>1, RecognitionInvariant, PTL

\* AnsweredIsLogged: whoever is granted entry, and whoever is rejected, has an
\* event in the table, however many replicas, failures and crashes there are.
THEOREM AnswersAreLogged == Spec => []AnsweredIsLogged
  <1>1. RecognitionInv => AnsweredIsLogged
    BY DEF RecognitionInv
  <1> QED BY <1>1, RecognitionInvariant, PTL

\* OneEventPerWindow: the dedupe key and the unique index leave no two events
\* of one employee in one window.
THEOREM EventsAreDeduplicated == Spec => []OneEventPerWindow
  <1>1. ASSUME RecognitionInv PROVE OneEventPerWindow
    <2>1. TypeOK /\ Order /\ KeysExclusive
      BY <1>1 DEF RecognitionInv
    <2>2. SUFFICES ASSUME NEW s \in events, NEW t \in events,
                          scans[s].employee # "none",
                          scans[s].employee = scans[t].employee,
                          scans[s].bucket = scans[t].bucket
                   PROVE  s = t
      BY DEF OneEventPerWindow
    <2>3. s \in Scans /\ t \in Scans /\ Owner(s) /\ Owner(t)
      BY <2>1 DEF TypeOK, Owner
    <2>4. SameKey(s, t)
      BY <2>1, <2>2, <2>3 DEF SameKey, Order, EventOrder
    <2> QED BY <2>1, <2>3, <2>4 DEF KeysExclusive
  <1> QED BY <1>1, RecognitionInvariant, PTL

\* RefusedLeavesNoEvent: a request answered 400 or 503 can be repeated without
\* counting twice.
THEOREM RefusalsLeaveNoEvent == Spec => []RefusedLeavesNoEvent
  <1>1. ASSUME RecognitionInv PROVE RefusedLeavesNoEvent
    <2>1. Order
      BY <1>1 DEF RecognitionInv
    <2> QED BY <2>1 DEF RefusedLeavesNoEvent, Order, EventOrder
  <1> QED BY <1>1, RecognitionInvariant, PTL

\* EventHasSnapshot: no event, committed before or after a crash, refers to an
\* object that was never stored.
THEOREM EventsHaveSnapshots == Spec => []EventHasSnapshot
  <1>1. ASSUME RecognitionInv PROVE EventHasSnapshot
    <2>1. TypeOK /\ Order
      BY <1>1 DEF RecognitionInv
    <2> QED BY <2>1 DEF EventHasSnapshot, Order, EventOrder, TypeOK
  <1> QED BY <1>1, RecognitionInvariant, PTL
=============================================================================
