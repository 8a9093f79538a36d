--------------------------- MODULE ReadingsProofs ---------------------------
(***************************************************************************)
(* Both sums of Readings hold every contribution exactly once, for any     *)
(* consultations, sources, page size and number of deaths and rebuilds,    *)
(* and the access ledger implements Tally; a rebuild that ends has counted *)
(* what it listed, and an undisturbed gate judges from the whole library.  *)
(*                                                                         *)
(* A rebuild is sound because nothing but the lane's own current job       *)
(* stamps an event: while its replay runs, the stamps stand still, and     *)
(* what it has summed is exactly what it has seen of them.                 *)
(***************************************************************************)
EXTENDS Readings, FiniteSetTheorems, WellFoundedInduction, TLAPS

Kinds == {"recall_projection", "recall_rebuild", "index"}
Rows == [kind : Kinds, about : Consultations \cup Sources \cup {0},
         part : {"opening", "answer", "complete"},
         status : {"queued", "claimed", "waiting", "done"}]

Kept == {e \in happened : e[1] \in Business}

\* The events a delivery's row stands for.
RowEvents(r) == IF r.part = "complete" THEN {<<r.about, "opening">>, <<r.about, "answer">>}
                ELSE {<<r.about, r.part>>}

Types ==
    /\ happened \subseteq Events
    /\ hits \in [Events -> Nat] /\ notified \in [Events -> Nat]
    /\ jobs \in Seq(Rows) /\ current \in Nat
    /\ current # 0 => current \in 1..Len(jobs)
    /\ {"events", "seen", "sums"} \subseteq DOMAIN work

\* No row names an event that is not on record.
RowsAreKept ==
    \A j \in 1..Len(jobs) : jobs[j].kind = "recall_projection" => RowEvents(jobs[j]) \subseteq Kept

Delivers ==
    (at \in {"apply", "notify"}) =>
        /\ work.events \in Seq(Events)
        /\ \A i \in 1..Len(work.events) : work.events[i] \in Kept

Tells ==
    (at = "notify") =>
        /\ work.events # <<>>
        /\ Head(work.events) \in stamped /\ notified[Head(work.events)] = 0

\* A replay has summed what it has seen, and has seen only stamped events.
Replays ==
    (at = "replay") =>
        /\ work.seen \subseteq stamped
        /\ work.sums \in [Events -> Nat]
        /\ \A e \in Events : work.sums[e] = IF e \in work.seen THEN 1 ELSE 0

LedgerInv ==
    /\ Types /\ RowsAreKept /\ stamped \subseteq Kept
    /\ EventsCountedOnce /\ NotifiedOnce /\ Delivers /\ Tells /\ Replays

-----------------------------------------------------------------------------
LEMMA InitLedgerInv == Init => LedgerInv
  <1>. SUFFICES ASSUME Init PROVE LedgerInv
    OBVIOUS
  <1>1. {"events", "seen", "sums"} \subseteq DOMAIN work
    BY DEF Init, Nothing
  <1>2. Types /\ RowsAreKept
    BY <1>1 DEF Init, Types, RowsAreKept, NoHits
  <1>. QED
    BY <1>2 DEF Init, LedgerInv, Kept, EventsCountedOnce, NotifiedOnce, Delivers, Tells, Replays,
       NoHits

\* A step that touches neither the ledger nor the lane.
LEMMA StillSteps == LedgerInv /\ UNCHANGED <<ledger, lane>> => LedgerInv'
  <1>. SUFFICES ASSUME LedgerInv, UNCHANGED <<ledger, lane>> PROVE LedgerInv'
    OBVIOUS
  <1>. UNCHANGED <<happened, stamped, hits, notified, jobs, current, at, work>>
    BY DEF ledger, lane
  <1>1. Kept' = Kept
    BY DEF Kept
  <1>2. Types' /\ RowsAreKept'
    BY <1>1 DEF LedgerInv, Types, RowsAreKept
  <1>3. (stamped \subseteq Kept)' /\ EventsCountedOnce' /\ NotifiedOnce'
    BY <1>1 DEF LedgerInv, EventsCountedOnce, NotifiedOnce
  <1>4. Delivers' /\ Tells' /\ Replays'
    BY <1>1 DEF LedgerInv, Delivers, Tells, Replays
  <1>. QED
    BY <1>2, <1>3, <1>4 DEF LedgerInv

\* A step of the current body outside the ledger's own phases.
LEMMA QuietSteps ==
  ASSUME LedgerInv, UNCHANGED <<ledger, jobs, current>>, DOMAIN work' = DOMAIN work,
         at' \notin {"apply", "notify", "replay"}
  PROVE  LedgerInv'
  <1>. UNCHANGED <<happened, stamped, hits, notified, jobs, current>>
    BY DEF ledger
  <1>1. Kept' = Kept
    BY DEF Kept
  <1>2. Types' /\ RowsAreKept'
    BY <1>1 DEF LedgerInv, Types, RowsAreKept
  <1>3. (stamped \subseteq Kept)' /\ EventsCountedOnce' /\ NotifiedOnce'
    BY <1>1 DEF LedgerInv, EventsCountedOnce, NotifiedOnce
  <1>4. Delivers' /\ Tells' /\ Replays'
    BY DEF Delivers, Tells, Replays
  <1>. QED
    BY <1>2, <1>3, <1>4 DEF LedgerInv

\* A row whose status alone changes still stands for the same events.
LEMMA StatusKept ==
  ASSUME NEW j \in 1..Len(jobs), NEW st \in {"queued", "claimed", "waiting", "done"},
         Types, RowsAreKept, UNCHANGED happened,
         jobs' = [jobs EXCEPT ![j].status = st]
  PROVE  /\ jobs' \in Seq(Rows) /\ Len(jobs') = Len(jobs) /\ RowsAreKept'
         /\ \A i \in 1..Len(jobs) : jobs'[i].kind = jobs[i].kind
  <1>1. jobs \in Seq(Rows)
    BY DEF Types
  <1>b. jobs[j] \in Rows
    BY <1>1
  <1>a. [jobs[j] EXCEPT !.status = st] \in Rows
    BY <1>b DEF Rows
  <1>2. jobs' \in Seq(Rows) /\ Len(jobs') = Len(jobs)
    BY <1>1, <1>a
  <1>3. \A i \in 1..Len(jobs) : jobs'[i].kind = jobs[i].kind /\ jobs'[i].about = jobs[i].about
                                /\ jobs'[i].part = jobs[i].part
    BY <1>1 DEF Rows
  <1>. QED
    BY <1>2, <1>3 DEF RowsAreKept, RowEvents, Kept

LEMMA EndsSteps ==
  ASSUME NEW st \in {"queued", "claimed", "waiting", "done"},
         LedgerInv, current # 0, Ends(st), UNCHANGED ledger
  PROVE  LedgerInv'
  <1>1. current \in 1..Len(jobs) /\ Types /\ RowsAreKept /\ UNCHANGED happened
    BY DEF LedgerInv, Types, ledger
  <1>2. jobs' \in Seq(Rows) /\ RowsAreKept'
    BY <1>1, StatusKept DEF Ends
  <1>3. {"events", "seen", "sums"} \subseteq DOMAIN work'
    BY DEF Ends, Nothing
  <1>. QED
    BY <1>2, <1>3 DEF LedgerInv, Types, Kept, EventsCountedOnce, NotifiedOnce, Delivers, Tells,
       Replays, ledger, Ends

\* A caller puts more events on record, and may send a row that stands for kept ones.
LEMMA CallerRecords ==
  ASSUME LedgerInv, NEW added, added \subseteq Events, happened' = happened \cup added,
         UNCHANGED <<stamped, hits, notified, jobs, current, at, work>>
  PROVE  LedgerInv'
  <1>1. Kept \subseteq Kept'
    BY DEF Kept
  <1>2. RowsAreKept'
    BY <1>1 DEF LedgerInv, RowsAreKept, RowEvents
  <1>3. Types'
    BY DEF LedgerInv, Types
  <1>. QED
    BY <1>1, <1>2, <1>3 DEF LedgerInv, EventsCountedOnce, NotifiedOnce, Delivers, Tells, Replays

LEMMA CallerSends ==
  ASSUME LedgerInv, NEW added, added \subseteq Events, happened' = happened \cup added,
         NEW row \in Rows, jobs' = Append(jobs, row),
         row.kind = "recall_projection" => RowEvents(row) \subseteq Kept',
         UNCHANGED <<stamped, hits, notified, current, at, work>>
  PROVE  LedgerInv'
  <1>1. Kept \subseteq Kept'
    BY DEF Kept
  <1>2. jobs \in Seq(Rows)
    BY DEF LedgerInv, Types
  <1>3. jobs' \in Seq(Rows) /\ Len(jobs') = Len(jobs) + 1
    BY <1>2
  <1>4. RowsAreKept'
    <2>1. \A j \in 1..Len(jobs') : (j \in 1..Len(jobs) /\ jobs'[j] = jobs[j]) \/ jobs'[j] = row
      BY <1>2
    <2>. QED
      BY <2>1, <1>1 DEF LedgerInv, RowsAreKept, RowEvents
  <1>5. Types'
    BY <1>2, <1>3 DEF LedgerInv, Types
  <1>. QED
    BY <1>1, <1>4, <1>5 DEF LedgerInv, EventsCountedOnce, NotifiedOnce, Delivers, Tells, Replays
-----------------------------------------------------------------------------
(* Each action keeps the invariant. *)

LEMMA CreateKeeps ==
  ASSUME NEW c \in Consultations, NEW part \in {"opening", "complete"},
         LedgerInv, CreateConsultation(c, part)
  PROVE  LedgerInv'
  <1>. DEFINE row == Row("recall_projection", c, part)
              added == IF part = "complete" THEN {<<c, "opening">>, <<c, "answer">>}
                       ELSE {<<c, "opening">>}
  <1>1. row \in Rows /\ added \subseteq Events
    BY DEF Row, Rows, Kinds, Events
  <1>2. happened' = happened \cup added
        /\ UNCHANGED <<stamped, hits, notified, current, at, work>>
        /\ jobs' = IF c \in Business THEN Append(jobs, row) ELSE jobs
    BY DEF CreateConsultation
  <1>3. c \in Business => RowEvents(row) \subseteq Kept'
    BY <1>1, <1>2 DEF Row, RowEvents, Kept
  <1>. HIDE DEF row, added
  <1>4. CASE c \in Business
    BY <1>1, <1>2, <1>3, <1>4, CallerSends
  <1>5. CASE c \notin Business
    BY <1>1, <1>2, <1>5, CallerRecords
  <1>. QED
    BY <1>4, <1>5

LEMMA AnswerKeeps ==
  ASSUME NEW c \in Consultations, LedgerInv, AnswerConsultation(c)
  PROVE  LedgerInv'
  <1>. DEFINE row == Row("recall_projection", c, "answer")
              added == {<<c, "answer">>}
  <1>1. row \in Rows /\ added \subseteq Events
    BY DEF Row, Rows, Kinds, Events
  <1>2. happened' = happened \cup added
        /\ UNCHANGED <<stamped, hits, notified, current, at, work>>
        /\ jobs' = IF c \in Business THEN Append(jobs, row) ELSE jobs
    BY DEF AnswerConsultation
  <1>3. c \in Business => RowEvents(row) \subseteq Kept'
    BY <1>1, <1>2 DEF Row, RowEvents, Kept
  <1>. HIDE DEF row, added
  <1>4. CASE c \in Business
    BY <1>1, <1>2, <1>3, <1>4, CallerSends
  <1>5. CASE c \notin Business
    BY <1>1, <1>2, <1>5, CallerRecords
  <1>. QED
    BY <1>4, <1>5

\* A row that names no event: an import's and a rebuild's.
LEMMA OtherRowKeeps ==
  ASSUME NEW row \in Rows, row.kind # "recall_projection", LedgerInv,
         jobs' = Append(jobs, row), UNCHANGED <<ledger, current, at, work>>
  PROVE  LedgerInv'
  <1>. DEFINE none == {}
  <1>1. UNCHANGED <<stamped, hits, notified, current, at, work>>
    BY DEF ledger
  <1>2. none \subseteq Events
    OBVIOUS
  <1>3. happened' = happened \cup none
    BY DEF ledger
  <1>4. row.kind = "recall_projection" => RowEvents(row) \subseteq Kept'
    OBVIOUS
  <1>. HIDE DEF none
  <1>. QED
    BY <1>1, <1>2, <1>3, <1>4, CallerSends

LEMMA CallersKeep == LedgerInv /\ Callers => LedgerInv'
  <1>. SUFFICES ASSUME LedgerInv, Callers PROVE LedgerInv'
    OBVIOUS
  <1>1. ASSUME NEW s \in Sources, ImportSource(s) PROVE LedgerInv'
    <2>1. Row("index", s, "complete") \in Rows
          /\ Row("index", s, "complete").kind # "recall_projection"
      BY DEF Row, Rows, Kinds
    <2>2. jobs' = Append(jobs, Row("index", s, "complete")) /\ UNCHANGED <<ledger, current, at, work>>
      BY <1>1 DEF ImportSource
    <2>. QED
      BY <2>1, <2>2, OtherRowKeeps
  <1>2. ASSUME RequestRebuild PROVE LedgerInv'
    <2>1. Row("recall_rebuild", 0, "complete") \in Rows
          /\ Row("recall_rebuild", 0, "complete").kind # "recall_projection"
      BY DEF Row, Rows, Kinds
    <2>2. jobs' = Append(jobs, Row("recall_rebuild", 0, "complete"))
          /\ UNCHANGED <<ledger, current, at, work>>
      BY <1>2 DEF RequestRebuild
    <2>. QED
      BY <2>1, <2>2, OtherRowKeeps
  <1>. QED
    BY <1>1, <1>2, CreateKeeps, AnswerKeeps DEF Callers

LEMMA ClaimKeeps == LedgerInv /\ ClaimNext => LedgerInv'
  <1>. SUFFICES ASSUME LedgerInv, ClaimNext PROVE LedgerInv'
    OBVIOUS
  <1>1. PICK j \in DOMAIN jobs :
          /\ jobs' = [jobs EXCEPT ![j].status = "claimed"] /\ current' = j
          /\ at' \in {"read", "replay", "boundary"}
    BY DEF ClaimNext
  <1>2. Types /\ RowsAreKept /\ UNCHANGED <<happened, stamped, hits, notified>> /\ work' = Nothing
    BY DEF LedgerInv, ClaimNext, ledger
  <1>3. j \in 1..Len(jobs)
    BY <1>1, <1>2 DEF Types
  <1>4. jobs' \in Seq(Rows) /\ Len(jobs') = Len(jobs) /\ RowsAreKept'
    BY <1>1, <1>2, <1>3, StatusKept
  <1>a. {"events", "seen", "sums"} \subseteq DOMAIN work'
    BY <1>2 DEF Nothing
  <1>5. Types'
    BY <1>1, <1>2, <1>3, <1>4, <1>a DEF Types
  <1>6. Delivers' /\ Tells' /\ Replays'
    BY <1>1, <1>2 DEF Delivers, Tells, Replays, Nothing, NoHits
  <1>. QED
    BY <1>2, <1>4, <1>5, <1>6 DEF LedgerInv, Kept, EventsCountedOnce, NotifiedOnce

LEMMA WaitKeeps ==
  ASSUME NEW j \in DOMAIN jobs, LedgerInv, WaitElapses(j)
  PROVE  LedgerInv'
  <1>1. Types /\ RowsAreKept /\ jobs' = [jobs EXCEPT ![j].status = "queued"]
        /\ UNCHANGED <<happened, stamped, hits, notified, current, at, work>>
    BY DEF LedgerInv, WaitElapses, ledger
  <1>2. j \in 1..Len(jobs)
    BY <1>1 DEF Types
  <1>3. jobs' \in Seq(Rows) /\ Len(jobs') = Len(jobs) /\ RowsAreKept'
    BY <1>1, <1>2, StatusKept
  <1>4. Kept' = Kept /\ Types'
    BY <1>1, <1>3 DEF Kept, Types
  <1>. QED
    BY <1>1, <1>3, <1>4 DEF LedgerInv, EventsCountedOnce, NotifiedOnce, Delivers, Tells, Replays

\* A projection's own phases.
LEMMA ReadKeeps == LedgerInv /\ ReadRecord => LedgerInv'
  <1>. SUFFICES ASSUME LedgerInv, ReadRecord PROVE LedgerInv'
    OBVIOUS
  <1>1. /\ current \in 1..Len(jobs) /\ Me.kind = "recall_projection" /\ Me \in Rows
        /\ at' = "apply" /\ UNCHANGED <<happened, stamped, hits, notified, jobs, current>>
    BY DEF LedgerInv, Types, ReadRecord, Running, Me, ledger
  <1>2. RowEvents(Me) \subseteq Kept
    BY <1>1 DEF LedgerInv, RowsAreKept, Me
  <1>3. work'.events \in Seq(Events) /\ \A i \in 1..Len(work'.events) : work'.events[i] \in Kept
    <2>1. CASE Me.part = "complete"
      <3>1. work'.events = <<<<Me.about, "opening">>, <<Me.about, "answer">>>>
        BY <2>1 DEF ReadRecord, LedgerInv, Types
      <3>2. <<Me.about, "opening">> \in Kept /\ <<Me.about, "answer">> \in Kept
        BY <1>2, <2>1 DEF RowEvents
      <3>3. Kept \subseteq Events
        BY DEF Kept, LedgerInv, Types
      <3>. QED
        BY <3>1, <3>2, <3>3
    <2>2. CASE Me.part # "complete"
      <3>1. work'.events = <<<<Me.about, Me.part>>>>
        BY <2>2 DEF ReadRecord, LedgerInv, Types
      <3>2. <<Me.about, Me.part>> \in Kept
        BY <1>2, <2>2 DEF RowEvents
      <3>3. Kept \subseteq Events
        BY DEF Kept, LedgerInv, Types
      <3>. QED
        BY <3>1, <3>2, <3>3
    <2>. QED
      BY <2>1, <2>2
  <1>4. DOMAIN work' = DOMAIN work
    BY DEF ReadRecord
  <1>. QED
    BY <1>1, <1>3, <1>4 DEF LedgerInv, Types, RowsAreKept, Kept, EventsCountedOnce, NotifiedOnce,
       Delivers, Tells, Replays

LEMMA ApplyKeeps == LedgerInv /\ ApplyAccessStats => LedgerInv'
  <1>. SUFFICES ASSUME LedgerInv, ApplyAccessStats PROVE LedgerInv'
    OBVIOUS
  <1>. DEFINE e == Head(work.events)
  <1>1. e \in Kept /\ e \in Events /\ e \notin stamped /\ work.events # <<>>
    BY DEF LedgerInv, Delivers, ApplyAccessStats, Running
  <1>2. stamped' = stamped \cup {e} /\ hits' = [hits EXCEPT ![e] = @ + 1] /\ at' = "notify"
        /\ UNCHANGED <<happened, notified, jobs, current, work>> /\ at = "apply"
    BY DEF ApplyAccessStats, Running
  <1>3. hits[e] = 0 /\ notified[e] = 0
    BY <1>1 DEF LedgerInv, EventsCountedOnce, NotifiedOnce, Types
  <1>. HIDE DEF e
  <1>4. Types' /\ RowsAreKept' /\ (stamped \subseteq Kept)' /\ Delivers'
    BY <1>1, <1>2 DEF LedgerInv, Types, RowsAreKept, Kept, Delivers
  <1>5. EventsCountedOnce' /\ NotifiedOnce'
    BY <1>1, <1>2, <1>3 DEF LedgerInv, Types, EventsCountedOnce, NotifiedOnce
  <1>6. Tells' /\ Replays'
    BY <1>1, <1>2, <1>3 DEF Tells, Replays, e
  <1>. QED
    BY <1>4, <1>5, <1>6 DEF LedgerInv

LEMMA AlreadyKeeps == LedgerInv /\ AlreadyApplied => LedgerInv'
  <1>. SUFFICES ASSUME LedgerInv, AlreadyApplied PROVE LedgerInv'
    OBVIOUS
  <1>1. /\ at = "apply" /\ UNCHANGED <<happened, stamped, hits, notified, jobs, current, at>>
        /\ work.events # <<>> /\ work' = [work EXCEPT !.events = Tail(@)]
    BY DEF AlreadyApplied, Running, ledger
  <1>2. work'.events = Tail(work.events) /\ DOMAIN work' = DOMAIN work
    BY <1>1 DEF LedgerInv, Types
  <1>3. Delivers'
    BY <1>1, <1>2 DEF LedgerInv, Delivers, Kept
  <1>. QED
    BY <1>1, <1>2, <1>3 DEF LedgerInv, Types, RowsAreKept, Kept, EventsCountedOnce, NotifiedOnce,
       Tells, Replays

LEMMA NotifyKeeps == LedgerInv /\ NotifyRecall => LedgerInv'
  <1>. SUFFICES ASSUME LedgerInv, NotifyRecall PROVE LedgerInv'
    OBVIOUS
  <1>. DEFINE e == Head(work.events)
  <1>1. /\ at = "notify" /\ at' = "apply" /\ UNCHANGED <<happened, stamped, hits, jobs, current>>
        /\ notified' = [notified EXCEPT ![e] = @ + 1] /\ work' = [work EXCEPT !.events = Tail(@)]
    BY DEF NotifyRecall, Running
  <1>2. work.events # <<>> /\ e \in stamped /\ notified[e] = 0 /\ e \in Events
    BY <1>1 DEF LedgerInv, Tells, Delivers
  <1>3. work'.events = Tail(work.events) /\ DOMAIN work' = DOMAIN work
    BY <1>1 DEF LedgerInv, Types
  <1>4. Delivers'
    BY <1>1, <1>2, <1>3 DEF LedgerInv, Delivers, Kept
  <1>. HIDE DEF e
  <1>5. Types' /\ NotifiedOnce'
    BY <1>1, <1>2, <1>3 DEF LedgerInv, Types, NotifiedOnce
  <1>. QED
    BY <1>1, <1>4, <1>5 DEF LedgerInv, RowsAreKept, Kept, EventsCountedOnce, Tells, Replays

\* A rebuild's own phases.
LEMMA ReplayKeeps == LedgerInv /\ ReplayPage => LedgerInv'
  <1>. SUFFICES ASSUME LedgerInv, ReplayPage PROVE LedgerInv'
    OBVIOUS
  <1>1. PICK page \in SUBSET Replayable :
          work' = [work EXCEPT !.seen = @ \cup page,
                     !.sums = [e \in Events |-> IF e \in page THEN @[e] + 1 ELSE @[e]]]
    BY DEF ReplayPage
  <1>2. at = "replay" /\ UNCHANGED <<happened, stamped, hits, notified, jobs, current, at>>
    BY DEF ReplayPage, Running, ledger
  <1>3. /\ work'.seen = work.seen \cup page /\ DOMAIN work' = DOMAIN work
        /\ work'.sums = [e \in Events |-> IF e \in page THEN work.sums[e] + 1 ELSE work.sums[e]]
    BY <1>1 DEF LedgerInv, Types
  <1>4. page \subseteq stamped /\ page \cap work.seen = {}
    BY DEF Replayable
  <1>5. Replays'
    BY <1>2, <1>3, <1>4 DEF LedgerInv, Replays
  <1>. QED
    BY <1>2, <1>3, <1>5 DEF LedgerInv, Types, RowsAreKept, Kept, EventsCountedOnce, NotifiedOnce,
       Delivers, Tells

\* The swap writes the sums that are there already.
LEMMA SwapIsStill == LedgerInv /\ ReplaceAccessStats => UNCHANGED <<happened, hits>>
  <1>. SUFFICES ASSUME LedgerInv, ReplaceAccessStats PROVE UNCHANGED <<happened, hits>>
    OBVIOUS
  <1>1. at = "replay" /\ Replayable = {} /\ hits' = work.sums /\ happened' = happened
    BY DEF ReplaceAccessStats, Running
  <1>2. work.seen = stamped
    BY <1>1 DEF LedgerInv, Replays, Replayable, Kept
  <1>3. \A e \in Events : hits'[e] = hits[e]
    BY <1>1, <1>2 DEF LedgerInv, Replays, EventsCountedOnce
  <1>4. hits \in [Events -> Nat] /\ hits' \in [Events -> Nat]
    BY <1>1 DEF LedgerInv, Types, Replays
  <1>. QED
    BY <1>1, <1>3, <1>4

LEMMA ReplaceKeeps == LedgerInv /\ ReplaceAccessStats => LedgerInv'
  <1>. SUFFICES ASSUME LedgerInv, ReplaceAccessStats PROVE LedgerInv'
    OBVIOUS
  <1>1. UNCHANGED <<happened, stamped, hits, notified, jobs, current, work>> /\ at' = "forget"
    BY SwapIsStill DEF ReplaceAccessStats
  <1>. QED
    BY <1>1, QuietSteps DEF ledger

\* The people component's phases and the endings.
LEMMA PeopleKeep ==
  ASSUME LedgerInv,
         \/ ReadBoundary \/ MergeBoundary \/ RefreshTerms \/ HookFails \/ AddTerms \/ CountMirror
         \/ SetReportedSince \/ ForgetMirror \/ DeletePeopleTerms \/ ListSources \/ FoldSource
         \/ ReaddTerms \/ RecountMirror \/ StampsAfterReplay \/ Rebuilt \/ Projected
  PROVE  LedgerInv'
  <1>1. CASE ReadBoundary \/ MergeBoundary \/ RefreshTerms
    <2>1. UNCHANGED <<ledger, jobs, current>> /\ DOMAIN work' = DOMAIN work
          /\ at' \notin {"apply", "notify", "replay"}
      BY <1>1 DEF ReadBoundary, MergeBoundary, RefreshTerms
    <2>. QED
      BY <2>1, QuietSteps
  <1>2. CASE HookFails \/ AddTerms \/ CountMirror \/ SetReportedSince
    <2>1. UNCHANGED <<ledger, jobs, current, work>> /\ at' \notin {"apply", "notify", "replay"}
      BY <1>2 DEF HookFails, AddTerms, CountMirror, SetReportedSince
    <2>. QED
      BY <2>1, QuietSteps
  <1>3. CASE ForgetMirror \/ DeletePeopleTerms \/ FoldSource \/ ReaddTerms \/ StampsAfterReplay
             \/ Rebuilt \/ Projected
    <2>1. UNCHANGED <<ledger, jobs, current, work>> /\ at' \notin {"apply", "notify", "replay"}
      BY <1>3 DEF ForgetMirror, DeletePeopleTerms, FoldSource, ReaddTerms, StampsAfterReplay,
         Rebuilt, Projected
    <2>. QED
      BY <2>1, QuietSteps
  <1>4. CASE ListSources \/ RecountMirror
    <2>1. UNCHANGED <<ledger, jobs, current>> /\ DOMAIN work' = DOMAIN work
          /\ at' \notin {"apply", "notify", "replay"}
      BY <1>4 DEF ListSources, RecountMirror
    <2>. QED
      BY <2>1, QuietSteps
  <1>. QED
    BY <1>1, <1>2, <1>3, <1>4

LEMMA BodyKeeps == LedgerInv /\ Body => LedgerInv'
  <1>. SUFFICES ASSUME LedgerInv, Body PROVE LedgerInv'
    OBVIOUS
  <1>1. CASE Completes
    BY <1>1, EndsSteps DEF Completes
  <1>2. CASE RebuildFails
    BY <1>2, EndsSteps DEF RebuildFails
  <1>3. CASE ReadRecord \/ ApplyAccessStats \/ AlreadyApplied \/ NotifyRecall
    BY <1>3, ReadKeeps, ApplyKeeps, AlreadyKeeps, NotifyKeeps
  <1>4. CASE ReplayPage \/ ReplaceAccessStats
    BY <1>4, ReplayKeeps, ReplaceKeeps
  <1>. QED
    BY <1>1, <1>2, <1>3, <1>4, PeopleKeep DEF Body

LEMMA WindowKeeps == LedgerInv /\ Window => LedgerInv'
  <1>1. Window => UNCHANGED <<ledger, lane>>
    BY DEF Window, OpenWindow, PrepareReads, PrepareMerges, PrepareReadsTerms,
       PrepareTerms, CloseWindow
  <1>. QED
    BY <1>1, StillSteps

LEMMA DeathKeeps == LedgerInv /\ WorkerDies => LedgerInv'
  <1>1. CASE current = 0
    BY <1>1, StillSteps DEF WorkerDies
  <1>2. CASE current # 0
    BY <1>2, EndsSteps DEF WorkerDies
  <1>. QED
    BY <1>1, <1>2

LEMMA StepKeeps == LedgerInv /\ [Next]_vars => LedgerInv'
  <1>. SUFFICES ASSUME LedgerInv, [Next]_vars PROVE LedgerInv'
    OBVIOUS
  <1>1. CASE UNCHANGED vars
    BY <1>1, StillSteps DEF vars
  <1>2. CASE Next
    BY <1>2, CallersKeep, ClaimKeeps, BodyKeeps, WindowKeeps, DeathKeeps, WaitKeeps DEF Next
  <1>. QED
    BY <1>1, <1>2

LEMMA LedgerInvAlways == Spec => []LedgerInv
  BY InitLedgerInv, StepKeeps, PTL DEF Spec
-----------------------------------------------------------------------------
(* apply_record and rebuild_access_stats: however often a delivery comes   *)
(* again, a body dies or a rebuild replays, an event is in the sums once   *)
(* if it is stamped and not at all before.                                 *)
THEOREM EventsAreCountedOnce == Spec => []EventsCountedOnce
  <1>1. LedgerInv => EventsCountedOnce
    BY DEF LedgerInv
  <1>. QED
    BY <1>1, LedgerInvAlways, PTL

(* run_recall_projection_job: the components hear of an event at most once *)
(* and never of one the sums lack.                                         *)
THEOREM ComponentsHearOnce == Spec => []NotifiedOnce
  <1>1. LedgerInv => NotifiedOnce
    BY DEF LedgerInv
  <1>. QED
    BY <1>1, LedgerInvAlways, PTL
-----------------------------------------------------------------------------
(* The access ledger implements Tally: a caller puts events on record, an  *)
(* application counts one of them, and every other step, a rebuild's swap  *)
(* included, changes neither.                                              *)

LEMMA CallersHappen == LedgerInv /\ Callers => (\E new \in SUBSET Events : T!Happen(new))
  <1>. SUFFICES ASSUME LedgerInv, Callers PROVE \E new \in SUBSET Events : T!Happen(new)
    OBVIOUS
  <1>1. ASSUME NEW c \in Consultations, NEW part \in {"opening", "complete"},
               CreateConsultation(c, part)
        PROVE  T!Happen(IF part = "complete" THEN {<<c, "opening">>, <<c, "answer">>}
                        ELSE {<<c, "opening">>})
    BY <1>1 DEF CreateConsultation, T!Happen
  <1>2. ASSUME NEW c \in Consultations, AnswerConsultation(c) PROVE T!Happen({<<c, "answer">>})
    BY <1>2 DEF AnswerConsultation, T!Happen
  <1>3. (\E s \in Sources : ImportSource(s)) \/ RequestRebuild => T!Happen({})
    BY DEF ImportSource, RequestRebuild, ledger, T!Happen
  <1>4. \A c \in Consultations : {<<c, "opening">>} \in SUBSET Events /\ {<<c, "answer">>} \in SUBSET Events
          /\ {<<c, "opening">>, <<c, "answer">>} \in SUBSET Events
    BY DEF Events
  <1>. QED
    BY <1>1, <1>2, <1>3, <1>4 DEF Callers

LEMMA ApplicationCounts == LedgerInv /\ ApplyAccessStats => (\E e \in Events : T!Count(e))
  <1>. SUFFICES ASSUME LedgerInv, ApplyAccessStats PROVE \E e \in Events : T!Count(e)
    OBVIOUS
  <1>1. Head(work.events) \in Kept /\ Head(work.events) \in Events
    BY DEF LedgerInv, Delivers, ApplyAccessStats, Running
  <1>2. hits[Head(work.events)] = 0 /\ hits \in [Events -> Nat]
    BY <1>1 DEF LedgerInv, Types, EventsCountedOnce, ApplyAccessStats
  <1>3. T!Count(Head(work.events))
    BY <1>1, <1>2 DEF ApplyAccessStats, T!Count, Kept
  <1>. QED
    BY <1>1, <1>3

LEMMA OthersAreStill ==
  ASSUME LedgerInv, ClaimNext \/ Body \/ Window \/ WorkerDies \/ \E j \in DOMAIN jobs : WaitElapses(j),
         ~ApplyAccessStats
  PROVE  UNCHANGED <<happened, hits>>
  <1>1. ClaimNext \/ Window \/ WorkerDies \/ (\E j \in DOMAIN jobs : WaitElapses(j)) => UNCHANGED ledger
    BY DEF ClaimNext, Window, OpenWindow, PrepareReads, PrepareMerges, PrepareReadsTerms,
       PrepareTerms, CloseWindow,
       WorkerDies, WaitElapses
  <1>2. NotifyRecall => UNCHANGED <<happened, hits>>
    BY DEF NotifyRecall
  <1>3. ReadBoundary \/ MergeBoundary \/ RefreshTerms => UNCHANGED ledger
    BY DEF ReadBoundary, MergeBoundary, RefreshTerms
  <1>4. \/ Completes \/ ReadRecord \/ AlreadyApplied \/ Projected \/ ReplayPage \/ HookFails \/ AddTerms
        \/ CountMirror \/ SetReportedSince
        => UNCHANGED ledger
    BY DEF Completes, ReadRecord, AlreadyApplied, Projected, ReplayPage, HookFails, AddTerms,
       CountMirror, SetReportedSince
  <1>5. \/ ForgetMirror \/ DeletePeopleTerms \/ ListSources \/ FoldSource \/ ReaddTerms \/ RecountMirror
        \/ StampsAfterReplay \/ Rebuilt \/ RebuildFails
        => UNCHANGED ledger
    BY DEF ForgetMirror, DeletePeopleTerms, ListSources, FoldSource, ReaddTerms, RecountMirror,
       StampsAfterReplay, Rebuilt, RebuildFails
  <1>. QED
    BY <1>1, <1>2, <1>3, <1>4, <1>5, SwapIsStill DEF Body, ledger

\* Every behaviour of the readings is a behaviour of the tally: whatever callers, deliveries,
\* deaths and rebuilds do, an event enters the sums in one step, once, after it happened.
THEOREM LedgerIsTallied == Spec => RecordsAreTallied
  <1>1. Init => T!Init
    BY DEF Init, T!Init, NoHits
  <1>2. LedgerInv /\ [Next]_vars => [T!Next]_<<happened, hits>>
    <2>1. LedgerInv /\ Next => T!Next \/ UNCHANGED <<happened, hits>>
      BY CallersHappen, ApplicationCounts, OthersAreStill DEF Next, T!Next
    <2>2. UNCHANGED vars => UNCHANGED <<happened, hits>>
      BY DEF vars, ledger
    <2>. QED
      BY <2>1, <2>2
  <1>. QED
    BY <1>1, <1>2, LedgerInvAlways, PTL DEF Spec, RecordsAreTallied, T!Spec
-----------------------------------------------------------------------------
(* Who writes what. *)

LEMMA TableWriters ==
  ASSUME [Next]_vars
  PROVE  \/ UNCHANGED table
         \/ AddTerms \/ SetReportedSince \/ DeletePeopleTerms \/ ReaddTerms \/ StampsAfterReplay
  <1>1. Callers \/ ClaimNext \/ Window \/ WorkerDies \/ (\E j \in DOMAIN jobs : WaitElapses(j))
        => UNCHANGED table
    BY DEF Callers, CreateConsultation, AnswerConsultation, ImportSource, RequestRebuild, ClaimNext,
       Window, OpenWindow, PrepareReads, PrepareMerges, PrepareReadsTerms,
       PrepareTerms, CloseWindow, WorkerDies,
       WaitElapses
  <1>2. ReadBoundary \/ MergeBoundary \/ RefreshTerms => UNCHANGED table
    BY DEF ReadBoundary, MergeBoundary, RefreshTerms
  <1>3. \/ Completes \/ ReadRecord \/ ApplyAccessStats \/ AlreadyApplied \/ NotifyRecall \/ Projected
        \/ ReplayPage \/ ReplaceAccessStats \/ HookFails \/ CountMirror
        => UNCHANGED table
    BY DEF Completes, ReadRecord, ApplyAccessStats, AlreadyApplied, NotifyRecall, Projected,
       ReplayPage, ReplaceAccessStats, HookFails, CountMirror
  <1>4. \/ ForgetMirror \/ ListSources \/ FoldSource \/ RecountMirror \/ Rebuilt \/ RebuildFails
        => UNCHANGED table
    BY DEF ForgetMirror, ListSources, FoldSource, RecountMirror, Rebuilt, RebuildFails
  <1>5. UNCHANGED vars => UNCHANGED table
    BY DEF vars
  <1>. QED
    BY <1>1, <1>2, <1>3, <1>4, <1>5 DEF Next, Body

LEMMA MirrorWriters ==
  ASSUME [Next]_vars
  PROVE  \/ UNCHANGED mirror
         \/ MergeBoundary \/ RefreshTerms \/ CountMirror \/ ForgetMirror \/ FoldSource
         \/ RecountMirror \/ PrepareMerges \/ PrepareTerms \/ WorkerDies
  <1>1. \/ Callers \/ ClaimNext \/ OpenWindow \/ PrepareReads \/ PrepareReadsTerms \/ CloseWindow
        \/ ReadBoundary \/ (\E j \in DOMAIN jobs : WaitElapses(j))
        => UNCHANGED mirror
    BY DEF Callers, CreateConsultation, AnswerConsultation, ImportSource, RequestRebuild, ClaimNext,
       OpenWindow, PrepareReads, PrepareReadsTerms, CloseWindow, ReadBoundary, WaitElapses
  <1>2. \/ Completes \/ ReadRecord \/ ApplyAccessStats \/ AlreadyApplied \/ NotifyRecall \/ Projected
        \/ ReplayPage \/ ReplaceAccessStats \/ HookFails \/ AddTerms \/ SetReportedSince
        => UNCHANGED mirror
    BY DEF Completes, ReadRecord, ApplyAccessStats, AlreadyApplied, NotifyRecall, Projected,
       ReplayPage, ReplaceAccessStats, HookFails, AddTerms, SetReportedSince
  <1>3. \/ DeletePeopleTerms \/ ListSources \/ ReaddTerms \/ StampsAfterReplay \/ Rebuilt \/ RebuildFails
        => UNCHANGED mirror
    BY DEF DeletePeopleTerms, ListSources, ReaddTerms, StampsAfterReplay, Rebuilt, RebuildFails
  <1>4. UNCHANGED vars => UNCHANGED mirror
    BY DEF vars
  <1>. QED
    BY <1>1, <1>2, <1>3, <1>4 DEF Next, Body, Window

LEMMA ReadsWriters ==
  ASSUME [Next]_vars
  PROVE  \/ UNCHANGED reads
         \/ ReadBoundary \/ MergeBoundary \/ ForgetMirror \/ PrepareReads \/ PrepareMerges
         \/ WorkerDies
  <1>1. \/ Callers \/ ClaimNext \/ OpenWindow \/ PrepareReadsTerms \/ PrepareTerms \/ CloseWindow
        \/ (\E j \in DOMAIN jobs : WaitElapses(j))
        => UNCHANGED reads
    BY DEF Callers, CreateConsultation, AnswerConsultation, ImportSource, RequestRebuild, ClaimNext,
       OpenWindow, PrepareReadsTerms, PrepareTerms, CloseWindow, WaitElapses
  <1>2. \/ Completes \/ ReadRecord \/ ApplyAccessStats \/ AlreadyApplied \/ NotifyRecall \/ Projected
        \/ ReplayPage \/ ReplaceAccessStats \/ HookFails \/ AddTerms \/ SetReportedSince
        => UNCHANGED reads
    BY DEF Completes, ReadRecord, ApplyAccessStats, AlreadyApplied, NotifyRecall, Projected,
       ReplayPage, ReplaceAccessStats, HookFails, AddTerms, SetReportedSince
  <1>3. \/ RefreshTerms \/ CountMirror \/ DeletePeopleTerms \/ ListSources \/ FoldSource \/ ReaddTerms
        \/ RecountMirror \/ StampsAfterReplay \/ Rebuilt \/ RebuildFails
        => UNCHANGED reads
    BY DEF RefreshTerms, CountMirror, DeletePeopleTerms, ListSources, FoldSource, ReaddTerms,
       RecountMirror, StampsAfterReplay, Rebuilt, RebuildFails
  <1>4. UNCHANGED vars => UNCHANGED reads
    BY DEF vars
  <1>. QED
    BY <1>1, <1>2, <1>3, <1>4 DEF Next, Body, Window

LEMMA WindowWriters ==
  ASSUME [Next]_vars
  PROVE  \/ UNCHANGED window
         \/ OpenWindow \/ PrepareReads \/ PrepareMerges \/ PrepareReadsTerms \/ PrepareTerms
         \/ CloseWindow \/ ForgetMirror \/ WorkerDies
  <1>1. Callers \/ ClaimNext \/ (\E j \in DOMAIN jobs : WaitElapses(j)) => UNCHANGED window
    BY DEF Callers, CreateConsultation, AnswerConsultation, ImportSource, RequestRebuild, ClaimNext,
       WaitElapses
  <1>2. ReadBoundary \/ MergeBoundary \/ RefreshTerms => UNCHANGED window
    BY DEF ReadBoundary, MergeBoundary, RefreshTerms
  <1>3. \/ Completes \/ ReadRecord \/ ApplyAccessStats \/ AlreadyApplied \/ NotifyRecall \/ Projected
        \/ ReplayPage \/ ReplaceAccessStats \/ HookFails \/ AddTerms \/ CountMirror \/ SetReportedSince
        => UNCHANGED window
    BY DEF Completes, ReadRecord, ApplyAccessStats, AlreadyApplied, NotifyRecall, Projected,
       ReplayPage, ReplaceAccessStats, HookFails, AddTerms, CountMirror, SetReportedSince
  <1>4. \/ DeletePeopleTerms \/ ListSources \/ FoldSource \/ ReaddTerms \/ RecountMirror
        \/ StampsAfterReplay \/ Rebuilt \/ RebuildFails
        => UNCHANGED window
    BY DEF DeletePeopleTerms, ListSources, FoldSource, ReaddTerms, RecountMirror,
       StampsAfterReplay, Rebuilt, RebuildFails
  <1>5. UNCHANGED vars => UNCHANGED window
    BY DEF vars
  <1>. QED
    BY <1>1, <1>2, <1>3, <1>4, <1>5 DEF Next, Body, Window

LEMMA MissedWriter == [Next]_vars => UNCHANGED missed \/ HookFails
  <1>1. Callers \/ ClaimNext \/ Window \/ WorkerDies \/ (\E j \in DOMAIN jobs : WaitElapses(j))
        => UNCHANGED missed
    BY DEF Callers, CreateConsultation, AnswerConsultation, ImportSource, RequestRebuild, ClaimNext,
       Window, OpenWindow, PrepareReads, PrepareMerges, PrepareReadsTerms,
       PrepareTerms, CloseWindow, WorkerDies,
       WaitElapses
  <1>2. ReadBoundary \/ MergeBoundary \/ RefreshTerms => UNCHANGED missed
    BY DEF ReadBoundary, MergeBoundary, RefreshTerms
  <1>3. \/ Completes \/ ReadRecord \/ ApplyAccessStats \/ AlreadyApplied \/ NotifyRecall \/ Projected
        \/ ReplayPage \/ ReplaceAccessStats \/ AddTerms \/ CountMirror \/ SetReportedSince
        => UNCHANGED missed
    BY DEF Completes, ReadRecord, ApplyAccessStats, AlreadyApplied, NotifyRecall, Projected,
       ReplayPage, ReplaceAccessStats, AddTerms, CountMirror, SetReportedSince
  <1>4. \/ ForgetMirror \/ DeletePeopleTerms \/ ListSources \/ FoldSource \/ ReaddTerms
        \/ RecountMirror \/ StampsAfterReplay \/ Rebuilt \/ RebuildFails
        => UNCHANGED missed
    BY DEF ForgetMirror, DeletePeopleTerms, ListSources, FoldSource, ReaddTerms, RecountMirror,
       StampsAfterReplay, Rebuilt, RebuildFails
  <1>5. UNCHANGED vars => UNCHANGED missed
    BY DEF vars
  <1>. QED
    BY <1>1, <1>2, <1>3, <1>4, <1>5 DEF Next, Body

-----------------------------------------------------------------------------
(* people.py on_source_indexed and rebuild: a source is in the term counts *)
(* once if the manifest lists it and not at all otherwise.                 *)

TermsInv == terms \in [Sources -> Nat] /\ TermsCountedOnce

LEMMA TermsStep == TermsInv /\ [Next]_vars => TermsInv'
  <1>. SUFFICES ASSUME TermsInv, [Next]_vars PROVE TermsInv'
    OBVIOUS
  <1>1. CASE UNCHANGED <<manifest, terms>>
    BY <1>1 DEF TermsInv, TermsCountedOnce
  <1>2. CASE AddTerms
    BY <1>1, <1>2 DEF AddTerms, table, TermsInv, TermsCountedOnce
  <1>3. CASE ReaddTerms
    BY <1>1, <1>3 DEF ReaddTerms, TermsInv, TermsCountedOnce
  <1>4. CASE DeletePeopleTerms
    BY <1>4 DEF DeletePeopleTerms, NoCounts, TermsInv, TermsCountedOnce
  <1>5. CASE SetReportedSince \/ StampsAfterReplay \/ UNCHANGED table
    BY <1>1, <1>5 DEF SetReportedSince, StampsAfterReplay, table
  <1>. QED
    BY <1>2, <1>3, <1>4, <1>5, TableWriters

(* The archive subtracts one copy of a source it moves, which is exact     *)
(* because no count ever holds two.                                        *)
THEOREM TermsAreCountedOnce == Spec => []TermsCountedOnce
  <1>1. Init => TermsInv
    BY DEF Init, TermsInv, TermsCountedOnce, NoCounts
  <1>2. TermsInv => TermsCountedOnce
    BY DEF TermsInv
  <1>. QED
    BY <1>1, <1>2, TermsStep, PTL DEF Spec
-----------------------------------------------------------------------------
(* The people component.                                                   *)
(*                                                                         *)
(* What a body of the lane names is in the library, and stays there; so    *)
(* the manifest, the terms and the mirror speak of imported sources only.  *)

\* A function into the naturals is least somewhere on a finite set, and greatest somewhere.
LEMMA FiniteLeast ==
  ASSUME NEW S, IsFiniteSet(S), S # {}, NEW f \in [S -> Nat]
  PROVE  \E x \in S : \A y \in S : f[x] <= f[y]
  <1>. DEFINE Below(x) == {y \in S : f[y] <= f[x]}
              all == {Below(x) : x \in S}
  <1>1. IsWellFoundedOn(StrictSubsetOrdering(S), SUBSET S)
    BY FS_StrictSubsetOrderingWellFounded, FS_FiniteSubsetsOfFinite
  <1>2. all \subseteq SUBSET S /\ all # {}
    <2>1. PICK x \in S : TRUE
      OBVIOUS
    <2>2. Below(x) \in all
      BY <2>1
    <2>3. all \subseteq SUBSET S
      OBVIOUS
    <2>. QED
      BY <2>2, <2>3
  <1>3. \E V \in all : \A U \in all : <<U, V>> \notin StrictSubsetOrdering(S)
    <2>. HIDE DEF all
    <2>. QED
      BY <1>1, <1>2, WFMin
  <1>4. PICK x \in S : \A y \in S : <<Below(y), Below(x)>> \notin StrictSubsetOrdering(S)
    BY <1>3
  <1>5. ASSUME NEW y \in S, ~(f[x] <= f[y]) PROVE FALSE
    <2>1. f[x] \in Nat /\ f[y] \in Nat /\ f[y] < f[x]
      BY <1>5
    <2>2. Below(y) \subseteq Below(x) /\ x \in Below(x) /\ x \notin Below(y)
      BY <2>1
    <2>3. <<Below(y), Below(x)>> \in StrictSubsetOrdering(S)
      BY <2>2 DEF StrictSubsetOrdering
    <2>. QED
      BY <1>4, <2>3
  <1>. QED
    BY <1>5

LEMMA FiniteGreatest ==
  ASSUME NEW S, IsFiniteSet(S), S # {}, NEW f \in [S -> Nat]
  PROVE  \E x \in S : \A y \in S : f[y] <= f[x]
  <1>. DEFINE Above(x) == {y \in S : f[x] <= f[y]}
              all == {Above(x) : x \in S}
  <1>1. IsWellFoundedOn(StrictSubsetOrdering(S), SUBSET S)
    BY FS_StrictSubsetOrderingWellFounded, FS_FiniteSubsetsOfFinite
  <1>2. all \subseteq SUBSET S /\ all # {}
    <2>1. PICK x \in S : TRUE
      OBVIOUS
    <2>2. Above(x) \in all
      BY <2>1
    <2>3. all \subseteq SUBSET S
      OBVIOUS
    <2>. QED
      BY <2>2, <2>3
  <1>3. \E V \in all : \A U \in all : <<U, V>> \notin StrictSubsetOrdering(S)
    <2>. HIDE DEF all
    <2>. QED
      BY <1>1, <1>2, WFMin
  <1>4. PICK x \in S : \A y \in S : <<Above(y), Above(x)>> \notin StrictSubsetOrdering(S)
    BY <1>3
  <1>5. ASSUME NEW y \in S, ~(f[y] <= f[x]) PROVE FALSE
    <2>1. f[x] \in Nat /\ f[y] \in Nat /\ f[x] < f[y]
      BY <1>5
    <2>2. Above(y) \subseteq Above(x) /\ x \in Above(x) /\ x \notin Above(y)
      BY <2>1
    <2>3. <<Above(y), Above(x)>> \in StrictSubsetOrdering(S)
      BY <2>2 DEF StrictSubsetOrdering
    <2>. QED
      BY <1>4, <2>3
  <1>. QED
    BY <1>5

\* No index row names a source that is not in the library.
RowsKnowSources == \A j \in 1..Len(jobs) : jobs[j].kind = "index" => jobs[j].about \in Library

OneClaimed == \A j \in DOMAIN jobs : jobs[j].status = "claimed" => j = current

LaneTypes ==
    /\ library \in Seq(Sources) /\ at \in Phases /\ OneClaimed /\ RowsKnowSources
    /\ {"left", "stamp"} \subseteq DOMAIN work
    /\ work.left \subseteq Library /\ work.stamp \in Days
    /\ at \in {"readd", "recount"} => work.left # {}

TableTypes ==
    /\ manifest \subseteq Library /\ missed \subseteq Library
    /\ terms \in [Sources -> Nat] /\ reported \in Days

\* The watermark is the date of a source of the library, or nothing is mirrored.
Marks == {0} \cup {Stamp[s] : s \in Library}

MirrorTypes ==
    /\ mirror \in [names : SUBSET Sources, mark : Days, boundary : BOOLEAN, outlived : BOOLEAN,
                   counts : [Sources -> Nat], reported : Days, ready : BOOLEAN, kept : BOOLEAN]
    /\ mirror.mark \in Marks

\* A read that is under way began at a length the library has had, from such a watermark.
ReadsTypes ==
    /\ reads \in [Readers -> [mark : Days, from : 0..Len(library), own : BOOLEAN]]
    /\ \A r \in Readers : reads[r].mark \in Marks

TermsRead == [counts : [Sources -> Nat], reported : Days]

WindowTypes ==
    /\ window.phase \in {"closed", "boundary", "merge", "terms", "assign", "judging"}
    /\ {"phase", "library", "disturbed", "rows"} \subseteq DOMAIN window
    /\ window.library \subseteq Library /\ window.rows \in TermsRead

PeopleTypes == LaneTypes /\ TableTypes /\ MirrorTypes /\ ReadsTypes /\ WindowTypes

LEMMA LibraryIsFinite ==
  ASSUME library \in Seq(Sources)
  PROVE  Library \subseteq Sources /\ IsFiniteSet(Library)
  <1>1. Library \subseteq Sources
    BY DEF Library
  <1>. QED
    BY <1>1, FS_Subset, ReadingsAssumption

\* Sources are imported once, behind one another, and none leaves.
LEMMA LibraryGrows ==
  ASSUME library \in Seq(Sources), [Next]_vars
  PROVE  /\ library' \in Seq(Sources) /\ Library \subseteq Library'
         /\ \/ library' = library
            \/ \E s \in Sources : /\ library' = Append(library, s) /\ Library' = Library \cup {s}
                                  /\ s \notin Library /\ jobs' = Append(jobs, Row("index", s, "complete"))
                                  /\ UNCHANGED <<ledger, table, missed, mirror, reads, window, current, at, work>>
  <1>1. CASE library' = library
    BY <1>1 DEF Library
  <1>2. CASE \E s \in Sources : ImportSource(s)
    <2>1. PICK s \in Sources : ImportSource(s)
      BY <1>2
    <2>2. library' = Append(library, s) /\ s \notin Library
          /\ jobs' = Append(jobs, Row("index", s, "complete"))
          /\ UNCHANGED <<ledger, table, missed, mirror, reads, window, current, at, work>>
      BY <2>1 DEF ImportSource
    <2>3. Library' = Library \cup {s}
      BY <2>2 DEF Library
    <2>. QED
      BY <2>2, <2>3
  <1>3. UNCHANGED vars \/ ClaimNext \/ Window \/ WorkerDies \/ (\E j \in DOMAIN jobs : WaitElapses(j))
        => library' = library
    BY DEF vars, ClaimNext, Window, OpenWindow, PrepareReads, PrepareMerges, PrepareReadsTerms,
       PrepareTerms, CloseWindow,
       WorkerDies, WaitElapses
  <1>4. (\E c \in Consultations : AnswerConsultation(c)
           \/ \E part \in {"opening", "complete"} : CreateConsultation(c, part)) \/ RequestRebuild
        => library' = library
    BY DEF CreateConsultation, AnswerConsultation, RequestRebuild
  <1>5. ReadBoundary \/ MergeBoundary \/ RefreshTerms
        => library' = library
    BY DEF ReadBoundary, MergeBoundary, RefreshTerms
  <1>6. \/ Completes \/ ReadRecord \/ ApplyAccessStats \/ AlreadyApplied \/ NotifyRecall \/ Projected
        \/ ReplayPage \/ ReplaceAccessStats \/ HookFails \/ AddTerms \/ CountMirror
        \/ SetReportedSince
        => library' = library
    BY DEF Completes, ReadRecord, ApplyAccessStats, AlreadyApplied, NotifyRecall, Projected,
       ReplayPage, ReplaceAccessStats, HookFails, AddTerms, CountMirror, SetReportedSince
  <1>7. \/ ForgetMirror \/ DeletePeopleTerms \/ ListSources \/ FoldSource \/ ReaddTerms
        \/ RecountMirror \/ StampsAfterReplay \/ Rebuilt \/ RebuildFails
        => library' = library
    BY DEF ForgetMirror, DeletePeopleTerms, ListSources, FoldSource, ReaddTerms, RecountMirror,
       StampsAfterReplay, Rebuilt, RebuildFails
  <1>. QED
    BY <1>1, <1>2, <1>3, <1>4, <1>5, <1>6, <1>7 DEF Next, Callers, Body

\* The source an index job is about, and the next one of a rebuild.
LEMMA AboutIsKnown ==
  ASSUME LedgerInv, LaneTypes, current # 0, Me.kind = "index"
  PROVE  Me.about \in Library /\ Me.about \in Sources /\ Stamp[Me.about] \in Days
  <1>1. Me.about \in Library
    BY DEF LedgerInv, Types, LaneTypes, RowsKnowSources, Me
  <1>. QED
    BY <1>1, LibraryIsFinite DEF LaneTypes, Days

LEMMA EarliestIsLeft ==
  ASSUME LaneTypes, work.left # {}
  PROVE  /\ Earliest \in work.left /\ Earliest \in Library /\ Earliest \in Sources
         /\ Stamp[Earliest] \in Days
  <1>. DEFINE date == [s \in work.left |-> Stamp[s]]
  <1>1. work.left \subseteq Sources /\ IsFiniteSet(work.left)
    BY LibraryIsFinite, FS_Subset DEF LaneTypes
  <1>2. date \in [work.left -> Nat]
    BY <1>1, ReadingsAssumption
  <1>3. \E s \in work.left : \A t \in work.left : date[s] <= date[t]
    <2>. HIDE DEF date
    <2>. QED
      BY <1>1, <1>2, FiniteLeast
  <1>4. Earliest \in work.left
    BY <1>3 DEF Earliest
  <1>. QED
    BY <1>1, <1>4 DEF LaneTypes, Days

LEMMA InitPeople == Init => PeopleTypes
  <1>. SUFFICES ASSUME Init PROVE PeopleTypes
    OBVIOUS
  <1>1. Library = {}
    BY DEF Init, Library
  <1>2. LaneTypes
    <2>1. library \in Seq(Sources) /\ OneClaimed /\ RowsKnowSources
      BY DEF Init, OneClaimed, RowsKnowSources
    <2>2. {"left", "stamp"} \subseteq DOMAIN work /\ work.left = {} /\ work.stamp = 0 /\ at = "idle"
      BY DEF Init, Nothing
    <2>. QED
      BY <2>1, <2>2 DEF LaneTypes, Phases, Days
  <1>3. TableTypes
    BY DEF Init, TableTypes, NoCounts, Days
  <1>4. MirrorTypes
    BY DEF Init, MirrorTypes, Cold, NoCounts, Days, Marks
  <1>5. WindowTypes
    BY DEF Init, WindowTypes, Closed, NoRows, NoCounts, TermsRead, Days
  <1>6. ReadsTypes
    BY DEF Init, ReadsTypes, NoRead, Days, Marks
  <1>. QED
    BY <1>2, <1>3, <1>4, <1>5, <1>6 DEF PeopleTypes

-----------------------------------------------------------------------------
(* The lane. *)

\* A row that is sent knows its source, and none of a body's things change.
LEMMA LaneSends ==
  ASSUME LedgerInv, LaneTypes, [Next]_vars, NEW row \in Rows, row.status = "queued",
         jobs' = Append(jobs, row), row.kind = "index" => row.about \in Library',
         UNCHANGED <<current, at, work>>
  PROVE  LaneTypes'
  <1>1. Library \subseteq Library' /\ library' \in Seq(Sources)
    BY LibraryGrows DEF LaneTypes
  <1>2. jobs \in Seq(Rows)
    BY DEF LedgerInv, Types
  <1>3. /\ jobs' \in Seq(Rows) /\ DOMAIN jobs' = 1..Len(jobs')
        /\ \A j \in 1..Len(jobs') : (j \in 1..Len(jobs) /\ jobs'[j] = jobs[j]) \/ jobs'[j] = row
    BY <1>2
  <1>4. DOMAIN jobs = 1..Len(jobs)
    BY <1>2
  <1>5. OneClaimed'
    BY <1>3, <1>4 DEF LaneTypes, OneClaimed
  <1>6. RowsKnowSources'
    BY <1>1, <1>3 DEF LaneTypes, RowsKnowSources
  <1>. QED
    BY <1>1, <1>5, <1>6 DEF LaneTypes

\* A body goes on.
LEMMA LaneGoesOn ==
  ASSUME LaneTypes, UNCHANGED <<jobs, current, library>>, at' \in Phases,
         {"left", "stamp"} \subseteq DOMAIN work', work'.left \subseteq Library,
         work'.stamp \in Days, at' \in {"readd", "recount"} => work'.left # {}
  PROVE  LaneTypes'
  <1>1. Library' = Library
    BY DEF Library
  <1>. QED
    BY <1>1 DEF LaneTypes, OneClaimed, RowsKnowSources

\* A row changes its status; if it becomes claimed, it becomes the current one.
LEMMA LaneTurns ==
  ASSUME LedgerInv, LaneTypes, library' = library, NEW j \in 1..Len(jobs),
         NEW st \in {"queued", "claimed", "waiting", "done"},
         jobs' = [jobs EXCEPT ![j].status = st],
         \A i \in DOMAIN jobs : jobs'[i].status = "claimed" => i = current',
         \/ UNCHANGED <<at, work>>
         \/ work' = Nothing /\ at' \in {"idle", "read", "replay", "boundary"}
  PROVE  LaneTypes'
  <1>1. Library' = Library
    BY DEF Library
  <1>2. Types /\ jobs \in Seq(Rows)
    BY DEF LedgerInv, Types
  <1>3. DOMAIN jobs' = DOMAIN jobs /\ Len(jobs') = Len(jobs)
        /\ \A i \in 1..Len(jobs) : jobs'[i].kind = jobs[i].kind /\ jobs'[i].about = jobs[i].about
    BY <1>2 DEF Rows
  <1>4. OneClaimed' /\ RowsKnowSources'
    BY <1>1, <1>3 DEF LaneTypes, OneClaimed, RowsKnowSources
  <1>5. /\ at' \in Phases /\ {"left", "stamp"} \subseteq DOMAIN work'
        /\ work'.left \subseteq Library /\ work'.stamp \in Days
        /\ at' \in {"readd", "recount"} => work'.left # {}
    BY DEF LaneTypes, Nothing, Days, Phases
  <1>. QED
    BY <1>1, <1>4, <1>5 DEF LaneTypes

LEMMA LaneEnds ==
  ASSUME LedgerInv, LaneTypes, library' = library, current # 0,
         NEW st \in {"queued", "waiting", "done"}, Ends(st)
  PROVE  LaneTypes'
  <1>1. current \in 1..Len(jobs) /\ jobs \in Seq(Rows)
    BY DEF LedgerInv, Types
  <1>2. jobs' = [jobs EXCEPT ![current].status = st] /\ work' = Nothing /\ at' = "idle"
    BY DEF Ends
  <1>3. \A i \in DOMAIN jobs : jobs'[i].status # "claimed"
    BY <1>1, <1>2 DEF LaneTypes, OneClaimed, Rows
  <1>. QED
    BY <1>1, <1>2, <1>3, LaneTurns

LEMMA LaneStep == LedgerInv /\ LaneTypes /\ [Next]_vars => LaneTypes'
  <1>. SUFFICES ASSUME LedgerInv, LaneTypes, [Next]_vars PROVE LaneTypes'
    OBVIOUS
  <1>0. CASE UNCHANGED <<lane, library>>
    BY <1>0, LaneGoesOn DEF lane, LaneTypes
  <1>1. CASE Callers
    <2>1. ASSUME NEW c \in Consultations, NEW part \in {"opening", "complete", "answer"},
                 jobs' = IF c \in Business THEN Append(jobs, Row("recall_projection", c, part)) ELSE jobs,
                 UNCHANGED <<library, current, at, work>>
          PROVE  LaneTypes'
      <3>1. /\ Row("recall_projection", c, part) \in Rows
            /\ Row("recall_projection", c, part).status = "queued"
            /\ Row("recall_projection", c, part).kind # "index"
        BY DEF Row, Rows, Kinds
      <3>2. CASE c \in Business
        BY <2>1, <3>1, <3>2, LaneSends
      <3>3. CASE c \notin Business
        BY <2>1, <3>3, <1>0 DEF lane
      <3>. QED
        BY <3>2, <3>3
    <2>2. ASSUME NEW s \in Sources, ImportSource(s) PROVE LaneTypes'
      <3>1. /\ Row("index", s, "complete") \in Rows /\ Row("index", s, "complete").status = "queued"
            /\ Row("index", s, "complete").about = s
        BY DEF Row, Rows, Kinds
      <3>2. jobs' = Append(jobs, Row("index", s, "complete")) /\ UNCHANGED <<current, at, work>>
            /\ library' = Append(library, s)
        BY <2>2 DEF ImportSource
      <3>3. s \in Library'
        BY <3>2 DEF Library, LaneTypes
      <3>. QED
        BY <3>1, <3>2, <3>3, LaneSends
    <2>3. ASSUME RequestRebuild PROVE LaneTypes'
      <3>1. /\ Row("recall_rebuild", 0, "complete") \in Rows
            /\ Row("recall_rebuild", 0, "complete").status = "queued"
            /\ Row("recall_rebuild", 0, "complete").kind # "index"
        BY DEF Row, Rows, Kinds
      <3>2. jobs' = Append(jobs, Row("recall_rebuild", 0, "complete"))
            /\ UNCHANGED <<current, at, work>>
        BY <2>3 DEF RequestRebuild
      <3>. QED
        BY <3>1, <3>2, LaneSends
    <2>. QED
      BY <1>1, <2>1, <2>2, <2>3 DEF Callers, CreateConsultation, AnswerConsultation
  <1>2. CASE ClaimNext
    <2>1. PICK j \in DOMAIN jobs :
            /\ jobs' = [jobs EXCEPT ![j].status = "claimed"] /\ current' = j
            /\ at' \in {"read", "replay", "boundary"}
      BY <1>2 DEF ClaimNext
    <2>2. current = 0 /\ work' = Nothing /\ library' = library /\ jobs \in Seq(Rows)
      BY <1>2 DEF ClaimNext, LedgerInv, Types
    <2>3. \A i \in DOMAIN jobs : jobs'[i].status = "claimed" => i = current'
      BY <2>1, <2>2 DEF LaneTypes, OneClaimed, Rows
    <2>4. j \in 1..Len(jobs) /\ at' \in {"idle", "read", "replay", "boundary"}
      BY <2>1, <2>2
    <2>. QED
      BY <2>1, <2>2, <2>3, <2>4, LaneTurns
  <1>3. CASE \E j \in DOMAIN jobs : WaitElapses(j)
    <2>1. PICK j \in DOMAIN jobs : WaitElapses(j)
      BY <1>3
    <2>2. jobs' = [jobs EXCEPT ![j].status = "queued"] /\ UNCHANGED <<current, at, work, library>>
          /\ jobs \in Seq(Rows)
      BY <2>1 DEF WaitElapses, LedgerInv, Types
    <2>3. \A i \in DOMAIN jobs : jobs'[i].status = "claimed" => i = current'
      BY <2>2 DEF LaneTypes, OneClaimed, Rows
    <2>4. j \in 1..Len(jobs)
      BY <2>2
    <2>. QED
      BY <2>2, <2>3, <2>4, LaneTurns
  <1>4. CASE WorkerDies
    BY <1>4, <1>0, LaneEnds DEF WorkerDies
  <1>5. CASE Completes \/ RebuildFails
    BY <1>5, LaneEnds DEF Completes, RebuildFails
  <1>6. CASE Window \/ UNCHANGED vars
    BY <1>6, <1>0 DEF Window, OpenWindow, PrepareReads, PrepareMerges, PrepareReadsTerms,
       PrepareTerms, CloseWindow, vars
  <1>7. CASE \/ ReadRecord \/ ApplyAccessStats \/ AlreadyApplied \/ NotifyRecall \/ Projected
             \/ ReplayPage \/ ReplaceAccessStats
    <2>1. UNCHANGED <<jobs, current, library>> /\ at' \in {"apply", "notify", "complete", "replay", "forget"}
      BY <1>7 DEF ReadRecord, ApplyAccessStats, AlreadyApplied, NotifyRecall, Projected, ReplayPage,
         ReplaceAccessStats, Running
    <2>2. DOMAIN work' = DOMAIN work /\ work'.left = work.left /\ work'.stamp = work.stamp
      <3>1. CASE ReadRecord
        BY <3>1 DEF ReadRecord, LaneTypes
      <3>2. CASE AlreadyApplied \/ NotifyRecall
        BY <3>2 DEF AlreadyApplied, NotifyRecall, LaneTypes
      <3>3. CASE ReplayPage
        BY <3>3 DEF ReplayPage, LaneTypes
      <3>4. CASE ApplyAccessStats \/ Projected \/ ReplaceAccessStats
        BY <3>4 DEF ApplyAccessStats, Projected, ReplaceAccessStats
      <3>. QED
        BY <1>7, <3>1, <3>2, <3>3, <3>4
    <2>. QED
      BY <2>1, <2>2, LaneGoesOn DEF LaneTypes, Phases
  <1>8. CASE ReadBoundary \/ MergeBoundary \/ RefreshTerms
    <2>1. UNCHANGED <<jobs, current, library>> /\ at' \in {"merge", "terms", "add", "rebuilt"}
      BY <1>8 DEF ReadBoundary, MergeBoundary, RefreshTerms
    <2>2. work' = work \/ work' = [work EXCEPT !.failed = TRUE]
      BY <1>8 DEF ReadBoundary, MergeBoundary, RefreshTerms
    <2>3. DOMAIN work' = DOMAIN work /\ work'.left = work.left /\ work'.stamp = work.stamp
      BY <2>2 DEF LaneTypes
    <2>. QED
      BY <2>1, <2>3, LaneGoesOn DEF LaneTypes, Phases
  <1>9. CASE \/ HookFails \/ AddTerms \/ CountMirror \/ SetReportedSince \/ ForgetMirror
             \/ DeletePeopleTerms \/ StampsAfterReplay \/ Rebuilt
    <2>1. UNCHANGED <<jobs, current, library, work>>
          /\ at' \in {"complete", "count", "stamp", "delete", "list", "boundary"}
      BY <1>9 DEF HookFails, AddTerms, CountMirror, SetReportedSince, ForgetMirror,
         DeletePeopleTerms, StampsAfterReplay, Rebuilt
    <2>. QED
      BY <2>1, LaneGoesOn DEF LaneTypes, Phases
  <1>10. CASE ListSources
    <2>1. UNCHANGED <<jobs, current, library>> /\ at' = "fold" /\ DOMAIN work' = DOMAIN work
          /\ work'.left = Library /\ work'.stamp = work.stamp
      BY <1>10 DEF ListSources, LaneTypes
    <2>. QED
      BY <2>1, LaneGoesOn DEF LaneTypes, Phases
  <1>11. CASE FoldSource \/ ReaddTerms
    <2>1. UNCHANGED <<jobs, current, library, work>> /\ at' \in {"readd", "recount"} /\ work.left # {}
      BY <1>11 DEF FoldSource, ReaddTerms, Running, LaneTypes
    <2>. QED
      BY <2>1, LaneGoesOn DEF LaneTypes, Phases
  <1>12. CASE RecountMirror
    <2>1. UNCHANGED <<jobs, current, library>> /\ at' = "fold" /\ at = "recount"
          /\ DOMAIN work' = DOMAIN work /\ work'.left = work.left \ {Earliest}
          /\ work'.stamp \in {work.stamp, Stamp[Earliest]}
      BY <1>12 DEF RecountMirror, LaneTypes, Running
    <2>2. Stamp[Earliest] \in Days
      BY <2>1, EarliestIsLeft DEF LaneTypes
    <2>. QED
      BY <2>1, <2>2, LaneGoesOn DEF LaneTypes, Phases
  <1>. QED
    BY <1>1, <1>2, <1>3, <1>4, <1>5, <1>6, <1>7, <1>8, <1>9, <1>10, <1>11, <1>12 DEF Next, Body

-----------------------------------------------------------------------------
(* The table, the mirror and the window. *)

LEMMA TableStep == LedgerInv /\ LaneTypes /\ TableTypes /\ [Next]_vars => TableTypes'
  <1>. SUFFICES ASSUME LedgerInv, LaneTypes, TableTypes, [Next]_vars PROVE TableTypes'
    OBVIOUS
  <1>1. Library \subseteq Library'
    BY LibraryGrows DEF LaneTypes
  <1>2. missed' \subseteq Library'
    <2>1. CASE HookFails
      BY <1>1, <2>1, AboutIsKnown DEF HookFails, TableTypes
    <2>2. missed' = missed \/ HookFails
      BY MissedWriter
    <2>. QED
      BY <1>1, <2>1, <2>2 DEF TableTypes
  <1>3. CASE UNCHANGED table
    BY <1>1, <1>2, <1>3 DEF table, TableTypes
  <1>4. CASE AddTerms
    <2>1. Me.about \in Library /\ Me.about \in Sources
      BY <1>4, AboutIsKnown DEF AddTerms, Running
    <2>. QED
      BY <1>1, <1>2, <1>3, <1>4, <2>1 DEF AddTerms, TableTypes
  <1>5. CASE ReaddTerms
    <2>1. Earliest \in Library /\ Earliest \in Sources
      BY <1>5, EarliestIsLeft DEF ReaddTerms, Running, LaneTypes
    <2>. QED
      BY <1>1, <1>2, <1>5, <2>1 DEF ReaddTerms, TableTypes
  <1>6. CASE DeletePeopleTerms
    BY <1>2, <1>6 DEF DeletePeopleTerms, TableTypes, NoCounts, Days
  <1>7. CASE SetReportedSince
    <2>1. Stamp[Me.about] \in Days
      BY <1>7, AboutIsKnown DEF SetReportedSince, Running
    <2>. QED
      BY <1>1, <1>2, <1>7, <2>1 DEF SetReportedSince, TableTypes
  <1>8. CASE StampsAfterReplay
    BY <1>1, <1>2, <1>8 DEF StampsAfterReplay, TableTypes, LaneTypes
  <1>. QED
    BY <1>3, <1>4, <1>5, <1>6, <1>7, <1>8, TableWriters

\* The cursor moves to the greatest stamp of what a read held and listed.
LEMMA CursorTypes ==
  ASSUME LaneTypes, ReadsTypes, NEW r \in Readers, NEW n \in reads[r].from..Len(library)
  PROVE  /\ n \in 0..Len(library) /\ Listed(r, n) \subseteq Library /\ Listed(r, n) \subseteq Sources
         /\ Cursor(r, n) \in Marks /\ Cursor(r, n) \in Days /\ reads[r].mark \in Nat
         /\ Cursor(r, n) = reads[r].mark \/ \E s \in Listed(r, n) : Cursor(r, n) = Stamp[s]
         /\ \A s \in Listed(r, n) : Stamp[s] <= Cursor(r, n)
  <1>. DEFINE fresh == Listed(r, n)
              marks == {Stamp[s] : s \in fresh} \cup {reads[r].mark}
              top == CHOOSE x \in marks : \A y \in marks : y <= x
  <1>0. n \in 0..Len(library) /\ library \in Seq(Sources)
    BY DEF ReadsTypes, LaneTypes
  <1>1. Library \subseteq Sources /\ IsFiniteSet(Library) /\ fresh \subseteq Library
    BY <1>0, LibraryIsFinite DEF Library, Listed
  <1>2. reads[r].mark \in Marks /\ reads[r].mark \in Nat /\ \A s \in Library : Stamp[s] \in Nat
    BY <1>1, ReadingsAssumption DEF ReadsTypes, Marks
  <1>2a. \A s \in fresh : Stamp[s] > reads[r].mark
    BY DEF Listed
  <1>. HIDE DEF fresh
  <1>3. \E x \in marks : \A y \in marks : y <= x
    <2>1. CASE fresh = {}
      BY <1>2, <2>1
    <2>2. CASE fresh # {}
      <3>. DEFINE date == [s \in fresh |-> Stamp[s]]
      <3>1. IsFiniteSet(fresh) /\ date \in [fresh -> Nat]
        BY <1>1, <1>2, FS_Subset
      <3>2. PICK x \in fresh : \A y \in fresh : date[y] <= date[x]
        <4>. HIDE DEF date
        <4>. QED
          BY <2>2, <3>1, FiniteGreatest
      <3>3. \A y \in fresh : Stamp[y] <= Stamp[x]
        BY <3>2
      <3>4. Stamp[x] \in marks /\ Stamp[x] > reads[r].mark /\ Stamp[x] \in Nat
        BY <1>1, <1>2, <1>2a, <3>2
      <3>5. \A y \in marks : y <= Stamp[x]
        BY <1>2, <3>3, <3>4
      <3>. QED
        BY <3>4, <3>5
    <2>. QED
      BY <2>1, <2>2
  <1>4. top \in marks /\ \A y \in marks : y <= top
    <2>. HIDE DEF marks
    <2>. QED
      BY <1>3
  <1>5. Cursor(r, n) = top
    BY DEF Cursor, fresh
  <1>6. /\ top \in Marks /\ top \in Days
        /\ top = reads[r].mark \/ \E s \in fresh : top = Stamp[s]
        /\ \A s \in fresh : Stamp[s] <= top
    <2>. HIDE DEF top
    <2>. QED
      BY <1>1, <1>2, <1>4 DEF Marks, Days
  <1>. HIDE DEF top
  <1>. QED
    BY <1>0, <1>1, <1>2, <1>5, <1>6 DEF fresh

MirrorShape == [names : SUBSET Sources, mark : Days, boundary : BOOLEAN, outlived : BOOLEAN,
                counts : [Sources -> Nat], reported : Days, ready : BOOLEAN, kept : BOOLEAN]

\* A step that leaves the watermark alone, or starts it again.
LEMMA MirrorKeeps ==
  ASSUME LaneTypes, MirrorTypes, [Next]_vars, mirror' \in MirrorShape,
         mirror'.mark \in {0, mirror.mark}
  PROVE  MirrorTypes'
  <1>1. Marks \subseteq Marks'
    BY LibraryGrows DEF Marks, LaneTypes
  <1>. QED
    BY <1>1 DEF MirrorTypes, MirrorShape, Marks, Days

LEMMA CountedTypes ==
  ASSUME NEW m \in MirrorShape, NEW s \in Sources
  PROVE  Counted(m, s) \in MirrorShape /\ Counted(m, s).mark = m.mark
  <1>. DEFINE more == [m.counts EXCEPT ![s] = @ + 1]
  <1>1. more \in [Sources -> Nat]
    BY DEF MirrorShape
  <1>2. Counted(m, s) = [m EXCEPT !.counts = more, !.kept = TRUE]
    BY DEF Counted
  <1>. HIDE DEF more
  <1>. QED
    BY <1>1, <1>2 DEF MirrorShape

LEMMA MirrorStep ==
  ASSUME LedgerInv, LaneTypes, TableTypes, MirrorTypes, ReadsTypes, WindowTypes, [Next]_vars
  PROVE  MirrorTypes'
  <1>0. mirror \in MirrorShape /\ Marks \subseteq Marks'
    BY LibraryGrows DEF MirrorTypes, MirrorShape, Marks, LaneTypes
  <1>1. CASE UNCHANGED mirror
    BY <1>0, <1>1, MirrorKeeps
  <1>2. ASSUME NEW r \in Readers, Merge(r) PROVE MirrorTypes'
    <2>1. PICK n \in reads[r].from..Len(library) :
            mirror' = [mirror EXCEPT
                !.names = IF reads[r].own THEN @ \cup Listed(r, n) ELSE @,
                !.mark = IF Cursor(r, n) = 0 THEN @ ELSE Cursor(r, n),
                !.boundary = TRUE,
                !.outlived = IF reads[r].own THEN @ ELSE TRUE]
      BY <1>2 DEF Merge
    <2>2. Listed(r, n) \subseteq Sources /\ Cursor(r, n) \in Days /\ Cursor(r, n) \in Marks
      BY CursorTypes
    <2>3. mirror' \in MirrorShape
      BY <1>0, <2>1, <2>2 DEF MirrorShape
    <2>4. mirror'.mark \in {mirror.mark, Cursor(r, n)}
      BY <1>0, <2>1 DEF MirrorShape
    <2>. QED
      BY <1>0, <2>2, <2>3, <2>4 DEF MirrorTypes, MirrorShape
  <1>3. CASE mirror' = ForgetBoundary(mirror)
    <2>1. mirror' \in MirrorShape /\ mirror'.mark = 0
      BY <1>0, <1>3 DEF ForgetBoundary, MirrorShape, Days
    <2>. QED
      BY <2>1, MirrorKeeps
  <1>4. ASSUME NEW rows \in TermsRead, mirror' = WarmTerms(mirror, rows) \/ mirror' = ForgetTerms(mirror)
        PROVE  MirrorTypes'
    <2>1. /\ rows.counts \in [Sources -> Nat] /\ rows.reported \in Days
          /\ NoCounts \in [Sources -> Nat] /\ 0 \in Days
      BY DEF TermsRead, NoCounts, Days
    <2>2. mirror' \in MirrorShape /\ mirror'.mark = mirror.mark
      BY <1>0, <1>4, <2>1 DEF WarmTerms, ForgetTerms, MirrorShape
    <2>. QED
      BY <2>2, MirrorKeeps
  <1>5. CASE CountMirror
    <2>1. Me.about \in Sources /\ Stamp[Me.about] \in Days
      BY <1>5, AboutIsKnown DEF CountMirror, Running
    <2>2. Counted(mirror, Me.about) \in MirrorShape /\ Counted(mirror, Me.about).mark = mirror.mark
      BY <1>0, <2>1, CountedTypes
    <2>3. \/ mirror' = Counted(mirror, Me.about)
          \/ mirror' = [Counted(mirror, Me.about) EXCEPT !.reported = Stamp[Me.about]]
      BY <1>5 DEF CountMirror
    <2>4. mirror' \in MirrorShape /\ mirror'.mark = mirror.mark
      BY <2>1, <2>2, <2>3 DEF MirrorShape
    <2>. QED
      BY <2>4, MirrorKeeps
  <1>6. CASE RecountMirror
    <2>1. Earliest \in Sources /\ Stamp[Earliest] \in Days
      BY <1>6, EarliestIsLeft DEF RecountMirror, Running, LaneTypes
    <2>2. Counted(mirror, Earliest) \in MirrorShape /\ Counted(mirror, Earliest).mark = mirror.mark
      BY <1>0, <2>1, CountedTypes
    <2>3. \/ mirror' = Counted(mirror, Earliest)
          \/ mirror' = [Counted(mirror, Earliest) EXCEPT !.reported = Stamp[Earliest]]
      BY <1>6 DEF RecountMirror
    <2>4. mirror' \in MirrorShape /\ mirror'.mark = mirror.mark
      BY <2>1, <2>2, <2>3 DEF MirrorShape
    <2>. QED
      BY <2>4, MirrorKeeps
  <1>7. CASE ForgetMirror
    <2>1. mirror' \in MirrorShape /\ mirror'.mark = 0
      BY <1>0, <1>7 DEF ForgetMirror, MirrorShape, NoCounts, Days
    <2>. QED
      BY <2>1, MirrorKeeps
  <1>8. CASE FoldSource
    <2>1. Earliest \in Sources
      BY <1>8, EarliestIsLeft DEF FoldSource
    <2>2. mirror' \in MirrorShape /\ mirror'.mark = mirror.mark
      BY <1>0, <1>8, <2>1 DEF FoldSource, MirrorShape
    <2>. QED
      BY <2>2, MirrorKeeps
  <1>9. CASE WorkerDies
    <2>1. mirror' \in MirrorShape /\ mirror'.mark = 0
      BY <1>9 DEF WorkerDies, Cold, MirrorShape, NoCounts, Days
    <2>. QED
      BY <2>1, MirrorKeeps
  <1>10. CASE MergeBoundary \/ PrepareMerges
    BY <1>2, <1>3, <1>10 DEF MergeBoundary, PrepareMerges, ReadFails, Readers
  <1>11. CASE RefreshTerms
    <2>1. TermRows \in TermsRead
      BY DEF TermRows, TermsRead, TableTypes
    <2>. QED
      BY <1>4, <1>11, <2>1 DEF RefreshTerms
  <1>12. CASE PrepareTerms
    BY <1>4, <1>12 DEF PrepareTerms, WindowTypes
  <1>. QED
    BY <1>1, <1>5, <1>6, <1>7, <1>8, <1>9, <1>10, <1>11, <1>12, MirrorWriters

LEMMA ReadsStep == LaneTypes /\ MirrorTypes /\ ReadsTypes /\ [Next]_vars => ReadsTypes'
  <1>. SUFFICES ASSUME LaneTypes, MirrorTypes, ReadsTypes, [Next]_vars PROVE ReadsTypes'
    OBVIOUS
  <1>. DEFINE Shape == [mark : Days, from : 0..Len(library), own : BOOLEAN]
  <1>1. Marks \subseteq Marks' /\ Days' = Days
    BY LibraryGrows DEF Marks, LaneTypes, Days
  <1>2. Len(library) \in Nat /\ Len(library') \in Nat /\ Len(library) <= Len(library')
    BY LibraryGrows DEF LaneTypes
  <1>3. ASSUME reads' \in [Readers -> Shape], \A r \in Readers : reads'[r].mark \in Marks
        PROVE  ReadsTypes'
    <2>1. 0..Len(library) \subseteq 0..Len(library')
      BY <1>2
    <2>2. ASSUME NEW x \in Shape PROVE x \in [mark : Days, from : 0..Len(library'), own : BOOLEAN]
      BY <2>1
    <2>3. reads' \in [Readers -> [mark : Days, from : 0..Len(library'), own : BOOLEAN]]
      <3>. HIDE DEF Shape
      <3>. QED
        BY <1>3, <2>2
    <2>. QED
      BY <1>1, <1>3, <2>3 DEF ReadsTypes
  <1>4. NoRead \in Shape /\ NoRead.mark \in Marks /\ Held \in Shape /\ Held.mark \in Marks
    BY <1>2 DEF NoRead, Held, Days, Marks
  <1>5. ASSUME NEW r \in Readers, StartRead(r) PROVE ReadsTypes'
    <2>1. mirror.mark \in Days /\ mirror.mark \in Marks
      BY DEF MirrorTypes
    <2>2. [mark |-> mirror.mark, from |-> Len(library), own |-> TRUE] \in Shape
      BY <1>2, <2>1
    <2>3. reads' = [reads EXCEPT ![r] = [mark |-> mirror.mark, from |-> Len(library), own |-> TRUE]]
      BY <1>5 DEF StartRead
    <2>4. reads' \in [Readers -> Shape]
      BY <2>2, <2>3 DEF ReadsTypes
    <2>5. \A x \in Readers : reads'[x].mark \in Marks
      BY <2>1, <2>3 DEF ReadsTypes
    <2>. QED
      BY <1>3, <2>4, <2>5
  <1>6. ASSUME NEW r \in Readers, Merge(r) PROVE ReadsTypes'
    <2>1. reads' = [reads EXCEPT ![r] = NoRead]
      BY <1>6 DEF Merge
    <2>2. reads' \in [Readers -> Shape] /\ \A x \in Readers : reads'[x].mark \in Marks
      BY <1>4, <2>1 DEF ReadsTypes
    <2>. QED
      BY <1>3, <2>2
  <1>7. ASSUME NEW r \in Readers, NEW read \in Shape, read.mark \in Marks, reads' = Orphaned(r, read)
        PROVE  ReadsTypes'
    <2>1. \A x \in Readers : [reads[x] EXCEPT !.own = FALSE] \in Shape
            /\ [reads[x] EXCEPT !.own = FALSE].mark = reads[x].mark
      BY DEF ReadsTypes
    <2>2. reads' = [x \in Readers |-> IF x = r THEN read ELSE [reads[x] EXCEPT !.own = FALSE]]
      BY <1>7 DEF Orphaned
    <2>3. reads' \in [Readers -> Shape]
      <3>. HIDE DEF Shape
      <3>. QED
        BY <2>1, <2>2
    <2>4. \A x \in Readers : reads'[x].mark \in Marks
      BY <1>7, <2>1, <2>2 DEF ReadsTypes
    <2>. QED
      BY <1>3, <2>3, <2>4
  <1>8. CASE UNCHANGED reads
    BY <1>3, <1>8 DEF ReadsTypes
  <1>9. CASE WorkerDies
    BY <1>3, <1>4, <1>9 DEF WorkerDies
  <1>10. CASE ForgetMirror
    BY <1>4, <1>7, <1>10 DEF ForgetMirror, Readers
  <1>11. CASE ReadBoundary \/ PrepareReads
    BY <1>5, <1>11 DEF ReadBoundary, PrepareReads, Readers
  <1>12. CASE MergeBoundary \/ PrepareMerges
    BY <1>4, <1>6, <1>7, <1>12 DEF MergeBoundary, PrepareMerges, ReadFails, Readers
  <1>. QED
    BY <1>8, <1>9, <1>10, <1>11, <1>12, ReadsWriters

LEMMA WindowStep == LaneTypes /\ TableTypes /\ WindowTypes /\ [Next]_vars => WindowTypes'
  <1>. SUFFICES ASSUME LaneTypes, TableTypes, WindowTypes, [Next]_vars PROVE WindowTypes'
    OBVIOUS
  <1>1. Library \subseteq Library' /\ TermsRead' = TermsRead
    BY LibraryGrows DEF LaneTypes, TermsRead, Days
  <1>2. CASE UNCHANGED window
    BY <1>1, <1>2 DEF WindowTypes
  <1>3. NoRows \in TermsRead /\ TermRows \in TermsRead
    BY DEF NoRows, NoCounts, TermRows, TermsRead, TableTypes, Days
  <1>4. CASE OpenWindow
    <2>1. window' = [Closed EXCEPT !.phase = "boundary"]
      BY <1>4 DEF OpenWindow
    <2>. QED
      BY <1>1, <1>3, <2>1 DEF Closed, WindowTypes
  <1>5. CASE CloseWindow \/ WorkerDies
    BY <1>1, <1>3, <1>5 DEF CloseWindow, WorkerDies, Closed, WindowTypes
  <1>6. CASE PrepareReads
    <2>1. window' = [window EXCEPT !.phase = "merge", !.library = Library]
      BY <1>6 DEF PrepareReads
    <2>. QED
      BY <1>1, <2>1 DEF WindowTypes
  <1>7. CASE PrepareMerges
    <2>1. window' = [window EXCEPT !.phase = "terms"]
      BY <1>7 DEF PrepareMerges
    <2>. QED
      BY <1>1, <2>1 DEF WindowTypes
  <1>8. CASE PrepareReadsTerms
    <2>1. window' = [window EXCEPT !.phase = "assign", !.rows = TermRows]
      BY <1>8 DEF PrepareReadsTerms
    <2>. QED
      BY <1>1, <1>3, <2>1 DEF WindowTypes
  <1>9. CASE PrepareTerms
    <2>1. window' = [window EXCEPT !.phase = "judging", !.rows = NoRows]
      BY <1>9 DEF PrepareTerms
    <2>. QED
      BY <1>1, <1>3, <2>1 DEF WindowTypes
  <1>10. CASE ForgetMirror
    <2>1. window' = [window EXCEPT !.disturbed = TRUE]
      BY <1>10 DEF ForgetMirror
    <2>. QED
      BY <1>1, <2>1 DEF WindowTypes
  <1>. QED
    BY <1>2, <1>4, <1>5, <1>6, <1>7, <1>8, <1>9, <1>10, WindowWriters

LEMMA PeopleStep == LedgerInv /\ PeopleTypes /\ [Next]_vars => PeopleTypes'
  BY LaneStep, TableStep, MirrorStep, ReadsStep, WindowStep DEF PeopleTypes

LEMMA PeopleAlways == Spec => [](LedgerInv /\ PeopleTypes)
  <1>1. Init => LedgerInv /\ PeopleTypes
    BY InitLedgerInv, InitPeople
  <1>2. LedgerInv /\ PeopleTypes /\ [Next]_vars => LedgerInv' /\ PeopleTypes'
    BY StepKeeps, PeopleStep
  <1>. QED
    BY <1>1, <1>2, PTL DEF Spec

\* The manifest, the failed hooks and what a gate judges from name imported sources only,
\* and the watermark is a day of one: the types of Readings hold whatever the consultations,
\* sources and bounds.
THEOREM ReadingsTypes == Spec => []TypeOK
  <1>1. LedgerInv /\ PeopleTypes => TypeOK
    <2>. SUFFICES ASSUME LedgerInv, PeopleTypes PROVE TypeOK
      OBVIOUS
    <2>1. /\ happened \subseteq Events /\ stamped \subseteq {e \in happened : e[1] \in Business}
          /\ hits \in [Events -> Nat] /\ notified \in [Events -> Nat]
          /\ jobs \in Seq(Rows) /\ current \in 0..Len(jobs)
      BY DEF LedgerInv, Types, Kept
    <2>2. /\ library \in Seq(Sources) /\ at \in Phases
          /\ \A j \in DOMAIN jobs : jobs[j].status = "claimed" => j = current
      BY DEF PeopleTypes, LaneTypes, OneClaimed
    <2>. QED
      BY <2>1, <2>2 DEF TypeOK, PeopleTypes, TableTypes, MirrorTypes, ReadsTypes, WindowTypes
  <1>. QED
    BY <1>1, PeopleAlways, PTL

-----------------------------------------------------------------------------
(* A rebuild that ends has counted every source it listed, and a gate      *)
(* whose boundary is ready judges from every source its prepare listed.    *)

Folded == {"boundary", "merge", "terms", "rebuilt", "complete"}
Folding == {"fold", "readd", "recount"} \cup Folded

\* What a replay of the sources has behind it is in the manifest.
Healing ==
    (current # 0 /\ Me.kind = "recall_rebuild") =>
        /\ at \in Folding => work.seen \subseteq Sources /\ work.seen \ work.left \subseteq manifest
        /\ at = "recount" => Earliest \in manifest
        /\ at \in Folded => work.left = {}

\* The lane goes on with the row it has, ends it, or claims one.
LEMMA MeStays ==
  ASSUME LedgerInv, [Next]_vars
  PROVE  \/ ClaimNext
         \/ current' = 0
         \/ current # 0 /\ UNCHANGED current /\ Me'.kind = Me.kind
  <1>1. jobs \in Seq(Rows) /\ (current # 0 => current \in 1..Len(jobs))
    BY DEF LedgerInv, Types
  <1>2. CASE UNCHANGED <<jobs, current>>
    BY <1>2 DEF Me
  <1>3. CASE \E row : jobs' = Append(jobs, row) /\ UNCHANGED current
    BY <1>1, <1>3 DEF Me
  <1>4. CASE \E j \in DOMAIN jobs : WaitElapses(j)
    <2>1. PICK j \in DOMAIN jobs : jobs' = [jobs EXCEPT ![j].status = "queued"] /\ UNCHANGED current
      BY <1>4 DEF WaitElapses
    <2>. QED
      BY <1>1, <2>1 DEF Me, Rows
  <1>5. CASE Callers
    BY <1>2, <1>3, <1>5 DEF Callers, CreateConsultation, AnswerConsultation, ImportSource, RequestRebuild
  <1>6. UNCHANGED vars \/ Window => UNCHANGED <<jobs, current>>
    BY DEF vars, lane, Window, OpenWindow, PrepareReads, PrepareMerges, PrepareReadsTerms,
       PrepareTerms, CloseWindow
  <1>7. WorkerDies \/ Completes \/ RebuildFails => current' = 0
    BY DEF WorkerDies, Completes, RebuildFails, Ends, lane
  <1>8. ReadBoundary \/ MergeBoundary \/ RefreshTerms
        => UNCHANGED <<jobs, current>>
    BY DEF ReadBoundary, MergeBoundary, RefreshTerms
  <1>9. \/ ReadRecord \/ ApplyAccessStats \/ AlreadyApplied \/ NotifyRecall \/ Projected
         \/ ReplayPage \/ ReplaceAccessStats \/ HookFails \/ AddTerms \/ CountMirror \/ SetReportedSince
         => UNCHANGED <<jobs, current>>
    BY DEF ReadRecord, ApplyAccessStats, AlreadyApplied, NotifyRecall, Projected,
       ReplayPage, ReplaceAccessStats, HookFails, AddTerms, CountMirror, SetReportedSince
  <1>10. \/ ForgetMirror \/ DeletePeopleTerms \/ ListSources \/ FoldSource \/ ReaddTerms
         \/ RecountMirror \/ StampsAfterReplay \/ Rebuilt
         => UNCHANGED <<jobs, current>>
    BY DEF ForgetMirror, DeletePeopleTerms, ListSources, FoldSource, ReaddTerms, RecountMirror,
       StampsAfterReplay, Rebuilt
  <1>. QED
    BY <1>2, <1>4, <1>5, <1>6, <1>7, <1>8, <1>9, <1>10 DEF Next, Body

LEMMA HealingStep == LedgerInv /\ LaneTypes /\ Healing /\ [Next]_vars => Healing'
  <1>. SUFFICES ASSUME LedgerInv, LaneTypes, Healing, [Next]_vars, current' # 0,
                       Me'.kind = "recall_rebuild"
                PROVE  /\ at' \in Folding =>
                            /\ work'.seen \subseteq Sources
                            /\ work'.seen \ work'.left \subseteq manifest'
                       /\ at' = "recount" => Earliest' \in manifest'
                       /\ at' \in Folded => work'.left = {}
    BY DEF Healing
  <1>1. CASE ClaimNext
    <2>1. PICK j \in DOMAIN jobs :
            /\ jobs' = [jobs EXCEPT ![j].status = "claimed"] /\ current' = j
            /\ at' = CASE jobs[j].kind = "recall_projection" -> "read"
                       [] jobs[j].kind = "recall_rebuild" -> "replay"
                       [] OTHER -> "boundary"
      BY <1>1 DEF ClaimNext
    <2>2. j \in 1..Len(jobs) /\ jobs \in Seq(Rows) /\ jobs[j] \in Rows
      BY DEF LedgerInv, Types
    <2>3. jobs'[j].kind = jobs[j].kind
      BY <2>1, <2>2 DEF Rows
    <2>4. Me'.kind = jobs[j].kind
      BY <2>1, <2>3 DEF Me
    <2>. QED
      BY <2>1, <2>4 DEF Folding, Folded
  <1>2. CASE ~ClaimNext
    <2>. SUFFICES ASSUME current # 0, Me.kind = "recall_rebuild"
                  PROVE  /\ at' \in Folding =>
                              /\ work'.seen \subseteq Sources
                              /\ work'.seen \ work'.left \subseteq manifest'
                         /\ at' = "recount" => Earliest' \in manifest'
                         /\ at' \in Folded => work'.left = {}
      BY <1>2, MeStays
    <2>0. CASE UNCHANGED <<at, work, manifest>>
      BY <2>0 DEF Healing, Earliest
    <2>1. CASE Callers \/ Window \/ UNCHANGED vars \/ (\E j \in DOMAIN jobs : WaitElapses(j))
      BY <2>0, <2>1 DEF Callers, CreateConsultation, AnswerConsultation, ImportSource, RequestRebuild,
         Window, OpenWindow, PrepareReads, PrepareMerges, PrepareReadsTerms,
       PrepareTerms, CloseWindow, WaitElapses,
         vars, lane, table
    <2>2. CASE WorkerDies \/ Completes \/ RebuildFails
      BY <2>2 DEF WorkerDies, Completes, RebuildFails, Ends
    <2>3. ~(HookFails \/ AddTerms \/ CountMirror \/ SetReportedSince \/ ReadRecord
            \/ ApplyAccessStats \/ AlreadyApplied \/ NotifyRecall \/ Projected)
      BY DEF HookFails, AddTerms, CountMirror, SetReportedSince,
         ReadRecord, ApplyAccessStats, AlreadyApplied, NotifyRecall, Projected, Running
    <2>4. CASE ReplayPage \/ ReplaceAccessStats \/ ForgetMirror \/ DeletePeopleTerms
      BY <2>4 DEF ReplayPage, ReplaceAccessStats, ForgetMirror, DeletePeopleTerms, Running, Folding, Folded
    <2>5. CASE ListSources
      <3>1. {"seen", "left"} \subseteq DOMAIN work
        BY DEF LedgerInv, Types, LaneTypes
      <3>2. at' = "fold" /\ work'.left = Library /\ work'.seen = Library
        BY <2>5, <3>1 DEF ListSources
      <3>. QED
        BY <3>2, LibraryIsFinite DEF LaneTypes, Folded
    <2>6. CASE FoldSource
      BY <2>6 DEF FoldSource, Running, Healing, table, Folding, Folded
    <2>7. CASE ReaddTerms
      <3>1. at' = "recount" /\ work' = work /\ manifest' = manifest \cup {Earliest} /\ at = "readd"
        BY <2>7 DEF ReaddTerms, Running
      <3>. QED
        BY <3>1 DEF Healing, Earliest, Folding, Folded
    <2>8. CASE RecountMirror
      <3>1. {"seen", "left", "stamp"} \subseteq DOMAIN work
        BY DEF LedgerInv, Types, LaneTypes
      <3>2. at' = "fold" /\ work'.left = work.left \ {Earliest} /\ work'.seen = work.seen
            /\ manifest' = manifest /\ at = "recount"
        BY <2>8, <3>1 DEF RecountMirror, Running, table
      <3>. QED
        BY <3>2 DEF Healing, Folding, Folded
    <2>9. CASE StampsAfterReplay
      <3>1. at' = "boundary" /\ work' = work /\ manifest' = manifest /\ at = "fold" /\ work.left = {}
        BY <2>9 DEF StampsAfterReplay, Running
      <3>. QED
        BY <3>1 DEF Healing, Folding
    <2>10. CASE ReadBoundary \/ MergeBoundary \/ RefreshTerms
      <3>1. {"seen", "left"} \subseteq DOMAIN work
        BY DEF LedgerInv, Types, LaneTypes
      <3>2. work' = work \/ work' = [work EXCEPT !.failed = TRUE]
        BY <2>10 DEF ReadBoundary, MergeBoundary, RefreshTerms
      <3>3. at \in Folded /\ at' \in Folded /\ at' # "recount" /\ manifest' = manifest
        BY <2>10 DEF ReadBoundary, MergeBoundary, RefreshTerms, Warming, Folded, table
      <3>4. work'.seen = work.seen /\ work'.left = work.left
        BY <3>1, <3>2
      <3>. QED
        BY <3>3, <3>4 DEF Healing, Folding
    <2>11. CASE Rebuilt
      <3>1. at = "rebuilt" /\ at' = "complete" /\ UNCHANGED <<work, manifest>>
        BY <2>11 DEF Rebuilt, Running, table
      <3>. QED
        BY <3>1 DEF Healing, Folding, Folded
    <2>. QED
      BY <1>2, <2>1, <2>2, <2>3, <2>4, <2>5, <2>6, <2>7, <2>8, <2>9, <2>10, <2>11
      DEF Next, Body
  <1>. QED
    BY <1>1, <1>2

\* However often rebuilds were cut short, and whatever hooks had failed: when the row of a
\* rebuild ends, each source it listed is in the term counts, once.
THEOREM RebuildsHeal == Spec => []RebuildHeals
  <1>1. Init => Healing /\ TermsInv
    BY DEF Init, Healing, TermsInv, TermsCountedOnce, NoCounts
  <1>2. LedgerInv /\ LaneTypes /\ Healing /\ TermsInv /\ [Next]_vars => Healing' /\ TermsInv'
    BY HealingStep, TermsStep
  <1>3. Healing /\ TermsInv => RebuildHeals
    <2>. SUFFICES ASSUME Healing, TermsInv, Running("recall_rebuild", "complete"), NEW s \in work.seen
                  PROVE  terms[s] = 1
      BY DEF RebuildHeals
    <2>1. s \in Sources /\ s \in manifest
      BY DEF Healing, Running, Folding, Folded
    <2>. QED
      BY <2>1 DEF TermsInv, TermsCountedOnce
  <1>4. PeopleTypes => LaneTypes
    BY DEF PeopleTypes
  <1>. QED
    BY <1>1, <1>2, <1>3, <1>4, PeopleAlways, PTL DEF Spec

-----------------------------------------------------------------------------
Prefix(n) == {library[i] : i \in 1..n}

\* Material came in in order, and no cursor has outlived its mirror.
Orderly == InOrder /\ ~mirror.outlived

\* What lies behind the watermark is mirrored, and so is what lies behind the watermark a read
\* began from, as long as the read still holds the mirror.
MirrorKnows == Orderly => \A s \in Library : Stamp[s] <= mirror.mark => s \in mirror.names
ReadsKnow ==
    Orderly => \A r \in Readers : reads[r].own =>
        \A s \in Library : Stamp[s] <= reads[r].mark => s \in mirror.names

\* A prepare's read began no earlier than what its gate must see.
PrepareListed ==
    window.phase = "merge" => window.library \subseteq Prefix(reads["canonical"].from)

\* Behind a prepare's boundary the mirror names what it listed; or the mirror was dropped, and
\* any read that can still make it ready began after that.
Undisturbed == window.phase \in {"terms", "assign", "judging"} /\ Orderly /\ ~window.disturbed
WindowKnows ==
    Undisturbed =>
        /\ mirror.boundary => window.library \subseteq mirror.names
        /\ ~mirror.boundary /\ reads["derived"].own
             => window.library \subseteq Prefix(reads["derived"].from)

BoundaryInv == MirrorKnows /\ ReadsKnow /\ PrepareListed /\ WindowKnows

\* A library that was not in order will not be.
LEMMA OrderWasKept ==
  ASSUME LaneTypes, MirrorTypes, ReadsTypes, [Next]_vars, InOrder'
  PROVE  /\ InOrder
         /\ \A s \in Library' \ Library : mirror.mark < Stamp[s]
         /\ \A s \in Library' \ Library, r \in Readers : reads[r].mark < Stamp[s]
  <1>1. CASE library' = library
    BY <1>1 DEF InOrder, Library
  <1>2. CASE \E s \in Sources : library' = Append(library, s) /\ Library' = Library \cup {s}
    <2>1. PICK s \in Sources : library' = Append(library, s) /\ Library' = Library \cup {s}
      BY <1>2
    <2>2. library \in Seq(Sources) /\ DOMAIN library = 1..Len(library)
      BY DEF LaneTypes
    <2>3. /\ DOMAIN library' = 1..(Len(library) + 1) /\ library'[Len(library) + 1] = s
          /\ \A i \in 1..Len(library) : library'[i] = library[i]
      BY <2>1, <2>2
    <2>4. InOrder
      BY <2>2, <2>3 DEF InOrder
    <2>5. \A i \in 1..Len(library) : Stamp[library[i]] < Stamp[s]
      BY <2>2, <2>3 DEF InOrder
    <2>6. \A mark \in Marks : mark = 0 \/ \E i \in 1..Len(library) : mark = Stamp[library[i]]
      BY <2>2 DEF Marks, Library
    <2>7. 0 < Stamp[s]
      BY ReadingsAssumption
    <2>8. \A mark \in Marks : mark < Stamp[s]
      BY <2>5, <2>6, <2>7
    <2>9. mirror.mark \in Marks /\ \A r \in Readers : reads[r].mark \in Marks
      BY DEF MirrorTypes, ReadsTypes
    <2>. QED
      BY <2>1, <2>4, <2>8, <2>9
  <1>. QED
    BY <1>1, <1>2, LibraryGrows DEF LaneTypes

\* What was listed keeps its place.
LEMMA SamePrefix ==
  ASSUME LaneTypes, [Next]_vars, NEW r \in Readers, reads[r].from \in 0..Len(library),
         reads'[r].from = reads[r].from
  PROVE  Prefix(reads[r].from)' = Prefix(reads[r].from)
  <1>1. library \in Seq(Sources) /\ 1..(reads[r].from) \subseteq DOMAIN library
    BY DEF LaneTypes
  <1>2. \A i \in 1..(reads[r].from) : library'[i] = library[i]
    BY <1>1, LibraryGrows DEF LaneTypes
  <1>. QED
    BY <1>1, <1>2 DEF Prefix

\* A merge by a read that still holds the mirror makes it name what lies behind the new
\* watermark, and what the library held when the read began.
LEMMA MergeNames ==
  ASSUME LaneTypes, MirrorTypes, ReadsTypes, MirrorKnows, ReadsKnow, InOrder,
         NEW r \in Readers, Merge(r), ~mirror'.outlived, UNCHANGED library
  PROVE  /\ reads[r].own /\ ~mirror.outlived /\ mirror'.boundary /\ mirror.names \subseteq mirror'.names
         /\ Prefix(reads[r].from) \subseteq mirror'.names
         /\ \A s \in Library : Stamp[s] <= mirror'.mark => s \in mirror'.names
  <1>1. PICK n \in reads[r].from..Len(library) :
          mirror' = [mirror EXCEPT
              !.names = IF reads[r].own THEN @ \cup Listed(r, n) ELSE @,
              !.mark = IF Cursor(r, n) = 0 THEN @ ELSE Cursor(r, n),
              !.boundary = TRUE,
              !.outlived = IF reads[r].own THEN @ ELSE TRUE]
    BY DEF Merge
  <1>2. /\ mirror'.names = IF reads[r].own THEN mirror.names \cup Listed(r, n) ELSE mirror.names
        /\ mirror'.mark = IF Cursor(r, n) = 0 THEN mirror.mark ELSE Cursor(r, n)
        /\ mirror'.boundary = TRUE
        /\ mirror'.outlived = IF reads[r].own THEN mirror.outlived ELSE TRUE
    BY <1>1 DEF MirrorTypes
  <1>3. reads[r].own /\ ~mirror.outlived
    BY <1>2
  <1>4. /\ n \in 0..Len(library) /\ reads[r].from \in 0..Len(library) /\ reads[r].from <= n
        /\ reads[r].mark \in Nat /\ library \in Seq(Sources)
        /\ Cursor(r, n) = reads[r].mark \/ \E s \in Listed(r, n) : Cursor(r, n) = Stamp[s]
    BY CursorTypes DEF ReadsTypes, LaneTypes
  <1>5. \A s \in Library : Stamp[s] <= reads[r].mark => s \in mirror'.names
    BY <1>2, <1>3 DEF ReadsKnow, Orderly
  <1>6. \A i \in 1..Len(library) : library[i] \in Library /\ Stamp[library[i]] \in Nat
    BY <1>4, ReadingsAssumption DEF Library
  <1>7. \A i \in 1..n : library[i] \in mirror'.names
    <2>. SUFFICES ASSUME NEW i \in 1..n PROVE library[i] \in mirror'.names
      OBVIOUS
    <2>1. library[i] \in Library /\ Stamp[library[i]] \in Nat
      BY <1>4, <1>6
    <2>2. CASE Stamp[library[i]] > reads[r].mark
      <3>1. library[i] \in Listed(r, n)
        BY <2>2 DEF Listed
      <3>. QED
        BY <1>2, <1>3, <3>1
    <2>3. CASE Stamp[library[i]] <= reads[r].mark
      BY <1>5, <2>1, <2>3
    <2>. QED
      BY <1>4, <2>1, <2>2, <2>3
  <1>8. ASSUME NEW s \in Library, Stamp[s] <= Cursor(r, n) PROVE s \in mirror'.names
    <2>1. PICK j \in 1..Len(library) : s = library[j]
      BY <1>4 DEF Library
    <2>2. CASE Cursor(r, n) = reads[r].mark
      BY <1>5, <1>8, <2>2
    <2>3. CASE \E x \in Listed(r, n) : Cursor(r, n) = Stamp[x]
      <3>1. PICK i \in 1..n : Cursor(r, n) = Stamp[library[i]]
        BY <2>3 DEF Listed
      <3>2. ~(i < j)
        <4>1. i \in DOMAIN library /\ j \in DOMAIN library
          BY <1>4
        <4>2. i < j => Stamp[library[i]] < Stamp[library[j]]
          BY <4>1 DEF InOrder
        <4>3. Stamp[library[i]] \in Nat /\ Stamp[library[j]] \in Nat
          BY <1>4, <1>6
        <4>. QED
          BY <1>8, <2>1, <3>1, <4>2, <4>3
      <3>. QED
        BY <1>4, <1>7, <2>1, <3>2
    <2>. QED
      BY <1>4, <2>2, <2>3
  <1>9. Prefix(reads[r].from) \subseteq mirror'.names
    BY <1>4, <1>7 DEF Prefix
  <1>10. \A s \in Library : Stamp[s] <= mirror.mark => s \in mirror'.names
    BY <1>2, <1>3 DEF MirrorKnows, Orderly
  <1>. QED
    BY <1>2, <1>3, <1>8, <1>9, <1>10

\* A step that drops the mirror leaves no read with a cursor on it, and no gate of an
\* undisturbed window judges from it.
Dropped ==
    /\ mirror'.mark = 0 /\ \A r \in Readers : reads'[r].own => reads'[r].mark = 0
    /\ window'.disturbed \/ (~mirror'.boundary /\ ~reads'["derived"].own)

LEMMA FailsDrop ==
  ASSUME MirrorTypes, ReadsTypes, NEW r \in Readers, ReadFails(r)
  PROVE  Dropped
  <1>1. mirror' = ForgetBoundary(mirror)
        /\ reads' = [x \in Readers |-> IF x = r THEN NoRead ELSE [reads[x] EXCEPT !.own = FALSE]]
    BY DEF ReadFails, Orphaned
  <1>2. mirror'.mark = 0 /\ mirror'.boundary = FALSE
    BY <1>1 DEF ForgetBoundary, MirrorTypes
  <1>3. \A x \in Readers : reads'[x].own = FALSE
    BY <1>1 DEF NoRead, ReadsTypes
  <1>. QED
    BY <1>2, <1>3 DEF Dropped, Readers

\* How a step treats what the mirror names, and the reads under way.
LEMMA NamesSteps ==
  ASSUME MirrorTypes, ReadsTypes, WindowTypes, [Next]_vars
  PROVE  \/ /\ mirror.names \subseteq mirror'.names /\ mirror'.mark = mirror.mark
            /\ mirror'.boundary = mirror.boundary /\ mirror'.outlived = mirror.outlived
            /\ UNCHANGED reads
         \/ UNCHANGED <<library, mirror>> /\ \E r \in Readers : StartRead(r)
         \/ UNCHANGED library /\ (Merge("derived") \/ (PrepareMerges /\ Merge("canonical")))
         \/ Dropped
  <1>1. CASE UNCHANGED <<mirror, reads>>
    BY <1>1
  <1>2. CASE ReadBoundary \/ PrepareReads
    BY <1>2 DEF ReadBoundary, PrepareReads, Readers
  <1>4. CASE MergeBoundary \/ PrepareMerges
    BY <1>4, FailsDrop DEF MergeBoundary, PrepareMerges, Readers
  <1>5. CASE RefreshTerms \/ PrepareTerms
    <2>1. UNCHANGED reads
          /\ (mirror' = ForgetTerms(mirror) \/ \E rows : mirror' = WarmTerms(mirror, rows))
      BY <1>5 DEF RefreshTerms, PrepareTerms
    <2>. QED
      BY <2>1 DEF WarmTerms, ForgetTerms, MirrorTypes
  <1>6. CASE CountMirror
    <2>1. /\ UNCHANGED reads
          /\ \/ mirror' = Counted(mirror, Me.about)
             \/ mirror' = [Counted(mirror, Me.about) EXCEPT !.reported = Stamp[Me.about]]
      BY <1>6 DEF CountMirror
    <2>. QED
      BY <2>1 DEF Counted, MirrorTypes
  <1>7. CASE RecountMirror
    <2>1. /\ UNCHANGED reads
          /\ \/ mirror' = Counted(mirror, Earliest)
             \/ mirror' = [Counted(mirror, Earliest) EXCEPT !.reported = Stamp[Earliest]]
      BY <1>7 DEF RecountMirror
    <2>. QED
      BY <2>1 DEF Counted, MirrorTypes
  <1>8. CASE FoldSource
    BY <1>8 DEF FoldSource, MirrorTypes
  <1>9. CASE ForgetMirror
    <2>1. /\ window' = [window EXCEPT !.disturbed = TRUE]
          /\ mirror' = [mirror EXCEPT !.names = {}, !.mark = 0, !.outlived = FALSE,
                                      !.counts = NoCounts, !.reported = 0, !.kept = TRUE]
          /\ reads' = [x \in Readers |-> IF x = "derived" THEN Held
                                         ELSE [reads[x] EXCEPT !.own = FALSE]]
      BY <1>9 DEF ForgetMirror, Orphaned
    <2>2. window'.disturbed = TRUE /\ mirror'.mark = 0
      BY <2>1 DEF MirrorTypes, WindowTypes
    <2>3. \A x \in Readers : reads'[x].own = FALSE \/ reads'[x].mark = 0
      BY <2>1 DEF Held, ReadsTypes
    <2>. QED
      BY <2>2, <2>3 DEF Dropped
  <1>10. CASE WorkerDies
    BY <1>10 DEF WorkerDies, Cold, NoRead, Dropped, Readers
  <1>. QED
    BY <1>1, <1>2, <1>4, <1>5, <1>6, <1>7, <1>8, <1>9, <1>10, MirrorWriters, ReadsWriters


LEMMA MirrorKnowsStep ==
  PeopleTypes /\ MirrorKnows /\ ReadsKnow /\ [Next]_vars => MirrorKnows' /\ ReadsKnow'
  <1>. SUFFICES ASSUME PeopleTypes, MirrorKnows, ReadsKnow, [Next]_vars, Orderly'
                PROVE  /\ \A s \in Library' : Stamp[s] <= mirror'.mark => s \in mirror'.names
                       /\ \A r \in Readers : reads'[r].own =>
                            \A s \in Library' : Stamp[s] <= reads'[r].mark => s \in mirror'.names
    BY DEF MirrorKnows, ReadsKnow
  <1>0. LaneTypes /\ MirrorTypes /\ ReadsTypes /\ WindowTypes /\ InOrder' /\ ~mirror'.outlived
    BY DEF PeopleTypes, Orderly
  <1>1. /\ InOrder /\ \A t \in Library' \ Library : mirror.mark < Stamp[t]
        /\ \A t \in Library' \ Library, r \in Readers : reads[r].mark < Stamp[t]
    BY <1>0, OrderWasKept
  <1>2. /\ \A s \in Library' : Stamp[s] \in Nat \ {0}
        /\ mirror.mark \in Nat /\ \A r \in Readers : reads[r].mark \in Nat
    BY <1>0, LibraryGrows, ReadingsAssumption DEF LaneTypes, MirrorTypes, ReadsTypes, Days, Library
  <1>3. CASE /\ mirror.names \subseteq mirror'.names /\ mirror'.mark = mirror.mark
             /\ mirror'.outlived = mirror.outlived /\ UNCHANGED reads
    <2>1. Orderly
      BY <1>0, <1>1, <1>3 DEF Orderly
    <2>2. \A s \in Library' : Stamp[s] <= mirror'.mark => s \in mirror'.names
      BY <1>1, <1>2, <1>3, <2>1 DEF MirrorKnows
    <2>3. ASSUME NEW r \in Readers, reads'[r].own, NEW s \in Library', Stamp[s] <= reads'[r].mark
          PROVE  s \in mirror'.names
      <3>1. s \in Library
        BY <1>1, <1>2, <1>3, <2>3
      <3>. QED
        BY <1>3, <2>1, <2>3, <3>1 DEF ReadsKnow
    <2>. QED
      BY <2>2, <2>3
  <1>4. CASE UNCHANGED <<library, mirror>> /\ \E r \in Readers : StartRead(r)
    <2>1. Orderly /\ Library' = Library
      BY <1>0, <1>1, <1>4 DEF Orderly, Library
    <2>2. PICK r \in Readers :
            reads' = [reads EXCEPT ![r] = [mark |-> mirror.mark, from |-> Len(library), own |-> TRUE]]
      BY <1>4 DEF StartRead
    <2>3. \A x \in Readers : IF x = r THEN reads'[x].mark = mirror.mark ELSE reads'[x] = reads[x]
      BY <1>0, <2>2 DEF ReadsTypes
    <2>. QED
      BY <1>4, <2>1, <2>3 DEF MirrorKnows, ReadsKnow
  <1>5. ASSUME UNCHANGED library, \E r \in Readers : Merge(r)
        PROVE  /\ \A s \in Library' : Stamp[s] <= mirror'.mark => s \in mirror'.names
               /\ \A r \in Readers : reads'[r].own =>
                    \A s \in Library' : Stamp[s] <= reads'[r].mark => s \in mirror'.names
    <2>1. PICK r \in Readers : Merge(r)
      BY <1>5
    <2>2. /\ ~mirror.outlived /\ mirror.names \subseteq mirror'.names
          /\ \A s \in Library : Stamp[s] <= mirror'.mark => s \in mirror'.names
      BY <1>0, <1>1, <1>5, <2>1, MergeNames
    <2>3. reads' = [reads EXCEPT ![r] = NoRead]
      BY <2>1 DEF Merge
    <2>4. \A x \in Readers : IF x = r THEN reads'[x].own = FALSE ELSE reads'[x] = reads[x]
      BY <1>0, <2>3 DEF ReadsTypes, NoRead
    <2>5. Library' = Library /\ Orderly
      BY <1>1, <1>5, <2>2 DEF Library, Orderly
    <2>6. ASSUME NEW x \in Readers, reads'[x].own, NEW s \in Library, Stamp[s] <= reads'[x].mark
          PROVE  s \in mirror'.names
      BY <2>2, <2>4, <2>5, <2>6 DEF ReadsKnow
    <2>. QED
      BY <2>2, <2>5, <2>6
  <1>6. CASE Dropped
    BY <1>2, <1>6 DEF Dropped
  <1>. QED
    BY <1>0, <1>3, <1>4, <1>5, <1>6, NamesSteps DEF Readers

LEMMA PrepareListedStep == PeopleTypes /\ PrepareListed /\ [Next]_vars => PrepareListed'
  <1>. SUFFICES ASSUME PeopleTypes, PrepareListed, [Next]_vars, window'.phase = "merge"
                PROVE  window'.library \subseteq Prefix(reads["canonical"].from)'
    BY DEF PrepareListed
  <1>0. LaneTypes /\ ReadsTypes /\ WindowTypes
    BY DEF PeopleTypes
  <1>1. CASE PrepareReads
    <2>1. window' = [window EXCEPT !.phase = "merge", !.library = Library]
          /\ reads' = [reads EXCEPT !["canonical"] =
                         [mark |-> mirror.mark, from |-> Len(library), own |-> TRUE]]
          /\ library' = library
      BY <1>1 DEF PrepareReads, StartRead
    <2>2. window'.library = Library /\ reads'["canonical"].from = Len(library)
      BY <1>0, <2>1 DEF WindowTypes, ReadsTypes, Readers
    <2>. QED
      BY <1>0, <2>1, <2>2 DEF Prefix, Library, LaneTypes
  <1>2. PrepareReads \/ (window'.phase = window.phase /\ window'.library = window.library)
    <2>1. CASE UNCHANGED window
      BY <2>1
    <2>2. CASE ForgetMirror
      BY <1>0, <2>2 DEF ForgetMirror, WindowTypes
    <2>3. ~(OpenWindow \/ CloseWindow \/ WorkerDies)
      BY DEF OpenWindow, CloseWindow, WorkerDies, Closed
    <2>4. ~(PrepareMerges \/ PrepareReadsTerms \/ PrepareTerms)
      BY <1>0 DEF PrepareMerges, PrepareReadsTerms, PrepareTerms, WindowTypes
    <2>. QED
      BY <2>1, <2>2, <2>3, <2>4, WindowWriters
  <1>3. ASSUME ~PrepareReads PROVE reads'["canonical"].from = reads["canonical"].from
    <2>1. CASE UNCHANGED reads
      BY <2>1
    <2>2. CASE \E read : reads' = [reads EXCEPT !["derived"] = read]
      BY <1>0, <2>2 DEF ReadsTypes, Readers
    <2>3. CASE \E read : reads' = Orphaned("derived", read)
      BY <1>0, <2>3 DEF Orphaned, ReadsTypes, Readers
    <2>4. ReadBoundary \/ MergeBoundary \/ ForgetMirror
            => \E read : \/ reads' = [reads EXCEPT !["derived"] = read]
                        \/ reads' = Orphaned("derived", read)
      BY DEF ReadBoundary, StartRead, MergeBoundary, Merge, ReadFails, ForgetMirror
    <2>5. ~PrepareMerges /\ ~WorkerDies
      BY <1>0 DEF PrepareMerges, WorkerDies, Closed, WindowTypes
    <2>. QED
      BY <1>3, <2>1, <2>2, <2>3, <2>4, <2>5, ReadsWriters
  <1>4. CASE ~PrepareReads
    <2>1. window.phase = "merge" /\ window'.library = window.library
      BY <1>2, <1>4
    <2>2. reads["canonical"].from \in 0..Len(library)
      BY <1>0 DEF ReadsTypes, Readers
    <2>3. Prefix(reads["canonical"].from)' = Prefix(reads["canonical"].from)
      BY <1>0, <1>3, <1>4, <2>2, SamePrefix DEF Readers
    <2>. QED
      BY <2>1, <2>3 DEF PrepareListed
  <1>. QED
    BY <1>1, <1>4

\* The gate's own window, through the steps that write it.
LEMMA WindowSteps ==
  ASSUME WindowTypes, [Next]_vars, window'.phase \in {"terms", "assign", "judging"}, ~window'.disturbed
  PROVE  /\ ~window.disturbed /\ window'.library = window.library
         /\ \/ window.phase \in {"terms", "assign", "judging"}
            \/ window.phase = "merge" /\ PrepareMerges
  <1>1. CASE UNCHANGED window
    BY <1>1
  <1>2. ~(OpenWindow \/ CloseWindow \/ WorkerDies)
    BY DEF OpenWindow, CloseWindow, WorkerDies, Closed
  <1>3. ~(PrepareReads \/ ForgetMirror)
    BY DEF PrepareReads, ForgetMirror, WindowTypes
  <1>4. CASE PrepareMerges
    BY <1>4 DEF PrepareMerges, WindowTypes
  <1>5. CASE PrepareReadsTerms
    BY <1>5 DEF PrepareReadsTerms, WindowTypes
  <1>6. CASE PrepareTerms
    BY <1>6 DEF PrepareTerms, WindowTypes
  <1>. QED
    BY <1>1, <1>2, <1>3, <1>4, <1>5, <1>6, WindowWriters

LEMMA WindowKnowsStep == PeopleTypes /\ BoundaryInv /\ [Next]_vars => WindowKnows'
  <1>. SUFFICES ASSUME PeopleTypes, BoundaryInv, [Next]_vars, Undisturbed'
                PROVE  /\ mirror'.boundary => window'.library \subseteq mirror'.names
                       /\ ~mirror'.boundary /\ reads'["derived"].own
                            => window'.library \subseteq Prefix(reads["derived"].from)'
    BY DEF WindowKnows
  <1>0. /\ LaneTypes /\ MirrorTypes /\ ReadsTypes /\ WindowTypes
        /\ InOrder' /\ ~mirror'.outlived /\ ~window'.disturbed
        /\ MirrorKnows /\ ReadsKnow /\ PrepareListed /\ WindowKnows
    BY DEF PeopleTypes, BoundaryInv, Undisturbed, Orderly
  <1>1. InOrder
    BY <1>0, OrderWasKept
  <1>2. /\ ~window.disturbed /\ window'.library = window.library
        /\ \/ window.phase \in {"terms", "assign", "judging"}
           \/ window.phase = "merge" /\ PrepareMerges
    BY <1>0, WindowSteps DEF Undisturbed
  <1>3. CASE window.phase = "merge" /\ PrepareMerges
    <2>1. UNCHANGED library /\ (Merge("canonical") \/ ReadFails("canonical"))
      BY <1>3 DEF PrepareMerges
    <2>2. CASE Merge("canonical")
      <3>1. mirror'.boundary /\ Prefix(reads["canonical"].from) \subseteq mirror'.names
        BY <1>0, <1>1, <2>1, <2>2, MergeNames DEF Readers
      <3>. QED
        BY <1>0, <1>2, <1>3, <3>1 DEF PrepareListed
    <2>3. CASE ReadFails("canonical")
      BY <1>0, <2>3, FailsDrop DEF Dropped, Readers
    <2>. QED
      BY <2>1, <2>2, <2>3
  <1>4. ASSUME window.phase \in {"terms", "assign", "judging"}
        PROVE  /\ mirror'.boundary => window'.library \subseteq mirror'.names
               /\ ~mirror'.boundary /\ reads'["derived"].own
                    => window'.library \subseteq Prefix(reads["derived"].from)'
    <2>1. CASE /\ mirror.names \subseteq mirror'.names
               /\ mirror'.boundary = mirror.boundary /\ mirror'.outlived = mirror.outlived
               /\ UNCHANGED reads
      <3>1. Undisturbed
        BY <1>0, <1>1, <1>2, <1>4, <2>1 DEF Undisturbed, Orderly
      <3>2. /\ "derived" \in Readers /\ reads["derived"].from \in 0..Len(library)
            /\ reads'["derived"].from = reads["derived"].from
        BY <1>0, <2>1 DEF ReadsTypes, Readers
      <3>3. Prefix(reads["derived"].from)' = Prefix(reads["derived"].from)
        BY <1>0, <3>2, SamePrefix
      <3>. QED
        BY <1>0, <1>2, <2>1, <3>1, <3>3 DEF WindowKnows
    <2>2. CASE UNCHANGED <<library, mirror>> /\ \E r \in Readers : StartRead(r)
      <3>1. Undisturbed
        BY <1>0, <1>1, <1>2, <1>4, <2>2 DEF Undisturbed, Orderly
      <3>2. PICK r \in Readers :
              reads' = [reads EXCEPT ![r] = [mark |-> mirror.mark, from |-> Len(library), own |-> TRUE]]
        BY <2>2 DEF StartRead
      <3>3. CASE r = "derived"
        <4>1. reads'["derived"].from = Len(library)
          BY <1>0, <3>2, <3>3 DEF ReadsTypes, Readers
        <4>2. Prefix(reads["derived"].from)' = Library
          BY <1>0, <2>2, <4>1 DEF Prefix, Library, LaneTypes
        <4>. QED
          BY <1>0, <1>2, <2>2, <3>1, <4>2 DEF WindowKnows, WindowTypes
      <3>4. CASE r = "canonical"
        <4>1. reads'["derived"] = reads["derived"]
          BY <1>0, <3>2, <3>4 DEF ReadsTypes, Readers
        <4>2. Prefix(reads["derived"].from)' = Prefix(reads["derived"].from)
          BY <2>2, <4>1 DEF Prefix
        <4>. QED
          BY <1>0, <1>2, <2>2, <3>1, <4>1, <4>2 DEF WindowKnows
      <3>. QED
        BY <3>3, <3>4 DEF Readers
    <2>3. CASE UNCHANGED library /\ Merge("derived")
      <3>1. /\ reads["derived"].own /\ ~mirror.outlived /\ mirror'.boundary
            /\ mirror.names \subseteq mirror'.names
            /\ Prefix(reads["derived"].from) \subseteq mirror'.names
        BY <1>0, <1>1, <2>3, MergeNames DEF Readers
      <3>2. Undisturbed
        BY <1>1, <1>2, <1>4, <3>1 DEF Undisturbed, Orderly
      <3>3. CASE mirror.boundary
        BY <1>0, <1>2, <3>1, <3>2, <3>3 DEF WindowKnows
      <3>4. CASE ~mirror.boundary
        BY <1>0, <1>2, <3>1, <3>2, <3>4 DEF WindowKnows
      <3>. QED
        BY <3>3, <3>4
    <2>4. ~PrepareMerges
      BY <1>4 DEF PrepareMerges
    <2>5. CASE Dropped
      BY <1>0, <2>5 DEF Dropped
    <2>. QED
      BY <1>0, <2>1, <2>2, <2>3, <2>4, <2>5, NamesSteps
  <1>. QED
    BY <1>2, <1>3, <1>4

\* A gate that finds the boundary ready judges from every source its prepare could list: with
\* any read, merge or failure of the other lane at any point of its own read, as long as
\* material comes in in order, no rebuild empties the mirror meanwhile, and no read has left
\* its cursor on a mirror that was dropped during its await.
THEOREM WindowsSeeLibrary == Spec => []WindowSeesLibrary
  <1>1. Init => BoundaryInv
    <2>. SUFFICES ASSUME Init PROVE BoundaryInv
      OBVIOUS
    <2>1. Library = {} /\ window.phase = "closed"
      BY DEF Init, Library, Closed
    <2>. QED
      BY <2>1 DEF BoundaryInv, MirrorKnows, ReadsKnow, PrepareListed, WindowKnows, Undisturbed
  <1>2. PeopleTypes /\ BoundaryInv /\ [Next]_vars => BoundaryInv'
    BY MirrorKnowsStep, PrepareListedStep, WindowKnowsStep DEF BoundaryInv
  <1>3. BoundaryInv => WindowSeesLibrary
    BY DEF BoundaryInv, WindowKnows, Undisturbed, Orderly, WindowSeesLibrary
  <1>. QED
    BY <1>1, <1>2, <1>3, PeopleAlways, PTL DEF Spec
=============================================================================
