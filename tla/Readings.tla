------------------------------- MODULE Readings -------------------------------
(***************************************************************************)
(* The derived readings a library keeps of itself, and the derived lane    *)
(* that keeps them:                                                        *)
(*  - the access ledger, the sums of what business consultations touched,  *)
(*    one delivery per kept event, rebuilt by replaying the kept events;   *)
(*  - the people component's address terms, the sums of what each indexed  *)
(*    source says, rebuilt by replaying the sources;                       *)
(*  - the people component's mirror of both in the worker's own memory,    *)
(*    which the gate of a canonical job judges from while the derived lane *)
(*    of the same process goes on.                                         *)
(*                                                                         *)
(* The queue delivers at least once, and a body may die between any two    *)
(* writes. A sum is kept per contribution, so a count of 2 is the same     *)
(* event or source added twice. The terms are one (term, target) pair.     *)
(***************************************************************************)
EXTENDS Naturals, Sequences, FiniteSets

CONSTANTS
    Consultations,
    Business,      \* those of a business visitor; the others are audits
    Sources,
    Stamp,         \* a source's created_at, which is when its material is from
    ReportMin,     \* sources that make a term reported
    PageSize,      \* REPLAY_PAGE
    Budgets        \* bounds: consultations, rebuilds, canonical jobs, deaths, failing statements

Events == Consultations \X {"opening", "answer"}

ASSUME ReadingsAssumption ==
    /\ Business \subseteq Consultations /\ IsFiniteSet(Consultations)
    /\ Stamp \in [Sources -> Nat \ {0}] /\ \A s, t \in Sources : Stamp[s] = Stamp[t] => s = t
    /\ IsFiniteSet(Sources)
    /\ ReportMin \in Nat \ {0} /\ PageSize \in Nat \ {0}
    /\ Budgets \subseteq [asks : Nat, rebuilds : Nat, windows : Nat, deaths : Nat, failures : Nat]

VARIABLES
    happened,   \* consultations: the events on record
    stamped,    \* opening_projected_at, projected_at
    hits,       \* recall_access_hits and _misses, per event
    notified,   \* how often the components were told of an event
    library,    \* sources, in the order they were imported
    manifest,   \* component_people_indexed
    terms,      \* component_people_terms, per source
    reported,   \* reported_since: the source whose day it is, or 0
    missed,     \* sources whose hook failed
    mirror,     \* what the worker's memory holds of library and terms
    reads,      \* the boundary read each lane of the worker has under way
    window,     \* the canonical job whose component window is open
    jobs, current, at, work,
    budget

ledger == <<happened, stamped, hits, notified>>
table  == <<manifest, terms, reported>>
lane   == <<jobs, current, at, work>>
vars   == <<ledger, library, table, missed, mirror, reads, window, lane, budget>>
-----------------------------------------------------------------------------
Library == {library[i] : i \in DOMAIN library}

\* How many sources a set of counts says a term has.
Support(counts) == LET Add[S \in SUBSET Sources] ==
                         IF S = {} THEN 0
                         ELSE LET s == CHOOSE x \in S : TRUE IN counts[s] + Add[S \ {s}]
                   IN Add[Sources]

NoCounts == [s \in Sources |-> 0]
NoHits == [e \in Events |-> 0]

\* kept: the address terms are held at all; outlived: a read whose mirror was dropped under
\* it has written its cursor and its ready bit all the same.
Cold == [names |-> {}, mark |-> 0, boundary |-> FALSE, outlived |-> FALSE,
         counts |-> NoCounts, reported |-> 0, ready |-> FALSE, kept |-> FALSE]

\* Both lanes are tasks of one event loop, with no lock between them.
Readers == {"derived", "canonical"}
NoRead == [mark |-> 0, from |-> 0, own |-> FALSE]
Held == [mark |-> 0, from |-> 0, own |-> TRUE]   \* what a replay folds into
NoRows == [counts |-> NoCounts, reported |-> 0]
Closed == [phase |-> "closed", library |-> {}, disturbed |-> FALSE, rows |-> NoRows]
Nothing == [events |-> <<>>, seen |-> {}, sums |-> NoHits, left |-> {}, stamp |-> 0, failed |-> FALSE]

Row(kind, about, part) == [kind |-> kind, about |-> about, part |-> part, status |-> "queued"]
Me == jobs[current]
Running(kind, phase) == current # 0 /\ at = phase /\ Me.kind = kind

Spend(what) == budget[what] > 0 /\ budget' = [budget EXCEPT ![what] = @ - 1]

Init ==
    /\ happened = {} /\ stamped = {} /\ hits = NoHits /\ notified = NoHits
    /\ library = <<>> /\ manifest = {} /\ terms = NoCounts /\ reported = 0 /\ missed = {}
    /\ mirror = Cold /\ reads = [r \in Readers |-> NoRead] /\ window = Closed
    /\ jobs = <<>> /\ current = 0 /\ at = "idle" /\ work = Nothing
    /\ budget \in Budgets
-----------------------------------------------------------------------------
(* The callers: an answering lane, an import, the operator's rebuild. *)

\* create_consultation: the row and its delivery are one transaction, and a replayed row
\* inserts nothing. A lane that answers in one call opens and answers together.
CreateConsultation(c, part) ==
    /\ <<c, "opening">> \notin happened /\ Spend("asks")
    /\ happened' = happened \cup
         IF part = "complete" THEN {<<c, "opening">>, <<c, "answer">>} ELSE {<<c, "opening">>}
    /\ jobs' = IF c \in Business
               THEN Append(jobs, Row("recall_projection", c, part)) ELSE jobs
    /\ UNCHANGED <<stamped, hits, notified, library, table, missed, mirror, reads, window, current, at, work>>

\* Mutant: the answer is kept and its delivery is left to the opening's.
AnswerUndelivered(c) ==
    /\ <<c, "opening">> \in happened /\ <<c, "answer">> \notin happened
    /\ happened' = happened \cup {<<c, "answer">>}
    /\ UNCHANGED <<stamped, hits, notified, library, table, missed, mirror, reads, window, lane, budget>>

\* answer_consultation: once, with its own delivery.
AnswerConsultation(c) ==
    /\ <<c, "opening">> \in happened /\ <<c, "answer">> \notin happened
    /\ happened' = happened \cup {<<c, "answer">>}
    /\ jobs' = IF c \in Business
               THEN Append(jobs, Row("recall_projection", c, "answer")) ELSE jobs
    /\ UNCHANGED <<stamped, hits, notified, library, table, missed, mirror, reads, window, current, at, work, budget>>

\* A source and its index job are one transaction; material is imported in any order.
ImportSource(s) ==
    /\ s \notin Library
    /\ library' = Append(library, s)
    /\ jobs' = Append(jobs, Row("index", s, "complete"))
    /\ UNCHANGED <<ledger, table, missed, mirror, reads, window, current, at, work, budget>>

RequestRebuild ==
    /\ Spend("rebuilds")
    /\ jobs' = Append(jobs, Row("recall_rebuild", 0, "complete"))
    /\ UNCHANGED <<ledger, library, table, missed, mirror, reads, window, current, at, work>>
-----------------------------------------------------------------------------
(* The derived lane: one job at a time. *)

ClaimNext ==
    /\ current = 0
    /\ \E j \in DOMAIN jobs :
        /\ jobs[j].status = "queued" /\ \A i \in 1..(j - 1) : jobs[i].status # "queued"
        /\ jobs' = [jobs EXCEPT ![j].status = "claimed"]
        /\ current' = j
        /\ at' = CASE jobs[j].kind = "recall_projection" -> "read"
                   [] jobs[j].kind = "recall_rebuild" -> "replay"
                   [] OTHER -> "boundary"
    /\ work' = Nothing
    /\ UNCHANGED <<ledger, library, table, missed, mirror, reads, window, budget>>

\* Mutant: the ending of a row is not written.
EndsUnrecorded(status) == jobs' = jobs /\ current' = 0 /\ at' = "idle" /\ work' = Nothing

Ends(status) ==
    /\ jobs' = [jobs EXCEPT ![current].status = status]
    /\ current' = 0 /\ at' = "idle" /\ work' = Nothing

Completes ==
    /\ current # 0 /\ at = "complete" /\ Ends("done")
    /\ UNCHANGED <<ledger, library, table, missed, mirror, reads, window, budget>>

WaitElapses(j) ==
    /\ jobs[j].status = "waiting"
    /\ jobs' = [jobs EXCEPT ![j].status = "queued"]
    /\ UNCHANGED <<ledger, library, table, missed, mirror, reads, window, current, at, work, budget>>

\* The worker dies with both lanes and its memory; its successor queues the row again.
WorkerDies ==
    /\ Spend("deaths")
    /\ mirror' = Cold /\ reads' = [r \in Readers |-> NoRead] /\ window' = Closed
    /\ IF current = 0 THEN UNCHANGED lane ELSE Ends("queued")
    /\ UNCHANGED <<ledger, library, table, missed>>
-----------------------------------------------------------------------------
(* run_recall_projection_job. *)

ReadRecord ==
    /\ Running("recall_projection", "read")
    /\ work' = [work EXCEPT !.events =
          IF Me.part = "complete" THEN <<<<Me.about, "opening">>, <<Me.about, "answer">>>>
          ELSE <<<<Me.about, Me.part>>>>]
    /\ at' = "apply"
    /\ UNCHANGED <<ledger, library, table, missed, mirror, reads, window, jobs, current, budget>>

\* apply_access_stats: the stamp is claimed and the rows added in one transaction.
ApplyAccessStats ==
    /\ Running("recall_projection", "apply") /\ work.events # <<>>
    /\ Head(work.events) \notin stamped
    /\ stamped' = stamped \cup {Head(work.events)}
    /\ hits' = [hits EXCEPT ![Head(work.events)] = @ + 1]
    /\ at' = "notify"
    /\ UNCHANGED <<happened, notified, library, table, missed, mirror, reads, window, jobs, current, work, budget>>

\* Mutant: the components are told of every delivery.
RetellApplied ==
    /\ Running("recall_projection", "apply") /\ work.events # <<>>
    /\ Head(work.events) \in stamped
    /\ at' = "notify"
    /\ UNCHANGED <<ledger, library, table, missed, mirror, reads, window, jobs, current, work, budget>>

AlreadyApplied ==
    /\ Running("recall_projection", "apply") /\ work.events # <<>>
    /\ Head(work.events) \in stamped
    /\ work' = [work EXCEPT !.events = Tail(@)]
    /\ UNCHANGED <<ledger, library, table, missed, mirror, reads, window, jobs, current, at, budget>>

\* notify_recall, outside the transaction: a death before it loses the telling.
NotifyRecall ==
    /\ Running("recall_projection", "notify")
    /\ notified' = [notified EXCEPT ![Head(work.events)] = @ + 1]
    /\ work' = [work EXCEPT !.events = Tail(@)]
    /\ at' = "apply"
    /\ UNCHANGED <<happened, stamped, hits, library, table, missed, mirror, reads, window, jobs, current, budget>>

Projected ==
    /\ Running("recall_projection", "apply") /\ work.events = <<>>
    /\ at' = "complete"
    /\ UNCHANGED <<ledger, library, table, missed, mirror, reads, window, jobs, current, work, budget>>
-----------------------------------------------------------------------------
(* run_recall_rebuild_job: the ledger first. *)

\* Mutant: every kept event is replayed.
ReplayableKept == {e \in happened : e[1] \in Business} \ work.seen

\* The business events that carry a stamp and lie beyond the cursor.
Replayable == {e \in stamped : e[1] \in Business} \ work.seen

ReplayPage ==
    /\ Running("recall_rebuild", "replay") /\ Replayable # {}
    /\ \E page \in SUBSET Replayable :
        /\ page # {} /\ Cardinality(page) <= PageSize
        /\ Cardinality(page) < PageSize => page = Replayable
        /\ work' = [work EXCEPT !.seen = @ \cup page,
                      !.sums = [e \in Events |-> IF e \in page THEN @[e] + 1 ELSE @[e]]]
    /\ UNCHANGED <<ledger, library, table, missed, mirror, reads, window, jobs, current, at, budget>>

\* replace_access_stats: both tables in one transaction.
ReplaceAccessStats ==
    /\ Running("recall_rebuild", "replay") /\ Replayable = {}
    /\ hits' = work.sums
    /\ at' = "forget"
    /\ UNCHANGED <<happened, stamped, notified, library, table, missed, mirror, reads, window, jobs, current, work, budget>>
-----------------------------------------------------------------------------
(* The people component's mirror: _warm, in two halves that fail apart. *)

\* Mutant: what was mirrored is dropped and the cursor is kept.
ForgetNames(m) == [m EXCEPT !.names = {}, !.boundary = FALSE, !.outlived = FALSE]

ForgetBoundary(m) ==
    [m EXCEPT !.names = {}, !.boundary = FALSE, !.mark = 0, !.outlived = FALSE]

\* What the other lane's read holds is the mirror no longer.
Orphaned(r, read) ==
    [x \in Readers |-> IF x = r THEN read ELSE [reads[x] EXCEPT !.own = FALSE]]

\* _warm_boundary up to its await: it holds the mirror's own dictionaries and the watermark.
StartRead(r) ==
    reads' = [reads EXCEPT ![r] = [mark |-> mirror.mark, from |-> Len(library), own |-> TRUE]]

\* list_since when n sources were committed: what lies beyond the cursor that was held.
Listed(r, n) == {s \in {library[i] : i \in 1..n} : Stamp[s] > reads[r].mark}

\* The cursor moves to the greatest created_at of what was held and what was listed.
Cursor(r, n) ==
    LET marks == {Stamp[s] : s \in Listed(r, n)} \cup {reads[r].mark}
    IN CHOOSE x \in marks : \A y \in marks : y <= x

\* ... and after the await: into the dictionaries it holds, and then the cursor and the ready
\* bit, whoever owns the mirror by now.
Merge(r) ==
    /\ \E n \in reads[r].from..Len(library) :
         mirror' = [mirror EXCEPT
             !.names = IF reads[r].own THEN @ \cup Listed(r, n) ELSE @,
             !.mark = IF Cursor(r, n) = 0 THEN @ ELSE Cursor(r, n),
             !.boundary = TRUE,
             !.outlived = IF reads[r].own THEN @ ELSE TRUE]
    /\ reads' = [reads EXCEPT ![r] = NoRead]

ReadFails(r) == mirror' = ForgetBoundary(mirror) /\ reads' = Orphaned(r, NoRead)

ForgetTerms(m) ==
    [m EXCEPT !.counts = NoCounts, !.reported = 0, !.ready = FALSE, !.kept = FALSE]
WarmTerms(m, rows) ==
    [m EXCEPT !.counts = rows.counts, !.reported = rows.reported, !.ready = TRUE, !.kept = TRUE]

\* people_terms, read whole.
TermRows == [counts |-> terms, reported |-> reported]
-----------------------------------------------------------------------------
(* _warm by a body of the derived lane: on_source_indexed, the last step of an index job,  *)
(* begins with it, and rebuild ends with it. Both halves are always tried.                 *)

Warming(phase) == current # 0 /\ at = phase /\ Me.kind \in {"index", "recall_rebuild"}

ReadBoundary ==
    /\ Warming("boundary") /\ at' = "merge"
    /\ StartRead("derived")
    /\ UNCHANGED <<ledger, library, table, missed, mirror, window, jobs, current, work, budget>>

MergeBoundary ==
    /\ Warming("merge") /\ at' = "terms"
    /\ \/ Merge("derived") /\ UNCHANGED <<work, budget>>
       \/ ReadFails("derived") /\ Spend("failures") /\ work' = [work EXCEPT !.failed = TRUE]
    /\ UNCHANGED <<ledger, library, table, missed, window, jobs, current>>

\* One step: nobody but the derived lane writes the table between its read and its use.
RefreshTerms ==
    /\ Warming("terms") /\ at' = IF Me.kind = "index" THEN "add" ELSE "rebuilt"
    /\ \/ mirror' = WarmTerms(mirror, TermRows) /\ UNCHANGED <<work, budget>>
       \/ /\ mirror' = ForgetTerms(mirror)
          /\ Spend("failures") /\ work' = [work EXCEPT !.failed = TRUE]
    /\ UNCHANGED <<ledger, library, table, missed, reads, window, jobs, current>>
-----------------------------------------------------------------------------
(* on_source_indexed, after its _warm. *)

\* A hook that raises costs its job nothing.
HookFails ==
    /\ current # 0 /\ Me.kind = "index" /\ at \in {"add", "stamp"}
    /\ IF at = "add" /\ work.failed THEN UNCHANGED budget ELSE Spend("failures")
    /\ missed' = missed \cup {Me.about}
    /\ at' = "complete"
    /\ UNCHANGED <<ledger, library, table, mirror, reads, window, jobs, current, work>>

\* Mutant: the source is added whether or not it is in the manifest.
AddTermsUnasked ==
    /\ Running("index", "add") /\ ~work.failed
    /\ manifest' = manifest \cup {Me.about}
    /\ terms' = [terms EXCEPT ![Me.about] = @ + 1]
    /\ at' = "count"
    /\ UNCHANGED <<ledger, library, reported, missed, mirror, reads, window, jobs, current, work, budget>>

\* add_people_terms: the manifest is claimed and the counts added in one transaction.
AddTerms ==
    /\ Running("index", "add") /\ ~work.failed
    /\ IF Me.about \in manifest
       THEN at' = "complete" /\ UNCHANGED table
       ELSE /\ manifest' = manifest \cup {Me.about}
            /\ terms' = [terms EXCEPT ![Me.about] = @ + 1]
            /\ at' = "count" /\ UNCHANGED reported
    /\ UNCHANGED <<ledger, library, missed, mirror, reads, window, jobs, current, work, budget>>

\* The mirror accumulates too, and stamps a term the source pushed over the bar.
Counted(m, s) == [m EXCEPT !.counts[s] = @ + 1, !.kept = TRUE]
Crosses(m) == m.reported = 0 /\ Support(m.counts) >= ReportMin

CountMirror ==
    /\ Running("index", "count")
    /\ LET counted == Counted(mirror, Me.about) IN
        IF Crosses(counted)
        THEN /\ mirror' = [counted EXCEPT !.reported = Stamp[Me.about]] /\ at' = "stamp"
        ELSE /\ mirror' = counted /\ at' = "complete"
    /\ UNCHANGED <<ledger, library, table, missed, reads, window, jobs, current, work, budget>>

SetReportedSince ==
    /\ Running("index", "stamp")
    /\ reported' = IF reported = 0 THEN Stamp[Me.about] ELSE reported
    /\ at' = "complete"
    /\ UNCHANGED <<ledger, library, manifest, terms, missed, mirror, reads, window, jobs, current, work, budget>>
-----------------------------------------------------------------------------
(* PeopleComponent.rebuild, the second half of a rebuild job. *)

\* The mirror starts from nothing, in dictionaries the replay holds; its two ready bits stay
\* as they are.
ForgetMirror ==
    /\ Running("recall_rebuild", "forget")
    /\ mirror' = [mirror EXCEPT !.names = {}, !.mark = 0, !.outlived = FALSE,
                                !.counts = NoCounts, !.reported = 0, !.kept = TRUE]
    /\ reads' = Orphaned("derived", Held)
    /\ window' = [window EXCEPT !.disturbed = TRUE]
    /\ at' = "delete"
    /\ UNCHANGED <<ledger, library, table, missed, jobs, current, work, budget>>

\* Mutant: the counts go and the manifest stays.
DeleteCountsAlone ==
    /\ Running("recall_rebuild", "delete")
    /\ terms' = NoCounts /\ reported' = 0
    /\ at' = "list"
    /\ UNCHANGED <<ledger, library, manifest, missed, mirror, reads, window, jobs, current, work, budget>>

\* delete_people_terms: counts and manifest in one transaction.
DeletePeopleTerms ==
    /\ Running("recall_rebuild", "delete")
    /\ manifest' = {} /\ terms' = NoCounts /\ reported' = 0
    /\ at' = "list"
    /\ UNCHANGED <<ledger, library, missed, mirror, reads, window, jobs, current, work, budget>>

ListSources ==
    /\ Running("recall_rebuild", "list")
    /\ work' = [work EXCEPT !.left = Library, !.seen = Library]
    /\ at' = "fold"
    /\ UNCHANGED <<ledger, library, table, missed, mirror, reads, window, jobs, current, budget>>

\* The sources are replayed in the order of their material.
Earliest == CHOOSE s \in work.left : \A t \in work.left : Stamp[s] <= Stamp[t]

FoldSource ==
    /\ Running("recall_rebuild", "fold") /\ work.left # {}
    /\ mirror' = [mirror EXCEPT !.names = IF reads["derived"].own THEN @ \cup {Earliest} ELSE @]
    /\ at' = "readd"
    /\ UNCHANGED <<ledger, library, table, missed, reads, window, jobs, current, work, budget>>

ReaddTerms ==
    /\ Running("recall_rebuild", "readd")
    /\ IF Earliest \in manifest THEN UNCHANGED <<manifest, terms>>
       ELSE /\ manifest' = manifest \cup {Earliest}
            /\ terms' = [terms EXCEPT ![Earliest] = @ + 1]
    /\ at' = "recount"
    /\ UNCHANGED <<ledger, library, reported, missed, mirror, reads, window, jobs, current, work, budget>>

RecountMirror ==
    /\ Running("recall_rebuild", "recount") /\ mirror.kept
    /\ LET counted == Counted(mirror, Earliest)
           day == Stamp[Earliest] IN
        /\ mirror' = IF Crosses(counted) THEN [counted EXCEPT !.reported = day] ELSE counted
        /\ work' = [work EXCEPT !.left = @ \ {Earliest},
                                !.stamp = IF Crosses(counted) THEN day ELSE @]
    /\ at' = "fold"
    /\ UNCHANGED <<ledger, library, table, missed, reads, window, jobs, current, budget>>

StampsAfterReplay ==
    /\ Running("recall_rebuild", "fold") /\ work.left = {}
    /\ reported' = IF reported = 0 THEN work.stamp ELSE reported
    /\ at' = "boundary"
    /\ UNCHANGED <<ledger, library, manifest, terms, missed, mirror, reads, window, jobs, current, work, budget>>

Rebuilt ==
    /\ Running("recall_rebuild", "rebuilt") /\ ~work.failed
    /\ at' = "complete"
    /\ UNCHANGED <<ledger, library, table, missed, mirror, reads, window, jobs, current, work, budget>>

\* ComponentRebuildFailed: the row waits on its schedule and the lane goes on. A prepare that
\* dropped the terms under the replay fails it too.
RebuildFails ==
    /\ current # 0 /\ Me.kind = "recall_rebuild"
    /\ \/ at = "rebuilt" /\ work.failed /\ UNCHANGED budget
       \/ at = "recount" /\ ~mirror.kept /\ UNCHANGED budget
       \/ at \in {"delete", "list", "readd", "fold"} /\ Spend("failures")
    /\ Ends("waiting")
    /\ UNCHANGED <<ledger, library, table, missed, mirror, reads, window>>
-----------------------------------------------------------------------------
(* A canonical job in the same process: component_job, prepare, the gate. *)

OpenWindow ==
    /\ window.phase = "closed" /\ Spend("windows")
    /\ window' = [Closed EXCEPT !.phase = "boundary"]
    /\ UNCHANGED <<ledger, library, table, missed, mirror, reads, lane>>

\* prepare_components is fail-soft: a half that failed is not ready, and the job goes on.
PrepareReads ==
    /\ window.phase = "boundary"
    /\ StartRead("canonical")
    /\ window' = [window EXCEPT !.phase = "merge", !.library = Library]
    /\ UNCHANGED <<ledger, library, table, missed, mirror, lane, budget>>

PrepareMerges ==
    /\ window.phase = "merge"
    /\ \/ Merge("canonical") /\ UNCHANGED budget
       \/ ReadFails("canonical") /\ Spend("failures")
    /\ window' = [window EXCEPT !.phase = "terms"]
    /\ UNCHANGED <<ledger, library, table, missed, lane>>

PrepareReadsTerms ==
    /\ window.phase = "terms"
    /\ window' = [window EXCEPT !.phase = "assign", !.rows = TermRows]
    /\ UNCHANGED <<ledger, library, table, missed, mirror, reads, lane, budget>>

\* What was read is assigned, whatever the derived lane has added meanwhile.
PrepareTerms ==
    /\ window.phase = "assign"
    /\ \/ mirror' = WarmTerms(mirror, window.rows) /\ UNCHANGED budget
       \/ mirror' = ForgetTerms(mirror) /\ Spend("failures")
    /\ window' = [window EXCEPT !.phase = "judging", !.rows = NoRows]
    /\ UNCHANGED <<ledger, library, table, missed, reads, lane>>

CloseWindow ==
    /\ window.phase = "judging"
    /\ window' = Closed
    /\ UNCHANGED <<ledger, library, table, missed, mirror, reads, lane, budget>>
-----------------------------------------------------------------------------
Callers ==
    \/ \E c \in Consultations :
        AnswerConsultation(c) \/ \E part \in {"opening", "complete"} : CreateConsultation(c, part)
    \/ \E s \in Sources : ImportSource(s)
    \/ RequestRebuild

Body ==
    \/ Completes
    \/ ReadRecord \/ ApplyAccessStats \/ AlreadyApplied \/ NotifyRecall \/ Projected
    \/ ReplayPage \/ ReplaceAccessStats
    \/ ReadBoundary \/ MergeBoundary \/ RefreshTerms \/ HookFails \/ AddTerms \/ CountMirror \/ SetReportedSince
    \/ ForgetMirror \/ DeletePeopleTerms \/ ListSources \/ FoldSource \/ ReaddTerms \/ RecountMirror
    \/ StampsAfterReplay \/ Rebuilt \/ RebuildFails

Window ==
    \/ OpenWindow \/ PrepareReads \/ PrepareMerges \/ PrepareReadsTerms \/ PrepareTerms \/ CloseWindow

Next ==
    \/ Callers \/ ClaimNext \/ Body \/ Window \/ WorkerDies
    \/ \E j \in DOMAIN jobs : WaitElapses(j)

\* The lane is drained for ever and a wait ends; callers and canonical jobs owe nothing.
Fairness ==
    /\ WF_vars(ClaimNext) /\ WF_vars(Body) /\ WF_vars(\E j \in DOMAIN jobs : WaitElapses(j))

Spec == Init /\ [][Next]_vars /\ Fairness
-----------------------------------------------------------------------------
(* What the readings promise. *)

Phases == {"idle", "complete", "read", "apply", "notify", "replay", "boundary", "merge", "terms",
           "add", "count", "stamp", "forget", "delete", "list", "fold", "readd", "recount", "rebuilt"}

Days == {0} \cup {Stamp[s] : s \in Sources}

TypeOK ==
    /\ happened \subseteq Events /\ stamped \subseteq {e \in happened : e[1] \in Business}
    /\ hits \in [Events -> Nat] /\ notified \in [Events -> Nat]
    /\ library \in Seq(Sources) /\ manifest \subseteq Library /\ missed \subseteq Library
    /\ terms \in [Sources -> Nat] /\ reported \in Days
    /\ mirror \in [names : SUBSET Sources, mark : Days, boundary : BOOLEAN, outlived : BOOLEAN,
                   counts : [Sources -> Nat], reported : Days, ready : BOOLEAN, kept : BOOLEAN]
    /\ reads \in [Readers -> [mark : Days, from : 0..Len(library), own : BOOLEAN]]
    /\ window.phase \in {"closed", "boundary", "merge", "terms", "assign", "judging"}
    /\ window.library \subseteq Library
    /\ current \in 0..Len(jobs) /\ at \in Phases
    /\ \A j \in DOMAIN jobs : jobs[j].status = "claimed" => j = current

\* access_stats.py apply_record and rebuild_access_stats: an event is in the sums once if it
\* carries its stamp and not at all before, through every redelivery, death and replay.
EventsCountedOnce == \A e \in Events : hits[e] = IF e \in stamped THEN 1 ELSE 0

T == INSTANCE Tally

\* The ledger implements the abstract tally: each event is added in one step of its own, and
\* a rebuild's swap, the sums of a replay, changes nothing.
RecordsAreTallied == T!Spec

\* run_recall_projection_job: the components hear of an event at most once, and of none that
\* is not in the sums; a death between the two costs the telling, never a second one.
NotifiedOnce == \A e \in Events : notified[e] <= 1 /\ (notified[e] = 1 => e \in stamped)

\* people.py on_source_indexed: a source is in the term counts once if the manifest lists
\* it and not at all otherwise, so the archive's subtraction of one copy is exact.
TermsCountedOnce == \A s \in Sources : terms[s] = IF s \in manifest THEN 1 ELSE 0

\* people.py rebuild: when a rebuild's row ends, every source it listed is counted, also
\* those whose hook had failed, and however often the rebuild was cut short.
RebuildHeals ==
    Running("recall_rebuild", "complete") => \A s \in work.seen : terms[s] = 1

InOrder == \A i, j \in DOMAIN library : i < j => Stamp[library[i]] < Stamp[library[j]]

\* people.py _forget_boundary: "a cursor that survived its mirror would resume from the end of
\* a library this process no longer holds". A gate that finds the boundary ready judges from
\* every source its prepare could list, whatever the derived lane reads, merges and fails
\* beside it, if material comes in in order, no rebuild empties the mirror meanwhile, and no
\* read whose mirror was dropped during its await has since finished: that one leaves exactly
\* such a cursor, and a ready bit over an empty mirror, until the next drop.
WindowSeesLibrary ==
    (window.phase = "judging" /\ mirror.boundary /\ InOrder /\ ~window.disturbed /\ ~mirror.outlived)
        => window.library \subseteq mirror.names

\* Every business event is counted in the end and every imported source too, unless the hook
\* that would have counted it failed.
ReadingsCatchUp ==
    <>[](/\ \A e \in happened : e[1] \in Business => e \in stamped
         /\ Library \subseteq manifest \cup missed)

\* people.py _warm: "so the sync seams see the LIBRARY", and "This job's own sources are
\* already listable here"; what an earlier warm-up did not list and a later one can, it lists.
GateSeesLibrary ==
    (window.phase = "judging" /\ mirror.boundary) => window.library \subseteq mirror.names
=============================================================================
