---------------------------- MODULE Publication ----------------------------
(***************************************************************************)
(* What happens to the derived stores after canonical has moved.           *)
(*                                                                         *)
(* The canonical lane runs one job at a time (JobQueue): a compile, a      *)
(* groom, a challenge or an archive. A job commits to git and then brings  *)
(* three stores after it: the lexical and the vector claim index and, last,*)
(* the PostgreSQL manifest the next delta is computed from. No transaction *)
(* spans them, the worker may die or a store may go away between any two   *)
(* writes, and the next body starts from what it finds.                    *)
(*                                                                         *)
(* A source stands for the one claim it gives rise to, so a source is also *)
(* the claim's anchor. A page's claims sit on the page or in its volumes,  *)
(* the page is live or under archive/, and an archived page leaves a       *)
(* record of RecordBlocks blocks on its live path.                         *)
(***************************************************************************)
EXTENDS Naturals, Sequences, FiniteSets

CONSTANTS
    Sources,        \* imported material
    Pages,          \* canonical documents
    About,          \* the page a source's claim is filed on
    Held,           \* the sources already compiled at the start
    Retired,        \* the pages already archived at the start
    RecordBlocks,   \* the blocks of an archive record
    Threshold,      \* claims on a page that make it oversized
    KeepRecent,     \* claims a rollover leaves on the page
    MaxAttempts,    \* parks a row takes before the schedule pauses it
    Budgets         \* bounds: how many deaths and failures, parks midway, manifests written past the
                    \* queue, commits by hand, audited compiles and archive plans one behaviour sees

ASSUME PublicationAssumption ==
    /\ About \in [Sources -> Pages] /\ Held \subseteq Sources /\ Retired \subseteq Pages
    /\ Threshold \in Nat /\ KeepRecent \in Nat /\ KeepRecent < Threshold
    /\ IsFiniteSet(Sources) /\ IsFiniteSet(RecordBlocks)
    /\ Sources \cap (Pages \X RecordBlocks) = {}  \* no claim has the anchor of a record's block
    /\ MaxAttempts \in Nat
    /\ Budgets \subseteq [faults : Nat, parks : Nat, manifests : Nat, hands : Nat, audits : Nat, plans : Nat]

VARIABLES
    history,     \* git: the commits, each with its tree and who made it
    pg,          \* the manifest: canonical_claims
    lex, vec,    \* the claims the two indexes answer with
    digested,    \* sources.digested_at
    marks,       \* sources.archived_at
    told,        \* compile_events
    rows,        \* archive_proposals
    confirming,  \* confirms that have read their row and HEAD
    jobs,        \* the canonical lane, oldest first
    current,     \* the claimed job, or 0
    at,          \* how far its body has come
    work,        \* what that body holds in memory
    budget       \* what of its bounds this behaviour has left

stores == <<pg, lex, vec>>
lane == <<jobs, current, at, work>>
vars == <<history, stores, digested, marks, told, rows, confirming, lane, budget>>
-----------------------------------------------------------------------------
(* Trees, claim keys and the projection of a tree. *)

Shelves == {"absent", "page", "volume"}
Trees == [shelf: [Sources -> Shelves], archived: SUBSET Pages]

HEAD == Len(history)
Tree == history[HEAD].tree

OnPage(t, p) == {s \in Sources : About[s] = p /\ t.shelf[s] = "page"}
Filed(t, p) == {s \in Sources : About[s] = p /\ t.shelf[s] # "absent"}

Record(p) == {<<p, b>> : b \in RecordBlocks}

\* A key is (document path, anchor): the path says page or volume, live or archive/.
Keys(t) ==
    {[anchor |-> s, shelf |-> t.shelf[s], archived |-> About[s] \in t.archived] :
        s \in {x \in Sources : t.shelf[x] # "absent"}}
    \cup {[anchor |-> a, shelf |-> "page", archived |-> FALSE] :
            a \in UNION {Record(p) : p \in t.archived}}

Anchors(keys) == {k.anchor : k \in keys}

\* _lost_anchors against MAX_PROJECTION_LOSS_SHARE: more than half of the manifest's rows.
ExcessiveLoss(previous, claims, retired) ==
    2 * Cardinality((Anchors(previous) \ Anchors(claims)) \ retired) > Cardinality(previous)
-----------------------------------------------------------------------------
(* The rows of the lane and of the archive. *)

Open == {"queued", "waiting", "claimed", "paused"}
Job(kind, arg, again) == [kind |-> kind, arg |-> arg, again |-> again, status |-> "queued",
                          tries |-> 0, ref |-> 0, cut |-> "no"]

Blank == [ref |-> 0, upserts |-> {}, deleted |-> {}, lex |-> "done", vec |-> "done",
          retired |-> {}, left |-> {}, wrote |-> FALSE]

Me == jobs[current]
Running(kind, phase) == current # 0 /\ at = phase /\ Me.kind = kind

Goto(phase) == at' = phase /\ UNCHANGED <<jobs, current, work>>
\* The row ends, naming in snapshot_ref the commit its body made, if it made one.
Ended(status, ref) == [jobs EXCEPT ![current].status = status, ![current].ref = ref]
End(status, ref) ==
    /\ jobs' = Ended(status, ref)
    /\ current' = 0 /\ at' = "idle" /\ work' = Blank

\* History, read by no step: whether a body of this row was cut short among its index writes,
\* and whether the row has stood behind others since, because it waits or because an earlier
\* row that waited comes back before it.
Cut(job, passed) ==
    IF job.cut = "no" /\ at # "index" THEN "no"
    ELSE IF passed THEN "behind" ELSE IF job.cut = "no" THEN "midway" ELSE job.cut
\* The schedule: the row waits, until it has waited too often.
Parked(job) == [job EXCEPT !.tries = @ + 1, !.cut = Cut(job, TRUE),
                           !.status = IF job.tries < MaxAttempts THEN "waiting" ELSE "paused"]
EarlierOpen == \E i \in 1..(current - 1) : jobs[i].status \in Open
Requeued(job) == [job EXCEPT !.status = "queued", !.cut = Cut(job, EarlierOpen)]
LeaveStores == UNCHANGED <<history, stores, digested, marks, told, rows, confirming, budget>>

Commit(t, by, proposal) ==
    history' = Append(history, [tree |-> t, by |-> by, proposal |-> proposal])

Start == [shelf |-> [s \in Sources |-> IF s \in Held THEN "page" ELSE "absent"],
          archived |-> Retired]

Init ==
    /\ history = <<[tree |-> Start, by |-> "init", proposal |-> 0]>>
    /\ pg = Keys(Start) /\ lex = Keys(Start) /\ vec = Keys(Start)
    /\ digested = Held /\ told = {}
    /\ marks = {s \in Held : About[s] \in Retired}
    /\ rows = <<>> /\ confirming = {}
    /\ jobs = <<>> /\ current = 0 /\ at = "idle" /\ work = Blank
    /\ budget \in Budgets
-----------------------------------------------------------------------------
(* The queue as the canonical lane sees it. *)

\* POST /compile: the undigested source gets its compile job.
RequestCompile(s) ==
    /\ s \notin digested
    /\ \A j \in DOMAIN jobs : jobs[j].kind = "compile" => jobs[j].arg # s
    /\ jobs' = Append(jobs, Job("compile", s, FALSE))
    /\ UNCHANGED <<current, at, work>> /\ LeaveStores

ClaimNext ==
    /\ current = 0
    /\ \E j \in DOMAIN jobs :
        /\ jobs[j].status = "queued"
        /\ \A i \in 1..(j - 1) : jobs[i].status # "queued"
        /\ jobs' = [jobs EXCEPT ![j].status = "claimed"]
        /\ current' = j /\ at' = "run" /\ work' = Blank
    /\ LeaveStores

WaitElapses(j) ==
    /\ jobs[j].status = "waiting"
    /\ jobs' = [jobs EXCEPT ![j].status = "queued"]
    /\ UNCHANGED <<current, at, work>> /\ LeaveStores

LeaveJob(Left(_), bound) ==
    /\ current # 0 /\ budget[bound] > 0
    /\ budget' = [budget EXCEPT ![bound] = @ - 1]
    /\ jobs' = IF Me.status = "claimed" THEN [jobs EXCEPT ![current] = Left(@)] ELSE jobs
    /\ current' = 0 /\ at' = "idle" /\ work' = Blank
    /\ UNCHANGED <<history, stores, digested, marks, told, rows, confirming>>

\* The worker dies and its self-heal requeues the row, or a store is away and ride_out puts
\* the row back: either way it keeps its place.
Interrupted == LeaveJob(Requeued, "faults")

\* The round itself failed before it committed (the gate refused, a model was away).
RoundFails ==
    /\ at = "run" /\ current # 0 /\ Me.kind = "compile"
    /\ LeaveJob(Parked, "faults")

\* A store is away once too often, an error has no rule of its own, or the job is an archive
\* that met an outage or a dirty tree: the row waits on its schedule and whatever is queued
\* behind it goes first. (An archive's other errors end it: ArchiveFails.)
StoreAway ==
    /\ current # 0
    /\ at \in {"run", "move", "events", "marks", "sync", "index", "digest", "terminal"}
    /\ LeaveJob(Parked, "parks")

\* The skill manifest is written from the API process, off the queue.
WriteMeta ==
    /\ budget.manifests > 0
    /\ budget' = [budget EXCEPT !.manifests = @ - 1]
    /\ Commit(Tree, "manifest", 0)
    /\ UNCHANGED <<stores, digested, marks, told, rows, confirming, lane>>
\* A person commits the deletion of a page: the library the guard of sync_projection doubts.
HandCommits(p) ==
    /\ budget.hands > 0
    /\ budget' = [budget EXCEPT !.hands = @ - 1]
    /\ Commit([shelf |-> [s \in Sources |-> IF About[s] = p THEN "absent" ELSE Tree.shelf[s]],
               archived |-> Tree.archived \ {p}], "hand", 0)
    /\ UNCHANGED <<stores, digested, marks, told, rows, confirming, lane>>
-----------------------------------------------------------------------------
(* sync_projection. *)

\* Mutant: a key counts as gone only when its anchor is, not when its path is.
SyncPlanByAnchor ==
    /\ at = "sync" /\ current # 0
    /\ LET claims == Keys(history[work.ref].tree) IN
        /\ ~ExcessiveLoss(pg, claims, work.retired)
        /\ work' = [work EXCEPT !.upserts = claims \ pg, !.lex = "delete", !.vec = "delete",
                                !.deleted = {k \in pg : k.anchor \notin Anchors(claims)}]
    /\ at' = "index"
    /\ UNCHANGED <<jobs, current>> /\ LeaveStores
SyncPlan ==
    /\ at = "sync" /\ current # 0
    /\ LET claims == Keys(history[work.ref].tree) IN
        /\ ~ExcessiveLoss(pg, claims, work.retired)
        /\ work' = [work EXCEPT !.upserts = claims \ pg, !.deleted = pg \ claims,
                                !.lex = "delete", !.vec = "delete"]
    /\ at' = "index"
    /\ UNCHANGED <<jobs, current>> /\ LeaveStores

\* ProjectionRefused: an archive ends failed behind its commit, anything else parks.
SyncRefused ==
    /\ at = "sync" /\ current # 0
    /\ ExcessiveLoss(pg, Keys(history[work.ref].tree), work.retired)
    /\ IF Me.kind = "archive"
       THEN /\ End("failed", 0)
            /\ rows' = [rows EXCEPT ![Me.arg].status = "failed", ![Me.arg].broken = TRUE]
       ELSE /\ jobs' = [jobs EXCEPT ![current] = Parked(@)]
            /\ current' = 0 /\ at' = "idle" /\ work' = Blank
            /\ UNCHANGED rows
    /\ UNCHANGED <<history, stores, digested, marks, told, confirming, budget>>

\* gather(lexical, vectors): each deletes and then upserts, neither waits for the other.
Indexed(index, phase) ==
    IF phase = "delete" THEN index \ work.deleted ELSE index \cup work.upserts
After(phase) == IF phase = "delete" THEN "upsert" ELSE "done"

WriteLexical ==
    /\ at = "index" /\ work.lex # "done"
    /\ lex' = Indexed(lex, work.lex)
    /\ work' = [work EXCEPT !.lex = After(@)]
    /\ UNCHANGED <<history, pg, vec, digested, marks, told, rows, confirming, jobs, current, at, budget>>

WriteVectors ==
    /\ at = "index" /\ work.vec # "done"
    /\ vec' = Indexed(vec, work.vec)
    /\ work' = [work EXCEPT !.vec = After(@)]
    /\ UNCHANGED <<history, pg, lex, digested, marks, told, rows, confirming, jobs, current, at, budget>>

\* Mutant: the vector branch is not waited for.
LexicalWritten == work.lex = "done"
IndexesWritten == work.lex = "done" /\ work.vec = "done"

\* sync_canonical_claims: one transaction, last.
AdvanceManifest ==
    /\ at = "index" /\ IndexesWritten
    /\ pg' = (pg \ work.deleted) \cup work.upserts
    /\ at' = CASE Me.kind = "compile" -> "digest"
               [] Me.kind = "groom" -> "complete"
               [] OTHER -> "terminal"
    /\ UNCHANGED <<history, lex, vec, digested, marks, told, rows, confirming, jobs, current, work, budget>>
-----------------------------------------------------------------------------
(* compile: the round and persist_compile_result. *)

\* A round writes only pages that are not archived; a record is read-only.
CompileCommits ==
    /\ Running("compile", "run")
    /\ Tree.shelf[Me.arg] = "absent" /\ About[Me.arg] \notin Tree.archived
    /\ Commit([Tree EXCEPT !.shelf[Me.arg] = "page"], "compile", 0)
    /\ work' = [Blank EXCEPT !.ref = HEAD + 1, !.wrote = TRUE]
    /\ at' = "events"
    /\ UNCHANGED <<stores, digested, marks, told, rows, confirming, jobs, current, budget>>

\* The round changed nothing: HEAD is brought to the stores all the same.
\* Mutant: nothing changed, so nothing is projected.
CompileNoopUnsynced ==
    /\ Running("compile", "run")
    /\ work' = [Blank EXCEPT !.ref = HEAD]
    /\ at' = "digest"
    /\ UNCHANGED <<jobs, current>> /\ LeaveStores
CompileNoop ==
    /\ Running("compile", "run")
    /\ work' = [Blank EXCEPT !.ref = HEAD]
    /\ at' = "sync"
    /\ UNCHANGED <<jobs, current>> /\ LeaveStores

RecordEvents ==
    /\ Running("compile", "events")
    /\ told' = told \cup {Me.arg}
    /\ Goto("sync")
    /\ UNCHANGED <<history, stores, digested, marks, rows, confirming, budget>>

MarkDigested ==
    /\ Running("compile", "digest")
    /\ digested' = digested \cup {Me.arg}
    /\ Goto("complete")
    /\ UNCHANGED <<history, stores, marks, told, rows, confirming, budget>>

CompileCompletes ==
    /\ Running("compile", "complete")
    /\ IF work.wrote
       THEN /\ jobs' = Ended("done", work.ref)
            /\ at' = "rollover" /\ UNCHANGED <<current, work>>
       ELSE End("done", 0)
    /\ LeaveStores

Oversized(t, p) == p \notin t.archived /\ Cardinality(OnPage(t, p)) >= Threshold

\* A row that waits is still queued there, with a not_before; a paused one is not.
GroomPending(p) ==
    \E j \in DOMAIN jobs :
        jobs[j].kind = "groom" /\ jobs[j].arg = p /\ jobs[j].status \in {"queued", "waiting", "claimed"}

MaybeTriggerRollover ==
    /\ Running("compile", "rollover")
    /\ LET p == About[Me.arg] IN
        jobs' = IF Oversized(history[work.ref].tree, p) /\ ~GroomPending(p)
                THEN Append(jobs, Job("groom", p, FALSE)) ELSE jobs
    /\ at' = "challenge"
    /\ UNCHANGED <<current, work>> /\ LeaveStores

MaybeTriggerChallenge ==
    /\ Running("compile", "challenge")
    /\ IF Me.again \/ budget.audits = 0
       THEN UNCHANGED <<jobs, budget>>
       ELSE /\ jobs' = Append(jobs, Job("challenge", Me.arg, FALSE))
            /\ budget' = [budget EXCEPT !.audits = @ - 1]
    /\ current' = 0 /\ at' = "idle" /\ work' = Blank
    /\ UNCHANGED <<history, stores, digested, marks, told, rows, confirming>>
-----------------------------------------------------------------------------
(* challenge and groom. *)

\* The audit found gaps: one compensation compile, whose own commit is not audited again.
ChallengeCompensates ==
    /\ Running("challenge", "run")
    /\ jobs' = Append(jobs, Job("compile", Me.arg, TRUE))
    /\ at' = "complete"
    /\ UNCHANGED <<current, work>> /\ LeaveStores

ChallengeCompletes ==
    /\ current # 0 /\ Me.kind = "challenge"
    /\ End("done", 0) /\ LeaveStores

Plannable(p) == p \notin Tree.archived /\ Cardinality(OnPage(Tree, p)) > KeepRecent

GroomCommits ==
    /\ Running("groom", "run") /\ Plannable(Me.arg)
    /\ \E kept \in SUBSET OnPage(Tree, Me.arg) :
        /\ Cardinality(kept) = KeepRecent
        /\ Commit([Tree EXCEPT !.shelf = [s \in Sources |->
                    IF s \in OnPage(Tree, Me.arg) \ kept THEN "volume" ELSE @[s]]], "groom", 0)
    /\ work' = [Blank EXCEPT !.ref = HEAD + 1]
    /\ at' = "sync"
    /\ UNCHANGED <<stores, digested, marks, told, rows, confirming, jobs, current, budget>>

\* The page is gone, cannot be rolled over, or no model writes the card.
GroomDeclines ==
    /\ Running("groom", "run")
    /\ End("done", 0) /\ LeaveStores

\* The card was refused twice.
GroomFails ==
    /\ Running("groom", "run") /\ Plannable(Me.arg)
    /\ End("failed", 0) /\ LeaveStores

GroomCompletes ==
    /\ Running("groom", "complete")
    /\ End("done", work.ref) /\ LeaveStores
-----------------------------------------------------------------------------
(* The archive's decisions, made in the API process. *)

\* plan: HEAD first, then the tree pinned to it.
PlanArchive(p) ==
    /\ Filed(Tree, p) # {} /\ budget.plans > 0
    /\ budget' = [budget EXCEPT !.plans = @ - 1]
    /\ rows' = Append(rows,
          [page |-> p, action |-> IF p \in Tree.archived THEN "unarchive" ELSE "archive",
           sources |-> Filed(Tree, p), moves |-> TRUE, ref |-> HEAD,
           status |-> "proposed", statement |-> FALSE, broken |-> FALSE])
    /\ UNCHANGED <<history, stores, digested, marks, told, confirming, lane>>

ConfirmReads(r) ==
    /\ rows[r].status = "proposed" /\ HEAD = rows[r].ref
    /\ confirming' = confirming \cup {r}
    /\ UNCHANGED <<history, stores, digested, marks, told, rows, lane, budget>>

ConfirmStale(r) ==
    /\ rows[r].status = "proposed" /\ HEAD # rows[r].ref
    /\ rows' = [rows EXCEPT ![r].status = "stale"]
    /\ UNCHANGED <<history, stores, digested, marks, told, confirming, lane, budget>>

\* The flip and the job are one transaction, decided by the row; the Owner may have
\* unticked the document, or the sources, but not everything.
\* Mutant: the status flips and the job is left to somebody else.
ConfirmWithoutJob(r) ==
    /\ r \in confirming
    /\ confirming' = confirming \ {r}
    /\ IF rows[r].status = "proposed"
       THEN rows' = [rows EXCEPT ![r].status = "confirmed"] ELSE UNCHANGED rows
    /\ UNCHANGED <<history, stores, digested, marks, told, lane, budget>>
ConfirmWrites(r) ==
    /\ r \in confirming
    /\ confirming' = confirming \ {r}
    /\ IF rows[r].status = "proposed"
       THEN \E moves \in BOOLEAN, kept \in {{}, rows[r].sources} :
                /\ moves \/ kept # {}
                /\ rows' = [rows EXCEPT ![r].status = "confirmed", ![r].moves = moves,
                                        ![r].sources = kept]
                /\ jobs' = Append(jobs, Job("archive", r, FALSE))
       ELSE UNCHANGED <<rows, jobs>>
    /\ UNCHANGED <<history, stores, digested, marks, told, current, at, work, budget>>

Drop(r) ==
    /\ rows[r].status \in {"proposed", "stale"}
    /\ rows' = [rows EXCEPT ![r].status = "dropped"]
    /\ UNCHANGED <<history, stores, digested, marks, told, confirming, lane, budget>>
-----------------------------------------------------------------------------
(* run_archive_job. *)

Row == rows[Me.arg]

\* The commit that carries this proposal's trailer, anywhere above the planned ref.
\* Mutant: the trailer is looked for on HEAD alone.
LandedOnHead == {HEAD} \cap {i \in DOMAIN history : history[i].proposal = Me.arg}
Landed == {i \in (Row.ref + 1)..HEAD : history[i].proposal = Me.arg}

\* Only an unarchive retires anchors, and a resumed one reads them off the planned tree.
RetiredBy(row) ==
    IF row.action = "unarchive" /\ row.moves THEN Record(row.page) ELSE {}

ArchiveNotConfirmed ==
    /\ Running("archive", "run") /\ Row.status # "confirmed"
    /\ End("failed", 0) /\ LeaveStores

ArchiveStale ==
    /\ Running("archive", "run") /\ Row.status = "confirmed"
    /\ HEAD # Row.ref /\ Landed = {}
    /\ rows' = [rows EXCEPT ![Me.arg].status = "failed"]
    /\ End("failed", 0)
    /\ UNCHANGED <<history, stores, digested, marks, told, confirming, budget>>

\* Mutant: a landed commit counts as the whole of the work before the projection.
ArchiveResumesAtSync ==
    /\ Running("archive", "run") /\ Row.status = "confirmed"
    /\ HEAD # Row.ref /\ Landed # {}
    /\ work' = [Blank EXCEPT !.ref = HEAD, !.retired = RetiredBy(Row)]
    /\ at' = "sync"
    /\ UNCHANGED <<jobs, current>> /\ LeaveStores
ArchiveResumes ==
    /\ Running("archive", "run") /\ Row.status = "confirmed"
    /\ HEAD # Row.ref /\ Landed # {}
    /\ work' = [Blank EXCEPT !.ref = HEAD, !.retired = RetiredBy(Row), !.left = Row.sources]
    /\ at' = "marks"
    /\ UNCHANGED <<jobs, current>> /\ LeaveStores

\* The statement a record quotes is ingested and named on the row before anything moves;
\* the ingest is deduplicated by its checksum, so only the naming is a step.
ArchiveStates ==
    /\ Running("archive", "run") /\ Row.status = "confirmed" /\ HEAD = Row.ref
    /\ Row.action = "archive" /\ Row.moves /\ ~Row.statement
    /\ rows' = [rows EXCEPT ![Me.arg].statement = TRUE]
    /\ Goto("move")
    /\ UNCHANGED <<history, stores, digested, marks, told, confirming, budget>>

\* Mutant: no look at HEAD between the claim and the move.
ArchiveProceedsAnywhere ==
    /\ Running("archive", "run") /\ Row.status = "confirmed" /\ Landed = {}
    /\ Row.action = "archive" /\ Row.moves => Row.statement
    /\ IF Row.moves
       THEN at' = "move" /\ UNCHANGED work
       ELSE at' = "marks" /\ work' = [Blank EXCEPT !.left = Row.sources]
    /\ UNCHANGED <<jobs, current>> /\ LeaveStores
ArchiveProceeds ==
    /\ Running("archive", "run") /\ Row.status = "confirmed" /\ HEAD = Row.ref
    /\ Row.action = "archive" /\ Row.moves => Row.statement
    /\ IF Row.moves
       THEN at' = "move" /\ UNCHANGED work
       ELSE at' = "marks" /\ work' = [Blank EXCEPT !.left = Row.sources]
    /\ UNCHANGED <<jobs, current>> /\ LeaveStores

MoveDocuments ==
    /\ Running("archive", "move")
    /\ Commit([Tree EXCEPT !.archived =
                 IF Row.action = "archive" THEN @ \cup {Row.page} ELSE @ \ {Row.page}],
              "archive", Me.arg)
    /\ work' = [Blank EXCEPT !.ref = HEAD + 1, !.retired = RetiredBy(Row), !.left = Row.sources]
    /\ at' = "marks"
    /\ UNCHANGED <<stores, digested, marks, told, rows, confirming, jobs, current, budget>>

SetSourceArchived ==
    /\ Running("archive", "marks")
    /\ \E s \in work.left :
        /\ marks' = IF Row.action = "archive" THEN marks \cup {s} ELSE marks \ {s}
        /\ work' = [work EXCEPT !.left = @ \ {s}]
    /\ UNCHANGED <<history, stores, digested, told, rows, confirming, jobs, current, at, budget>>

\* A proposal that moved no document has nothing to project.
MarksSet ==
    /\ Running("archive", "marks") /\ work.left = {}
    /\ Goto(IF work.ref = 0 THEN "terminal" ELSE "sync")
    /\ LeaveStores

\* An error that is neither an outage nor a dirty tree (an index or a model answers with an
\* error, a statement times out, a ref or a record cannot be read) ends the proposal failed,
\* with what had landed by then left as it is.
ArchiveFails ==
    /\ current # 0 /\ Me.kind = "archive" /\ Row.status = "confirmed"
    /\ at \in {"run", "move", "marks", "sync", "index"}
    /\ budget.faults > 0
    /\ budget' = [budget EXCEPT !.faults = @ - 1]
    /\ rows' = [rows EXCEPT ![Me.arg].status = "failed", ![Me.arg].broken = @ \/ Landed # {}]
    /\ End("failed", 0)
    /\ UNCHANGED <<history, stores, digested, marks, told, confirming>>

RecordTerminal ==
    /\ Running("archive", "terminal")
    /\ rows' = IF Row.status = "confirmed"
               THEN [rows EXCEPT ![Me.arg].status = "executed"] ELSE rows
    /\ Goto("complete")
    /\ UNCHANGED <<history, stores, digested, marks, told, confirming, budget>>

ArchiveCompletes ==
    /\ Running("archive", "complete")
    /\ End("done", IF Landed = {} THEN 0 ELSE CHOOSE i \in Landed : TRUE) /\ LeaveStores
-----------------------------------------------------------------------------
Owner ==
    \/ \E s \in Sources : RequestCompile(s)
    \/ \E p \in Pages : PlanArchive(p)
    \/ \E r \in DOMAIN rows : ConfirmReads(r) \/ ConfirmStale(r) \/ ConfirmWrites(r) \/ Drop(r)

Body ==
    \/ SyncPlan \/ SyncRefused \/ WriteLexical \/ WriteVectors \/ AdvanceManifest
    \/ CompileCommits \/ CompileNoop \/ RecordEvents \/ MarkDigested \/ CompileCompletes
    \/ MaybeTriggerRollover \/ MaybeTriggerChallenge
    \/ ChallengeCompensates \/ ChallengeCompletes
    \/ GroomCommits \/ GroomDeclines \/ GroomFails \/ GroomCompletes
    \/ ArchiveNotConfirmed \/ ArchiveStale \/ ArchiveResumes \/ ArchiveStates \/ ArchiveProceeds
    \/ MoveDocuments \/ SetSourceArchived \/ MarksSet \/ RecordTerminal \/ ArchiveCompletes

Next ==
    \/ Owner \/ ClaimNext \/ Body
    \/ \E j \in DOMAIN jobs : WaitElapses(j)
    \/ Interrupted \/ RoundFails \/ StoreAway \/ ArchiveFails \/ WriteMeta
    \/ \E p \in Pages : HandCommits(p)

\* The lanes are drained for ever and a wait ends; the Owner owes nothing.
Fairness ==
    /\ WF_vars(ClaimNext) /\ WF_vars(Body)
    /\ WF_vars(\E j \in DOMAIN jobs : WaitElapses(j))

Spec == Init /\ [][Next]_vars /\ Fairness
-----------------------------------------------------------------------------
(* What the stores, the queue and the archive promise each other. *)

TypeOK ==
    /\ history \in Seq([tree : Trees, by : {"init", "compile", "groom", "manifest", "hand", "archive"},
                         proposal : 0..Len(rows)])
    /\ pg \subseteq UNION {Keys(t) : t \in {history[i].tree : i \in DOMAIN history}}
    /\ digested \subseteq Sources /\ marks \subseteq Sources /\ told \subseteq Sources
    /\ rows \in Seq([page : Pages, action : {"archive", "unarchive"}, sources : SUBSET Sources,
                      moves : BOOLEAN, ref : DOMAIN history, statement : BOOLEAN, broken : BOOLEAN,
                      status : {"proposed", "confirmed", "executed", "failed", "dropped", "stale"}])
    /\ confirming \subseteq DOMAIN rows
    /\ current \in 0..Len(jobs)
    /\ \A j \in DOMAIN jobs : jobs[j].status = "claimed" => j = current

Settled == current = 0 /\ \A j \in DOMAIN jobs : jobs[j].status \notin Open

\* compile_worker.py persist_compile_result: digestion lands only after every derived store,
\* so a source that reads as digested, with no compile of it still to run, has its claim in
\* the manifest if the library has it at all, whatever died in between.
DigestedIsPublished ==
    \A s \in digested :
        (/\ Tree.shelf[s] # "absent"
         /\ \A j \in DOMAIN jobs :
              jobs[j].kind = "compile" /\ jobs[j].arg = s => jobs[j].status \notin Open)
            => s \in Anchors(pg)

\* No row has been overtaken: none with a half-written delta, which a sync that comes between
\* may leave for nobody to undo, and no archive that waited and whose page was decided on again,
\* whose marks and delta would come on top of the later ones.
NoneOvertaken ==
    \A j \in DOMAIN jobs :
        /\ jobs[j].cut # "behind"
        /\ jobs[j].tries > 0 /\ jobs[j].kind = "archive" =>
             \A r \in DOMAIN rows : rows[r].page = rows[jobs[j].arg].page => r = jobs[j].arg

\* Nobody committed to the library but its own jobs.
OwnCommits == \A i \in DOMAIN history : history[i].by # "hand"

\* No archive ended failed behind its own commit, refused by the loss guard or stopped by an
\* error no retry rule covers: its row ends for good, and nobody redoes what it left half done.
NoneBroken == \A r \in DOMAIN rows : ~rows[r].broken

\* projection.py sync_projection: the manifest lands last, so a key it lists and the library
\* still has is in both indexes; a delta computed from it never skips a claim an index lost.
ManifestedIsSearchable == OwnCommits /\ NoneBroken /\ NoneOvertaken => pg \cap Keys(Tree) \subseteq lex \cap vec

\* Every groom that committed also came to its end: the row of one that was cut short and
\* found nothing left to roll over names no commit.
GroomsFinished ==
    \A i \in DOMAIN history : history[i].by = "groom" =>
        \/ \E j \in DOMAIN jobs : jobs[j].ref = i
        \/ current # 0 /\ Me.kind = "groom" /\ work.ref = i

StoresAgree == lex = Keys(Tree) /\ vec = Keys(Tree) /\ pg = Keys(Tree)

\* With the lane drained, the manifest and both indexes hold exactly the library's claims:
\* every retry, after a death between any two writes, ends where an undisturbed job would.
\* A groom cut short after its commit is left out: its retry declines and syncs nothing.
RetriedStoresAgree ==
    Settled /\ OwnCommits /\ NoneBroken /\ NoneOvertaken /\ GroomsFinished => StoresAgree

\* projection.py sync_projection: "a failure before the manifest advance can be retried with
\* the same delta safely", so wherever the retried row stood in the queue.
RetriesAreSafe == Settled /\ GroomsFinished /\ OwnCommits => StoresAgree

\* archive_job.py _execute: the documents a proposal's commit moved are the documents its
\* plan read, though compiles and manifest writes may come between plan, confirm and job. (A
\* person's own commit between the look at HEAD and the move is not looked for.)
MovesWhatWasShown ==
    OwnCommits => \A i \in DOMAIN history : history[i].proposal # 0 =>
        history[i - 1].tree = history[rows[history[i].proposal].ref].tree

\* One decision moves documents once, however often its job is restarted; its row is carried
\* out, unless the job itself ended it failed behind that commit, and names the statement its
\* record quotes.
OneMovePerDecision ==
    \A r \in DOMAIN rows :
        LET moved == {i \in DOMAIN history : history[i].proposal = r} IN
            /\ Cardinality(moved) <= 1
            /\ moved # {} => /\ rows[r].status \in {"confirmed", "executed"} \/ rows[r].broken
                             /\ rows[r].action = "archive" => rows[r].statement

\* archive_job.py _record_terminal: when a row says executed and no later plan for its page
\* was confirmed, no store answers with the page's keys on the side it left, and the sources it
\* selected carry its mark.
ExecutedEverywhere ==
    \A r \in DOMAIN rows :
        (/\ rows[r].status = "executed" /\ rows[r].moves
         /\ OwnCommits /\ NoneBroken /\ NoneOvertaken /\ GroomsFinished
         /\ \A n \in DOMAIN rows : n > r /\ rows[n].page = rows[r].page =>
                                       rows[n].status \in {"proposed", "stale", "dropped"})
        => /\ \A k \in lex \cup vec \cup pg :
                /\ rows[r].action = "archive" => ~(k.anchor \in rows[r].sources /\ ~k.archived)
                /\ rows[r].action = "unarchive" => k.anchor \notin Record(rows[r].page)
           /\ IF rows[r].action = "archive" THEN rows[r].sources \subseteq marks
              ELSE rows[r].sources \cap marks = {}

\* A confirmed proposal is carried out or refused: its job survives every restart between its
\* statement, its commit, its marks and its projection. (Again and again no row is confirmed,
\* and the plans of a behaviour are finitely many.)
ConfirmedIsDecided == []<>(\A r \in DOMAIN rows : rows[r].status # "confirmed")
=============================================================================
