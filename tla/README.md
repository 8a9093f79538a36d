# The job queue, the rounds it hands out, the library they write and what is derived from it, in TLA+

A verification project for `pneuma-knowledge-compiler`: a service that turns imported
sources into a git-backed library of documents, one *compile round* at a time, where a round
may be a model loop inside the worker, a coding agent launched by the worker, or a person's
coding agent (a *Steward*) typing `pkc` commands at a terminal.

The program's own core is not the model call but everything around it: who may write the
library now, what survives when the process that was writing it dies, and what comes after
what; then what happens to everything derived from the library after it has moved. No
transaction spans git, Postgres, the two indexes and a process's memory, so each of them is
brought after the others by bodies that may die in between.

Paths below are under `packages/pneuma-knowledge-service/src/pneuma_knowledge_service/`
unless they begin with `core/` (`packages/pneuma-knowledge-core/src/pneuma_knowledge_core/`).

## 1. Inventory

| Part | State it keeps | Operations | Hard behaviour | What makes it correct |
|---|---|---|---|---|
| Job lanes (`job_lanes.py`) | none | kind to lane | an unknown kind | unknown kinds take the strict lane |
| Job queue (`core/ports/job_queue.py`, `adapters/postgres.py`) | `compile_jobs` rows | enqueue, claim_next, claim, attach_executor, park, resume_jobs, release, complete, requeue_claimed_jobs | several clients; claims judged on two tables; lost answers | one job per lane; ended rows stay ended; a compile waits for its sources' judgement |
| Draft store (`core/ports/draft_store.py`, same adapter) | `compile_drafts` rows, launch leases, command lock | lock, launch, put, delete, abandon, takeover | leases lost, owners dead or idle | a draft and its claim have one owner; kept work survives |
| Retry schedule (`job_retry.py`) | attempt count in the payload, `not_before` | park, resume | the end of the schedule | a row pauses exactly at the end |
| Compile worker (`workers/compile_worker.py`) | in-flight marks, unwritten completions, cooling | drain per lane, self-heal, ride_out | crash, outage before or after a write | every queued job ends, nothing is run twice at once |
| Agent round runner, launcher (`coding_agent/`) | one launch | run_job | the harness outlives its worker, exits with nothing, is refused | a launch acts only while it owns its draft |
| Draft, episodes, review, evolve commands (`cli/`) | the draft's state | open, edit, check, finish, abandon | takeover in the middle of a command | a finish commits only for the owner |
| Ingest, source imports (`ingest*.py`, `adapters/source_imports.py`) | sources, ledger | import | deduplication, half-written imports | an import is enqueued once |
| Index job (`process_index_job`, `core/ingest/semantic.py`) | L1/L2 indexes | index, commission a judgement | retries | one judgement per source, ahead of its compile |
| Canonical git store (`adapters/git_canonical.py`) | repository, mutation marker | commit patch, move documents, graft, branch commit | crash between any two git steps, foreign edits | never commits or discards what it did not write |
| Result persistence (`compile_worker.py` 614-768, `projection.py`) | events, the manifest of projected claims, two claim indexes, digestion | persist, sync, rebuild | committed but not projected; retried after another commit | derived stores reach HEAD before sources are digested; a retry ends where an undisturbed job would |
| Compile core (`core/compile/`) | a patch draft | edits, gate, rollover, anchors | data | a draft the gate accepts keeps every anchor |
| Archive (`archive_service.py`, `workers/archive_job.py`) | proposals, marks on sources | plan, confirm, drop, execute | the library moves between plan, confirm and job; a job cut short after its commit | moves what was shown, once, and carries it to every store, or refuses |
| Evolve (`evolve_service.py`) | tasks, branches | propose, adopt, drop, expire | the library moves while a draft is reviewed; verdicts race adoption | nothing written meanwhile is lost or doubled |
| Groom, challenge, review (`*_service.py`) | none | triggers | repeated triggers | not enqueued twice |
| Snapshots (`kb_snapshots.py`) | registry rows, a tenant of each snapshot in every store | create, copy, delete | the base changes while it is copied; restart in the copy; a deletion beside it or cut short | ready only when whole, and nothing in it names what it does not hold |
| Recall (`core/recall/`) | hand-offs | ask | data | citations resolve |
| Live context, call, Steward sessions (`live_context/`, `call/`, `coding_agent/steward_*`) | in-process sessions | turns, timers | callbacks | one turn at a time |
| Reader components (`components/`, `access_stats.py`) | access ledger, term counts, an in-memory mirror | apply, notify, index hook, prepare, rebuild | redelivery, rebuilds beside new events, half-failed warm-ups | sums count each event and source once; a gate judges from the library |
| API, wiring, engine, web, deployment, prompts | none of their own | | | |

**How they interact.** An import writes an `index` and a `compile` row. The worker drains two
lanes, *canonical* (what may write git) and *derived* (what can be rebuilt), one row of each at
a time. The index body commissions an `episodes` row, the judgement of the source, in the
index row's own place; a compile is not handed out while derived rows about its sources are
open. A row a coding agent runs is claimed anonymously by the drain, attached to a fresh launch
identity, opened as a draft, worked on by a separate harness process through `pkc draft`, and
finished by the worker, which alone commits. A Steward at a terminal uses the same commands
against the same tables. Everything meets in Postgres: row locks, advisory claim locks per lane, a command
lock held through a whole `pkc draft` command, and a launch lease the database drops when its
process dies. The self-heal, at start and on a clock, puts back what nobody alive is holding
and marks a dead launch's draft so that the next launch continues it.

A body that commits then brings the derived stores after its commit: the lexical and the
vector claim index side by side and, last, the Postgres manifest that the next delta is
computed from. A commit may enqueue a groom of a page that has grown and an audit of the
source it compiled. The Owner's decisions (archive a page, adopt a reorganization) are made
in the API process against the library as it was shown, and executed by jobs of the canonical
lane against the library as it is by then. The derived lane also keeps two readings: every
business consultation delivers its opening and its answer to the access ledger, and every
index job ends with a hook that counts the source's terms and mirrors them in the worker's
memory, where the gate of a canonical job, running in the same process, reads them.

`PROJECT.json` lists every component with its status, and under `hazards` what is hard to test
in this code, at its line.

## 2. The modules

**`JobLanes`** is the lane table: no state.

**`JobQueue`** is the Postgres adapter's queue and draft store for one library (every statement of it
is keyed by `user_id`). One action is one statement or one transaction. Its `Next` lets **any**
client call **any** operation with any arguments at any time: what holds of its `Spec` depends
on no caller behaving.

| Variable | Code |
|---|---|
| `job[j].status`, `by` | `compile_jobs.status` (`done` exactly when `completed_at` is set) and `claimed_by`; `absent` before the row is written |
| `job[j].wait` | `not_before > now()` |
| `job[j].fails` | the attempts in the payload, up to one past `RETRY_BACKOFF_S` |
| `job[j].place`, `made` | `COALESCE(order_at, created_at)` and `created_at`, as positions |
| `job[j].outcome` | whose `ok, detail, snapshot_ref` the row carries |
| `draft[j]` | the `compile_drafts` row: owner, `kept` (the `continue_from` mark), whether it holds nothing, writes or a repair round, and the age class of `updated_at` |
| `launch[e]` | the lease of a `worker:<backend>:<uuid>` identity |
| `lock` | the command lock, which takes both lanes' locks |

A draft *holds work* when it is in its repair round, or has writes against its base; what an
episodes round proposes is kept in its session instead, so `draft_holds_work` does not see it,
and the model follows the code. `continue_from` is a Boolean here because it always names the
draft's own owner. A command that goes on after the operation leaves the lock held
(`UnderLock`, `AnyLock`); `Rounds` says which ones do.

**`LaneLock`** is the abstract specification: locks, owners, and a lock changes owner only
through being free. `JobQueue` implements it with `held` = the set of (lane, job) such that the
job is claimed or has a draft. A self-heal sweeps both lanes in one transaction, so an abstract step may release several locks.

**`Rounds`** composes those operations the way the code calls them: one worker process draining
both lanes under a coding-agent executor, its harnesses, Stewards and the self-heal. Each step
performs at most one operation of `JobQueue` (checked and proved: `RoundsUseQueue` is `JobQueue!Spec`
itself). `slot[l].at` is where a lane's drain loop stands:

```
idle -> claimed -> leased -> attached -> first -> ended -> finishing -> over -> idle
                                          (refused finish) -> second -> reended -> ...
        running -> ran -> idle                    (no harness: groom, index, ...)
        failed -> parking, refused -> dropping, hopeless -> failing, left     -> idle
        riding, unsettled                         (an outage: ride_out)       -> idle
```

`command` is the multi-step command the lock's holder is inside: `opening` (claimed, not yet
put), `judged` (the store's last word before the commit), `committed` / `noop` / `aborted`, and
`closing` (row ended, draft not yet deleted). `harness` holds the launches whose process runs,
which a crash of the worker does not stop. `unwritten` is `unwritten_completions`; `judged` the
sources with a kept judgement.

What goes wrong, each spending one of `Faults`: the worker is killed anywhere; a database call
fails before its effect, or after it; a claim's answer is lost; a launch's lease is lost; a
harness is refused, times out, leaves nothing or abandons; a gate refuses; material is gone; an
unexpected exception; a terminal closed in the middle of a command.

**`GitCanonical`** is the library itself: one user's git repository, written by the API and the
worker (`Writer`) one call at a time under an flock. `run` is the call that holds it:

```
claiming -> looking -> (reset -> checkout -> unlink -> verify) -> body -> clearing -> none
body:  plain patch     applying (write every page, stage, commit); a failure ends it
       transactional   preflight -> applying (rm, mv, write + add, commit) -> undoing on a failure
       ref only        nothing in the tree
```

| Variable | Code |
|---|---|
| `head`, `index`, `work` | the last commit's tree, what is staged, the files: `Path -> Content` |
| `claim` | `.git/pneuma.inflight`: the claimant's pid and its footprint; `Torn` when it cannot be parsed, `None` when absent or released; pid `None` is a process that is gone |
| `run.prev` | the claim read before the call's own was written, the only one `_begin_mutation` weighs |
| `run.todo`, `run.did` | the git commands and writes still to do; `performed`, `removed` and `written`, the rollback's authority |

A git command or file operation is one step, and any of them may fail; a writer may be killed
before any step, a claim may not land or land torn, a clear may do nothing, an unlink may be
swallowed. A person or an agent with a shell edits and stages any path between any two steps. An
operator settles a dirty tree either way between calls. Pages are opaque; a cut-short write
leaves `Partial`. `claim.over` is history (no step reads it): the claim's body has ended.

**`Publication`** is one library from a commit to its stores: the canonical lane as a sequence of
rows (`JobQueue` has its details), one body at a time, each write to a store its own step.

| Variable | Code |
|---|---|
| `history` | git's commits: the tree, who made it, the proposal in its trailer |
| `pg`, `lex`, `vec` | `canonical_claims` (the manifest) and the keys each index answers with; a key is (path, anchor), so moving a claim changes it |
| `digested`, `marks`, `told` | `sources.digested_at`, `sources.archived_at`, `compile_events` |
| `rows`, `confirming` | `archive_proposals`; the confirms between their look at HEAD and their transaction |
| `at`, `work` | how far the claimed job's body is, and what it has in memory: the ref it projects, its delta, each index's phase, the anchors it retired, the marks left |

A compile goes `run -> events -> sync -> index -> digest -> complete -> rollover -> challenge`
(a round that changed nothing starts at `sync`); a groom `run -> sync -> index -> complete`; an
archive `run -> move -> marks -> sync -> index -> terminal -> complete`, and starts again at
`marks` when it finds its own commit. A source stands for one claim. A death or an outage leaves
the row its place (`Interrupted`); a failed round, or a store away for longer, sends it behind its
wait (`Parked`), where later rows overtake it. An archive treats its errors itself
(`archive_job.py` 878-934): an outage or a dirty tree parks its row (`StoreAway`), a projection
that the loss guard refuses and every other error, at any step up to the manifest, end proposal and row
failed with what had landed left as it is (`SyncRefused`, `ArchiveFails`). `broken` in a proposal and
`cut` in a row are history that no step reads: the proposal failed behind its commit; a sync of the row was
cut between the stores, and since then the row has stood behind others, because it waits or because an
earlier row that waited comes back before it.

**`Evolve`** is the review of a reorganization. A tree is a set of claims, each with its anchor,
its path (a page, its closed volume, its copy under `archive/`) and its text. `Surviving`,
`ToAdd`, `Final` and `Reconciles` are the rules of `reconcile_adopt`, over the three trees it
compares; a round may leave any single move, drop or rewriting of a claim or merge of a page,
what the gate admits. `deciding` holds the drops and expiries that the API process is inside:
read, delete the branch, decide, with the adoption job's steps in between. `Meanwhile` is the other
jobs of the lane (compiles, grooms, archives), one commit and its projection each.

**`Readings`** is the derived lane's bookkeeping: the access ledger (`happened`, `stamped`,
`hits`, `notified`), the people component's term counts (`manifest`, `terms`, `reported`) and
its mirror in the worker's memory (`mirror`), which dies with the worker. A sum is kept per
contribution, so that a double count is visible. `window` is a canonical job of the same process
between `prepare` and its gate. The two lanes are tasks of one event loop and share the mirror with
no lock, so a warm-up is split where it awaits. `_warm_boundary` takes hold of the dictionaries and the
watermark (`StartRead`) and, when the listing is there, writes into what it holds and sets cursor and
ready bit (`Merge`), or its half is dropped (`ReadFails`). `reads` has what each lane holds: the
watermark, how long the library was, and whether the dictionaries are still the mirror's (`own`), which a
drop by the other lane or a rebuild ends. The listing is of some moment between the two steps.
`mirror.outlived` is history that no step reads: a read finished after its mirror was dropped.
`prepare`'s read of the term counts and their assignment are two steps as well (`window.rows`), and a replay
whose counts a prepare has dropped (`kept`) fails. **`Tally`** is what the ledger promises: an event enters the sums
in one step, once. `Readings` implements it.

**`Snapshots`** is the copy of one library into tenants of their own, a call at a time, beside the
base's imports, index jobs, commits and projections. A point or a row is a pair of a source and the
document that its one claim is filed in (`L0`: the source's chunk).

| Variable | Code |
|---|---|
| `sources`, `history`, `pg`, `points` | the base: `sources` with `blocks`, git's trees, `canonical_claims`, Qdrant's chunks and claims |
| `projecting` | `sync_projection` (vectors deleted, upserted, then the manifest) or `rebuild_projection` (the manifest, then the claim layer dropped and put back) between its writes |
| `registry[n]` | the `kb_snapshots` row: status and pinned commit |
| `tenant[n]` | what Qdrant, Postgres (`rows`, `claims`, manifests retargeted: `own`), S3 (`media`) and Meilisearch (`blocks`, `lexical`) hold under the snapshot's tenant |
| `copier[n]` | `run_copy`: its place, the counts in its memory, the sources its transaction has read |
| `deleter[n]` | the next call of `delete` |
| `past[n]` | history that no step reads: a source was imported between the statements of the rows' transaction; the first store was purged, and whether a copy was running then |

A scroll of the vectors takes two reads, and the rows' transaction three: it runs at READ COMMITTED,
so its statements see different moments, and blocks of a source it did not see fail it on their
foreign key. Any call may fail, before or after its effect where that makes a difference, and
the process may die with its copies and requests.

**`MCJobQueue`, `MCRounds`, `MCGitCanonical`, `MCPublication`, `MCEvolve`, `MCReadings`, `MCSnapshots`**
give the constants their values. **`JobQueueProofs`**, **`RoundsProofs`** (which extends it), **`GitCanonicalProofs`**, **`ReadingsProofs`**,
**`PublicationProofs`**, **`PublishedProofs`** (which extends it), **`EvolveProofs`** and
**`SnapshotsProofs`** hold the proofs.

## 3. The runs

`queue`, `unattended`, `attended` and `library` check for deadlock; the others end when their budgets
are spent and every row is done, so there a stop is no error. The type invariants of `Publication`,
`Evolve` and `Snapshots` are proved (section 4) and not run again.

| Run | Instance and bounds | What it shows |
|---|---|---|
| `queue` | two symmetric compile rows, one launch, one Steward, one retry each, of one row at a time; a row waits out its schedule only before the other is written; any operation any time | `TypeOK`, `LaneReserved`, `ClaimFollowsDraft`, `LanesHandOver`, `NeverRevived` |
| `unattended` | one source: index, episodes, compile; 2 faults, 4 launches, one retry | `CompileSeesJudgement`, `KeptIsNobodys`, `RoundsUseQueue`, `RoundsTypeOK` |
| `attended` | a compile and a groom beside a Steward: 3 commands, 2 faults, 6 launches, two retries; with fairness | `WriterFenced`, `KeptWorkSurvives`, `JobsDone` |
| `library` | a page, its place in the archive, two contents, two symmetric writers, five calls: a patch, a patch with a removal, an archive, its undoing, a ref; unbounded calls, failures, deaths and edits | `TypeOK`, `DirtIsDeclared`, `KeepsToItsPaths`, `NoStrangersCommitted`, `CommitIsWhole` |
| `publication` | three sources on two pages, one page oversized at two claims, one archived at the start; seven budgets | the seven properties below |
| `evolve` | three claims (one still to come) on two pages; four budgets: two rounds, two commits in the window, a verdict, a death | the six properties below |
| `readings` | a business consultation and an audit, two sources; four budgets: a rebuild, a death, two failing statements, two canonical jobs | the seven properties below |
| `snapshots` | two sources, one of them with images and still to be imported, two documents, one snapshot; five budgets of imports, commits, rebuilds and faults | `NothingDangles`, `NotHalfCopied`, `NothingStranded` |
| four violation runs | see section 5 | what a comment or a document says and the code does not keep |

- `LaneReserved`: at most one job reserves a lane, by a claim or a draft.
- `ClaimFollowsDraft`: an open, unmarked draft's owner is its row's claimer. `require_owner`
  compares the draft's owner only, so every edit relies on it.
- `NeverRevived`: done stays done; a paused row is never claimed without a resume or a park between.
- `WriterFenced`: a finish that has passed its last ownership check, or a groom body, holds the
  only reservation of the canonical lane until it commits.
- `CompileSeesJudgement`: a compile that the drain runs has its sources indexed, and judged or
  their judgement ended.
- `KeptIsNobodys`, `KeptWorkSurvives`: a draft marked for continuation is a dead launch's, holds
  work, and is continued as it stands; it goes only by a command, with an ended row, or when
  its own harness outlived it.
- `JobsDone`: every queued job is finished. Two retries and two faults keep the schedule from
  pausing a row for good.
- `DirtIsDeclared`: whatever a body or its rollback has changed short of a commit is on the claim
  on disk, so a death at any step leaves residue that can be recognised.
- `KeepsToItsPaths`: no step of a call, recoveries and rollbacks included, changes a path that
  neither it nor a process proved dead had declared.
- `NoStrangersCommitted`, `CommitIsWhole`: `git commit` takes the whole index, and still commits
  the call's own paths (and what a person staged meanwhile), all of the call or nothing.
- `DigestedIsPublished`: a source that reads as digested, with no compile of it still open, has
  its claim in the manifest if the library has it. `ManifestedIsSearchable`: a key the manifest
  lists and the library still has is in both indexes, at every step.
- `RetriedStoresAgree`: with the lane drained, the manifest and both indexes hold exactly the
  library's claims, whatever died where. Stated for histories in which each groom came to its
  end and nobody committed by hand (a groom that dies between its commit and its sync is run again on
  a page that can no longer be rolled over, and completes without one).
- `ManifestedIsSearchable`, `RetriedStoresAgree` and `ExecutedEverywhere` leave three histories out,
  in each of which a claim ends in one store and not in another:
  `NoneOvertaken`: no job whose sync was cut between the stores stood behind another afterwards (behind
  its own wait, or behind an earlier row that came back from one), and
  no archive that was put behind had its page decided on again (`overtaken` checks `RetriesAreSafe`,
  which is `RetriedStoresAgree` without that premise and the last, and it fails);
  `OwnCommits`: nobody committed by hand (a noop compile that projects a deletion made by hand, is cut
  behind its delete in one index and is run again as the compile that files the claim anew finds the
  key in the manifest: its delta skips a claim that this index has lost);
  `NoneBroken`: no archive ended failed behind its commit, by the loss guard or by an error that is no
  outage (its commit stays, its row is over, and what it wrote to one index and not to the manifest is
  redone by nobody: a later unarchive of the page finds the keys still in the manifest and skips
  them, though the index has lost them; its own row then says executed).
- `MovesWhatWasShown`, `OneMovePerDecision`, `ExecutedEverywhere`, `ConfirmedIsDecided`: the
  documents an archive's commit moves are those its plan read, as long as nobody commits by hand
  (the job does not look for a commit between its look at HEAD and its move); one decision moves them once, and
  unless the job fails behind that commit its row is carried out; a row that says executed,
  with no later decision on its page, has left no key on the side the page left, and its marks; a
  confirmed row is executed or failed in the end.
- `FreshWorkKept`: what compiles added or changed on main in the review window is on main after
  the adoption, in main's words. `CompiledAnchorsStayUnique`: and each anchor in one place, if
  main had each in one place and every claim of it that the draft also has stands where the base or
  the draft has it (`InPlace`; `doubled`: not otherwise, because a groom, an archive or another
  adoption moved it), and if an agent's draft was still there when its manifest was read: a draft
  whose branch went between the merge and that reading is committed without the removals of the
  pages it merged away. Two exceptions are in the statement of
  `FreshWorkKept`: an anchor that an earlier adoption has doubled has no one text to keep; and when
  two drafts were pending at once, the first moved a claim off a page and main then archived that
  page and edited the claim, the second draft's older words win, because what main has retired is
  taken off the base (`evolve_service.py` 510-523) and a claim the base does not have counts as the
  draft's own. TLC shows the second one in the MC instance with a budget of two rounds, two commits
  and two adoptions on claims that all start on one page.
- `AdoptedSkillsStay`: a manifest on main is closed: with a pack stand all packs its draft was
  composed on. (It is not that packs stay for good: the branch's manifest is laid over main's, so of
  two drafts from one base the later adoption takes the earlier one's pack away.)
  `SkillFlipsWithData`: a pack comes to main in the commit of its data, if its branch still exists.
- `AdoptionsAreProjected`: PostgreSQL is rebuilt first and later deltas start from it, so the
  adoption's own job must reach its end. `RoundsEnd`: every round and adoption asked for ends.
- `TypeOK`, `RecordsAreTallied`, `NotifiedOnce`, `TermsCountedOnce`: once each, through
  redeliveries, deaths between any two writes and rebuilds. `RebuildHeals`: a rebuild that ends has
  counted every source it listed, also those whose hook had failed. `ReadingsCatchUp`: every business
  event and every source is counted in the end, unless its hook failed.
- `WindowSeesLibrary`: a gate that finds the boundary ready judges from every source its prepare
  could list, whatever the other lane reads, merges and fails beside it, if material arrives in the
  order of its dates (`skipped`: not otherwise), no rebuild empties the mirror under it, and no read has
  outlived its mirror. That third exception is a race the code has: a warm-up waits for its listing, a
  failing warm-up of the other lane drops the mirror, and the first one resumes, fills dictionaries
  nobody holds, and sets cursor and ready bit. Every gate from then on is ready over an all but empty
  mirror, until a read fails again, a rebuild runs or the worker restarts.
- `NothingDangles`: what the order of `run_copy`'s steps is for. In a snapshot that answers, points
  have their sources, lexical faces show the rows, images are the tenant's own and the pinned tree is
  no older than any row. `NotHalfCopied`: the completeness count cannot tell an exchange (a claim moved
  between the copies of the points and of the rows), but never lets a proper part pass as the
  whole. `NothingStranded`: a deletion that is refused, repeated or cut short leaves nothing behind
  once the row is gone, unless it began beside a running copy.
- Each property has a mutant in `PROJECT.json`: a plausible bug that breaks it.

**Why the bounds are enough.** Reservations and ownership relate at most two rows and two
executors, so two rows per lane show every conflict; three rows show the only three-way order
the code enforces (index, judgement, compile). Two faults reach every *fault during the
recovery of a fault*; the launches are numerous enough that none of these runs is ever short of
an identity (otherwise `JobsDone` would fail). A retry schedule of one or two steps has the
same first, last and past-the-end cases as the real six. In `library` two paths are enough for
a rename with both its ends, a footprint that leaves something out, and an edit inside or outside
it; one claim stands at a time, so a dead writer and the next one are all there is. Nothing in
that run is counted, so no bound cuts a behaviour off. `Budgets` of the last four modules
are sets of scenarios: the initial state picks one, and each bounds how many deaths, failures,
hand commits, plans, verdicts or rebuilds a behaviour sees, so that the interesting pairs (a death
and a parallel decision, a rebuild and a canonical job, two rounds and two adoptions) meet without
their product. A stage of a body is cut short at every place by one death, and the retry by a
second. Two pages give a claim a place to go and another to stay; one claim past the threshold
makes a page oversized. Two decisions are made on one page (archived and unarchived again, or
planned twice from one HEAD) or on two. In `readings` a page of one event makes every
replay go through its cursor. In `snapshots` one move of a claim, one import and one rebuild, each
at any place of the copy, and the pairs of them with a fault, are every way in which two of its
reads can disagree.

**Fairness** (`Fairness` in `Rounds`), on what the code or its deployment keeps doing: the
worker is restarted when it dies (`engine_process.py`, a Deployment of one replica), the
self-heal runs on its clock, a lane's loop takes its next step, waits and draft ages pass, an
import goes on to its second row, a harness exits or is ended by its timeout, and a command once typed runs to its end. No
fairness on anything a person or an agent decides (typing, writing, resuming), nor on any fault.
In `Publication`, `Evolve` and `Readings` the lane hands out its next row, its body takes its next
step and a wait ends (the drain loops and the clock); callers, owners, deaths and failures owe
nothing. `GitCanonical` states no liveness: a refusal waits for a person, by design.

## 4. The proofs

`JobQueueProofs` proves with TLAPS, for every set of rows, launches and Stewards, every kind of row and
every length of the schedule, of `JobQueue!Spec`:

| Theorem | Property |
|---|---|
| `TypeCorrect` | `TypeOK` |
| `LanesStayReserved` | `LaneReserved` |
| `ClaimsFollowDrafts` | `ClaimFollowsDraft` |
| `QueueHandsLanesOver` | `LanesHandOver` (the refinement of `LaneLock`) |
| `EndedRowsStay` | `NeverRevived` |

*Assumptions*: the set of rows is finite, each row has a kind and a set of sources, names are
distinct, no draft is the value that stands for none, a drain may skip no kind, the schedule's
length is a natural number. The runs evaluate all of them.

*Argument.* `TypeOK` is inductive, one lemma per operation. For the rest, each step is one of
three kinds (lemma `StepKinds`): it lets go of reservations and gains none (`LetsGo`), it takes
one row whose lane was free of every other (`Takes`), or it writes one draft under a claim that
its writer already has (`Writes`). So a step that gains a reservation gains one, on a lane
nobody else holds (`StepGainsFree`), and that one fact gives both `LaneReserved` and
the refinement of `LaneLock`. `TypeOK /\ LaneReserved` and `TypeOK /\ ClaimFollowsDraft` are
inductive: `ClaimFollowsDraft` needs the exemption of marked drafts in its statement, because the self-heal leaves a
draft on a row it has just put back, and needs `NoForeignDraft` in each claim (a row with an
unmarked draft is never claimed). `NeverRevived` needs only the type: each operation's guard or
its `UPDATE ... WHERE` excludes ended rows, and a completion of an ended row ends it again.

`RoundsProofs` proves, for every set of rows, launches and Stewards, every sequence of imported rows and
every budget, of `Rounds!RoundsSpec`:

| Theorem | Property |
|---|---|
| `RoundsTypes` | `RoundsTypeOK` |
| `RoundsCallTheQueue` | `RoundsUseQueue` (the composition implements `JobQueue!Spec`) |
| `QueuePromisesHold` | `LaneReserved`, `ClaimFollowsDraft`, `LanesHandOver`, `NeverRevived` of the composition |
| `OneWriter` | `WriterFenced` |
| `KeptDraftsAreNobodys` | `KeptIsNobodys` |
| `KeptWorkIsContinued` | `KeptWorkSurvives` |
| `JudgedBeforeCompiled` | `CompileSeesJudgement` |

*Assumptions*: the queue's, and those of `Rounds`: imports are a sequence of rows, an index row names a
source and is imported ahead of a compile of that source (`ImportOrderAssumption`: `ingest.py:150`,
`ingest_document.py:287` and `ingest_sources.py:126` enqueue in this order; a `pkc jobs requeue` of an index
row and a `POST /compile` that falls between an import's two writes do not, and are not modelled), budgets
are natural numbers, no row is of the two kinds that `Rounds` leaves out.

*Argument.* `RoundsInv` says what each phase of a lane implies. `Shapes`: whose row the lane is on and
whether a launch has begun for it. `Leases`: a launch is minted before it is used and serves one lane.
`Commanding`: a lane in `finishing`, `parking` or `failing` is the one whose launch holds the lock, a
launch that holds the lock is in such a lane, a harness runs only while its lane waits for it, and a
command at `judged` has its row's draft. These give the queue's operations the arguments its
specification asks for, which is all of `RoundsUseQueue`: a completion names a row that agents run or the
lane's own, a lock is free or the caller's. From there `TypeOK` and `LaneReserved` come from the queue's
own lemmas. `WriterFenced` then needs only that a writer's row is reserved: by the judged draft, or by the
claim of a row the drain runs itself (`RunningRows`). That claim lasts because only a lane's own writes, the late
completions of a riding lane (`Unwritten`) and a self-heal that skips rows in flight could end it, and
agents' commands reach agents' rows alone (`Drafts`, `Claims`). `KeptIsNobodys` needs that a launch which
ended stays ended and that a row put back names nobody (`Free`). For `KeptWorkSurvives` every step has one of four
effects on a draft (`Fate`): nothing, a mark, a write by someone entitled to it, an end. `Owned` and
`KeptApart` exclude the dangerous ends: a launch's draft is of its lane's row, so the self-heal, which
skips that row, never marks a draft whose launch is still on a lane, and no lane's clean-up can delete one.
`CompileSeesJudgement` follows a row in the same way (`Turns`): a step leaves it, writes it, takes it up, frees it
or finishes it. An index row is finished only from the end of its body, or by a completion that an outage put
off, and that end was reached with the judgement commissioned (`Commissions`), which nothing takes back. So when a
drain takes up a compile, with no derived row of its sources open, those rows have ended, the index rows and
the judgements they commissioned alike; and no index row comes in behind it, since compiles come from imports alone
(`Imported`).

`GitCanonicalProofs` proves, for every set of paths, pages, writers and calls, of
`GitCanonical!Spec`:

| Theorem | Property |
|---|---|
| `TypeCorrect` | `TypeOK` |
| `ResidueIsDeclared` | `DirtIsDeclared` |
| `CallsKeepToTheirPaths` | `KeepsToItsPaths` |
| `CommitsAreTheCallsOwn` | `NoStrangersCommitted` |
| `CommitsAreWhole` | `CommitIsWhole` |

*Assumptions*: each call's paths are paths and its pages pages, the moves of a call have distinct
ends and none leads to where another starts, a plain patch moves nothing, a ref call names no
path; marker values are distinct.

*Argument.* The inductive invariant `IInv` adds to the type: the plan, done and to do, lies in the
footprint (`PlanDeclared`); from its writing on, the claim on disk is the call's (`ClaimHeld`); a
recovery has a dead claimant (`RecoveryLicensed`); outside the dead claimant's footprint during a
recovery, and outside the call's own during a body, index and files are as committed or a
person's (`TreeDeclared`). The last is what carries the look at the tree through the body:
without it a commit could take a dead writer's renames out of the index. One lemma per
operation; `KeepsToItsPaths` and `NoStrangersCommitted` then need only which paths each step touches.
`CommitIsWhole` needs how far the plan has come (`Carried`): a page is still to be written, or it
stands in the tree and is to be staged, or it is staged; a move is still to be made and what is staged at its source
is HEAD's, or it stands at its target; a path the call leaves without a page is to be removed or
renamed, or empty. Each with the exception of a person's page. The order of the operations
(`DueOrder`) is what keeps one from undoing another: a page may be written where a move took one
away, and never the other way round. When nothing is left to do the index is the result.

`ReadingsProofs` proves, for every set of consultations and sources, every order of the material,
every page size and every budget, of `Readings!Spec`:

| Theorem | Property |
|---|---|
| `EventsAreCountedOnce` | `EventsCountedOnce` |
| `LedgerIsTallied` | `RecordsAreTallied` (the refinement of `Tally`) |
| `ComponentsHearOnce` | `NotifiedOnce` |
| `TermsAreCountedOnce` | `TermsCountedOnce` |
| `ReadingsTypes` | `TypeOK` |
| `RebuildsHeal` | `RebuildHeals` |
| `WindowsSeeLibrary` | `WindowSeesLibrary` |

*Assumptions*: consultations and sources are finite sets and sources have distinct positive dates;
the bar and the page are positive.

*Argument.* `LedgerInv` adds to the types: what a delivery and a row in flight may name
(`Delivers`, `RowsAreKept`), that a telling in flight has not been told (`Tells`), and that a replay's partial sums hold one of
each event it has passed and has passed only stamped ones (`Replays`). Nothing but a delivery stamps an event and
the lane runs one body at a time, so the stamps stand still while a replay runs; its sums at the end
are the ledger's, and the swap is a stutter of `Tally`. `TermsCountedOnce` is inductive over its
type: manifest and counts change together or not at all. `PeopleTypes` says that what the lane and its
window name is in the library, which only grows, and that the watermark, the mirror's and each read's, is the date of one of its sources
(a finite set of dates has a least and a greatest, `FiniteLeast`, `FiniteGreatest`). `Healing` follows
a rebuild: what its replay has behind it is in the manifest, and nothing but its own row could take
it out. For the gate, `BoundaryInv` says, while material comes in in order and no read has outlived its mirror:
what lies behind the watermark is mirrored (`MirrorKnows`); a read under way that still owns the
dictionaries holds a watermark no later than the mirror's, behind which everything is mirrored
(`ReadsKnow`); what a prepare has listed is no more than the library was when its read began
(`PrepareListed`); and a ready mirror has it, once the prepare has merged (`WindowKnows`). A drop takes the
other lane's read off the mirror (`FailsDrop`), so the only merge that could set the cursor over names it does
not have is the one `outlived` records; any other names whatever its cursor passes (`MergeNames`). The order
is needed at an import only, where it puts the new source beyond every watermark (`SamePrefix`).

`PublicationProofs` and `PublishedProofs` prove, for every set of pages and sources, every threshold and
schedule and every budget, of `Publication!Spec`:

| Theorem | Property |
|---|---|
| `TypesHold` | `TypeOK` |
| `MovesAreAsShown` | `MovesWhatWasShown` |
| `DecisionsMoveOnce` | `OneMovePerDecision` |
| `DigestedMeansPublished` | `DigestedIsPublished` |
| `ManifestedAreSearchable` | `ManifestedIsSearchable` |
| `RetriesAgree` | `RetriedStoresAgree` |
| `ExecutedIsEverywhere` | `ExecutedEverywhere` |

*Assumptions*: `PublicationAssumption` (what is held or retired is a source or a page, each source
has its page, the record's blocks and budgets are finite numbers, no claim has the anchor of a
record's block), which the runs evaluate.

*Argument.* One body runs at a time, so between an archive's look at HEAD and its move only commits
that are no job's can land (a manifest, or a person's). `Moving` keeps of the body that is about to
move that its row is confirmed, that no commit carries its trailer (`Unmoved`) and that main is the
tree its plan read unless somebody committed by hand; the commit it then makes is `Backed`: alone
with its trailer, above its plan, made on the tree that the plan read. Those are the two properties;
a job that starts again finds its own trailer and does not reach the move. For `DigestedIsPublished` the body holds the commit it projects in memory and never looks at
HEAD again; that commit still *shows* every claim the library has, because only bodies file claims
and what lands behind it repeats the tree or takes pages away (`Shows`). Its delta is the
difference between that commit and the manifest at every step of the two indexes (`Delta`), so the
manifest's write ends with every such claim in it (`Listed`).

For `ManifestedIsSearchable`: an index loses only keys that the library had no more, so the danger is
a commit that brings one back while the manifest still lists it. Compiles and grooms bring none back
(`Grown`); a move would, if the manifest were still on the side it goes to, and `Sides` says that it is
so only while another decision of the page has moved it and is not through. Such a decision has one
row in the queue, which is still to run (`Awaited`), and the rows that were taken up are finished in their order
(`InOrder`) unless one was put behind its wait; so the body that now moves the page is not there. `Serves` adds, per index
and phase, that the index has what manifest and library share, and all of the library once it is written.

`RetriedStoresAgree` needs the other direction and the end. `Behindhand`: as long as the manifest is not the
library's, somebody is still to bring it there: an open compile, the groom at work, or a decision underway.
The premise `GroomsFinished` enters here: `Signed` pairs each groom's commit with the row that names it or
with the body that holds it, so under the premise a groom that has committed leaves the lane only by its
end (`GroomStays`). `Clean`: an index has more than the manifest only while a body writes the indexes or a row
that was cut short there, and will project again, is still open (`Owes`); a groom or a move never commits over
such a row (`NoneOwes`), since whatever was taken up before it is finished before it. With the lane drained
nobody is left to owe. `ExecutedEverywhere` is `Sides` and `Clean` read at the row's page: the last
decision that moved a page says on which side it is (`Sided`), no earlier one is still underway
(`OneUnderway`, because plans are pinned in the order of their rows and a body at its move knows that
nothing has moved since its plan), and its marks are undone only by a later one (`MarksKept`).

`EvolveProofs` proves, for every set of claims, pages and callers and every budget, of
`Evolve!Spec`:

| Theorem | Property |
|---|---|
| `EvolveTypes` | `TypeOK` |
| `FreshWorkSurvives` | `FreshWorkKept` |
| `PacksStandTogether` | `AdoptedSkillsStay` |
| `AnchorsStayUnique` | `CompiledAnchorsStayUnique` |
| `SkillGoesWithData` | `SkillFlipsWithData` |
| `AdoptedIsProjected` | `AdoptionsAreProjected` |

*Assumptions*: claims begin on pages, claims and pages are distinct, budgets are natural numbers
(`EvolveAssumption`).

*Argument.* Verdicts of the API process fall between any two steps of an adoption and nothing stops
them. What carries the proof is what they cannot do: they never say "adopted", and they write neither
main nor a store. So while a body stands between its commit and its verdict its task is not adopted
(`Rebuilding`), and at every step either some adoption is not called so or the three stores are main
(`InStep`). Packs: a manifest in a commit, a task or a hand is closed (`PacksKept`), because a draft's
is its base's and one more. Fresh work: a draft has only anchors of its base, and a block of the base
that was not open to it as it was (`Redrawn`); and the merge in a body's hand is the merge of main as
it still is (`DraftsKept`). With that, `MergeKeeps` goes through the rules of `reconcile_adopt`: a
claim that is not on the branch comes by rule B or C; one that is on the branch has an origin in the
base, which the two filters leave in, so that rule A sees the change. Anchors: an adopted tree is the
merge, in which the merge's own check found each anchor once, and the blocks of main on pages that
were neither merged nor removed; so `MergeApart` must show that such a block is not in the merge
under another path. If the draft moved it, it stands where its base has it, and there the page is
either one of the draft's, hence merged, or one an agent's draft merged away, hence removed. That
the page is not one main has retired, which both filters skip, is where `SortedKept` comes in:
records stand on the retired paths and on no other, in every commit and every draft.

`SnapshotsProofs` proves, for every set of sources, documents and snapshots, every first batch of a
scroll and every budget, of `Snapshots!Spec`:

| Theorem | Property |
|---|---|
| `SnapshotTypes` | `TypeOK` |
| `NoReferenceDangles` | `NothingDangles` |
| `ReadyIsWhole` | `NotHalfCopied` |
| `DeletionStrandsNothing` | `NothingStranded` |

*Assumptions*: `SnapshotsAssumption`: sources and documents are finite, `L0` and the absent place are
no documents, what is held is a set of sources, budgets are natural numbers.

*Argument.* Sources and history only grow, and every claim in the manifest, in a point or in a delta
under way is of a source that was imported and of a tree that was committed (`BaseInv`). So what a
phase of the copy has taken is covered by what every later phase takes: `CopyInv` says so phase by phase,
from the points that the tenant has against the sources that the transaction will read, to the rows
against the pinned commit. The counts in the copy's memory equal the sizes of what the tenant holds
until a purge begins, so equal numbers and inclusion make equal sets: `ReadyIsWhole`. `DeleteInv` says which
stores a deletion has emptied at each of its steps, and that nothing fills them again once no copy
is running; a snapshot's copy is started once.

Every safety property that a run checks is thus a theorem.

*Only model-checked*: the liveness properties (`JobsDone`, `ConfirmedIsDecided`, `RoundsEnd`,
`ReadingsCatchUp`), because liveness under fairness is out of the prover's reach.

## 5. Where the code and its documents part

| Run | What the run shows |
|---|---|
| `outlived_claim` | a claim whose clear could not land covers the pages its call wrote: once its process is gone, a later hand edit of such a page is taken for crash residue and put back to HEAD; the docstrings say a later edit is outside the footprint by definition |
| `overtaken` | a sync cut short in an index, waiting on its schedule while a later commit syncs, retries with another delta and leaves a stale key in that index (or an archive resumes over a later decision on its page); the docstring says it can be retried with the same delta safely |
| `doubled` | a groom or an archive in the review window moves claims to a document the branch does not have; the adoption commits them twice, past the backstop that the comment says refuses it |
| `skipped` | a source dated before the mirror's watermark, imported after it, is never mirrored: the gate of its own compile judges without it, and its boundary reads as ready |

Quotes and lines are in `PROJECT.json`. Ten more, found the same way, have no run of their own (most are
hazards there): a park that pauses its row and dies before it drops the draft,
which closes the lane until a person acts, a judgement commissioned twice while the first is paused, a kept
judgement that refuses every launch which should continue it, a late completion that replaces
a finished row's outcome (the port says it never does), a dead launch's harness that comes
back and abandons the draft kept for the next one, and a claim edited on main in the review window
whose edit an adoption undoes, where an earlier adoption had moved it off a page since archived
(`reconcile_adopt`'s docstring says main's text wins); the cursor that outlives its mirror when a drop falls
into the other lane's read (`_forget_boundary`'s docstring says the cursor goes with the mirror, which leaves the
half two honest states only); and of snapshots, a claim row without its source
after an import in the middle of the rows' transaction (`run_copy` says every copied claim's cited
sources are present), a claim that is at one place in the points and at another in the rows
(the completeness check says the claim points are exactly the claim rows), and the data that a copy
writes on for a tenant whose deletion has passed (`delete` says stores first, so that none is stranded).

## 6. What is left out, and why

- A second worker process: the shipped topology is one. Its effect (a start-up self-heal that
  takes another process's in-process claims for orphans) is listed as a hazard.
- The command lock lives as long as its command. A connection lost between the last check and the
  git commit is listed as a hazard; it needs `Rounds` and `GitCanonical` joined.
- `finish_requested`, a review round's owed account, briefs, usage counts and
  cooling (a constant set of kinds): they choose between endings the model already takes freely.
- Splitting a source into windows, `cli/evolve.py`'s finish, sources deleted
  between an import and its index, drafts written before ownership existed.
- A resume of many rows is one row at a time; a row's payload is the set of sources it names.
- Of the git store: `init_repository`, the restore of a snapshot, branches' and tags' contents, the
  pruning of empty directories, the parsing of paths and statuses, git children that outlive their
  killed parent, a person who commits or deletes during a call, and reused pids (a death that
  cannot be proved is a refusal, which `LookRefuse` always allows).
- Of an archive that ends failed behind its commit: the model has it and what it leaves, and the three properties
  about agreeing stores are stated for histories without one (`NoneBroken`), because nothing redoes it.
- Of publication: the events lost when a compile dies between its commit and their recording,
  index writes that outlive a failed sync, more than one claim per source, projection strategies.
- Of the archive: what a plan classifies as related, the wording of a record, the indexes' own
  archived flag on source blocks (fail-soft). Of evolve: several tasks' expiry dates (a task may
  expire at any time), provenance checks and component gates (an adoption may always be refused).
- Of the readings: identity merges, the subtraction an archive makes, terms beyond one, the
  time and attention components (no rows). The model has the races of the two lanes over the mirror; no property
  covers what the mirror's term counts say after a prepare's snapshot was assigned over an index job's
  addition, nor a gate behind a read that has outlived its mirror (both are hazards).
- Of snapshots: labels, the routing of reads and the refusal of writes. A failed copy is not run
  again: its snapshot is deleted.
- The components with status `not_modelled`; the recall pipelines, prompts, the web
  application, evaluation and examples are data, text or model calls.

## 7. Plan

Done: the queue, its rounds, the git store, publication with the archive, evolve, the readings and snapshots,
with the safety theorems of section 4.
Left, in order:

1. **The import ledger**: deduplication under concurrent imports.
2. **`Rounds` with `GitCanonical`**: a command whose database connection, and so its lock, is lost
   between its last check and its git commit.
3. **Compile core**: rollover and anchors as pure operators against reference definitions; the
   agent budgets with their cooling clocks; sessions.
4. **Git store**: `_restore_repository`, `init_repository`.
