------------------------------ MODULE JobQueue ------------------------------
(***************************************************************************)
(* The Postgres job queue and draft store of ONE library (every statement  *)
(* of both is keyed by user_id, so libraries do not interact), one action  *)
(* per statement or transaction of adapters/postgres.py.                   *)
(*                                                                         *)
(* Spec lets any client call any operation at any time with any arguments: *)
(* what holds here holds however workers, commands and self-heals are      *)
(* written.  Rounds.tla composes the operations the way the code does.     *)
(***************************************************************************)
EXTENDS JobLanes, Naturals, FiniteSets

CONSTANTS
    Job,          \* the ids rows are written under
    Source,       \* L0 sources a payload may name
    KindOf,       \* kind of each row
    About,        \* the sources a row's payload names (source_id / source_ids)
    Launch,       \* `worker:<backend>:<uuid>` identities, one per harness launch
    Steward,      \* interactive executors: a coding agent at a terminal
    Worker,       \* the anonymous claimed_by = 'worker' of the drain's own claim
    None,
    Skips,        \* the exclude_kinds a drain may pass: none, or what it may not run now
    MaxAttempts   \* len(RETRY_BACKOFF_S)

Executor == Launch \cup Steward
Claimer  == Executor \cup {Worker}

ASSUME RowsAssumption == IsFiniteSet(Job)
ASSUME KindsAssumption == KindOf \in [Job -> Kinds] /\ About \in [Job -> SUBSET Source]
ASSUME NamesAssumption ==
    /\ None \notin Claimer
    /\ Worker \notin Executor
    /\ Launch \cap Steward = {}
ASSUME BoundsAssumption == MaxAttempts \in Nat /\ Skips \subseteq SUBSET Kinds /\ {} \in Skips

VARIABLES
    job,     \* compile_jobs
    draft,   \* compile_drafts
    launch,  \* the launch leases: an advisory lock on a dedicated connection
    lock     \* who holds the command lock (draft_command takes both lanes' locks)

queueVars == <<job, draft, launch, lock>>

Statuses == {"absent", "queued", "claimed", "paused", "done"}

(* place is COALESCE(order_at, created_at) and made is created_at, as       *)
(* positions; order_at is set exactly when they differ.  wait stands for    *)
(* not_before > now().  A row is done exactly when completed_at is set, and *)
(* outcome is whose ok, detail and snapshot_ref it then carries.            *)
Row ==
    [status : Statuses, by : Claimer \cup {None}, wait : BOOLEAN,
     fails : 0 .. MaxAttempts + 1, place : Nat, made : Nat,
     outcome : Claimer \cup {None}]

(* kept is the continue_from mark (it always names the owner it marks);     *)
(* body is what the state holds: nothing yet, writes or a proposal, or a    *)
(* repair round; age classes updated_at by the two timers: idle is past the *)
(* takeover grace, stale past COMPILE_DRAFT_TTL.                            *)
Bodies == {"blank", "written", "repair"}
Draft ==
    [owner : Executor, kept : BOOLEAN, body : Bodies, age : {"fresh", "idle", "stale"}]

ASSUME NoDraftAssumption == None \notin Draft

TypeOK ==
    /\ job \in [Job -> Row]
    /\ draft \in [Job -> Draft \cup {None}]
    /\ launch \in [Launch -> {"unborn", "live", "gone"}]
    /\ lock \in Executor \cup {None}

Init ==
    /\ job = [j \in Job |-> [status |-> "absent", by |-> None, wait |-> FALSE, fails |-> 0,
                             place |-> 0, made |-> 0, outcome |-> None]]
    /\ draft = [j \in Job |-> None]
    /\ launch = [e \in Launch |-> "unborn"]
    /\ lock = None

-----------------------------------------------------------------------------
Lane(j) == LaneOf(KindOf[j])
Is(j, status) == job[j].status = status
Open(j) == job[j].status \in {"queued", "claimed", "paused"}

\* worker_alive: only a `worker:` executor holds a lease at all.
Alive(x) == x \in Launch /\ launch[x] = "live"

\* The command lock is held from a draft command's first read to its last write, commit
\* included.  UnderLock: an operation that takes it, leaving it held when the command goes
\* on.  AnyLock: one that does not look, and may open or close a command all the same.
UnderLock(x) == lock \in {None, x} /\ lock' \in {None, x}
AnyLock == lock' \in Executor \cup {None} /\ (lock # None => lock' \in {None, lock})

\* draft_holds_work: a repair round, or writes against the base.  What an episodes round
\* has proposed is in its session, not among those writes.
HoldsWork(j) ==
    \/ draft[j].body = "repair"
    \/ draft[j].body = "written" /\ KindOf[j] # "episodes"

\* claim_next's ORDER BY.
Precedes(j, k) ==
    LET first(i) == KindOf[i] \in ClaimFirstKinds
        own(i)   == job[i].place = job[i].made
    IN  \/ first(j) /\ ~first(k)
        \/ /\ first(j) = first(k)
           /\ \/ job[j].place < job[k].place
              \/ /\ job[j].place = job[k].place
                 /\ \/ ~own(j) /\ own(k)
                    \/ own(j) = own(k) /\ job[j].made < job[k].made

\* Faulty variant of NoForeignDraft: a draft to be continued lets every row pass.
NoHeldDraft(j, lanes) ==
    \A k \in Job : draft[k] # None /\ Lane(k) \in lanes => draft[k].kept

\* Both claims and attach refuse while a draft of the lane is open, except the row's
\* own draft once the self-heal marked it to be continued.
NoForeignDraft(j, lanes) ==
    \A k \in Job : draft[k] # None /\ Lane(k) \in lanes => k = j /\ draft[k].kept

\* Faulty variant of NothingInFlight: only the drain's own claims count.
NothingDraining(lanes) ==
    \A k \in Job : Lane(k) \in lanes /\ job[k].by = Worker => ~Is(k, "claimed")

NothingInFlight(lanes) == \A k \in Job : Lane(k) \in lanes => ~Is(k, "claimed")

\* Faulty variant of SourceWorkOpen: a derived row somebody already claimed does not count.
SourceWorkQueued(j) ==
    \E k \in Job : /\ KindOf[k] \in SourceDerivedKinds
                   /\ Is(k, "queued") /\ About[k] \cap About[j] # {}

\* claim_next, canonical lane: derived work open about one of a compile's sources.
SourceWorkOpen(j) ==
    \E k \in Job : /\ KindOf[k] \in SourceDerivedKinds
                   /\ Open(k)
                   /\ About[k] \cap About[j] # {}

-----------------------------------------------------------------------------
(* JobQueue *)

\* Only a position: rows are never deleted, so the count orders them as created_at does.
Written == Cardinality({j \in Job : ~Is(j, "absent")})

\* enqueue; at is the row whose place the new one inherits through order_at, or j itself.
Enqueue(j, at) ==
    /\ Is(j, "absent")
    /\ at # j => ~Is(at, "absent")
    /\ job' = [job EXCEPT ![j].status = "queued", ![j].made = Written + 1,
                          ![j].place = IF at = j THEN Written + 1 ELSE job[at].place]
    /\ UNCHANGED <<draft, launch, lock>>

Claimable(j, lanes, skip) ==
    /\ Is(j, "queued") /\ ~job[j].wait
    /\ Lane(j) \in lanes /\ KindOf[j] \notin skip
    /\ NoForeignDraft(j, lanes)
    /\ NothingInFlight(lanes)
    /\ lanes = {"canonical"} /\ KindOf[j] = "compile" => ~SourceWorkOpen(j)

\* claim_next: refused while a command holds the lock; lanes = Lanes is `lane=None`.
ClaimNext(j, lanes, skip) ==
    /\ lock = None
    /\ Claimable(j, lanes, skip)
    /\ \A k \in Job : Claimable(k, lanes, skip) /\ k # j => Precedes(j, k)
    /\ job' = [job EXCEPT ![j].status = "claimed", ![j].by = Worker]
    /\ UNCHANGED <<draft, launch, lock>>

\* Faulty variant of Claim: drafts are not looked at.
ClaimOverDraft(j, x) ==
    /\ Is(j, "queued")
    /\ NothingInFlight({Lane(j)})
    /\ job' = [job EXCEPT ![j].status = "claimed", ![j].by = x]
    /\ AnyLock /\ UNCHANGED <<draft, launch>>

\* claim: one named row, whatever it waits for.
Claim(j, x) ==
    /\ Is(j, "queued")
    /\ NoForeignDraft(j, {Lane(j)})
    /\ NothingInFlight({Lane(j)})
    /\ job' = [job EXCEPT ![j].status = "claimed", ![j].by = x]
    /\ AnyLock /\ UNCHANGED <<draft, launch>>

CanAttach(j) ==
    /\ Is(j, "claimed") /\ job[j].by = Worker
    /\ NoForeignDraft(j, {Lane(j)})

\* attach_executor: the drain's anonymous claim becomes this launch's.
AttachExecutor(j, e) ==
    /\ CanAttach(j)
    /\ UnderLock(e)
    /\ job' = [job EXCEPT ![j].by = e]
    /\ UNCHANGED <<draft, launch>>

\* UPDATE ... WHERE: a row that no longer matches is left alone, and nobody is told.
Update(j, matches, row) == job' = IF matches THEN [job EXCEPT ![j] = row] ELSE job

\* `claimed_by`, when given, is one more predicate of park and complete.
Named(j, by) == by = None \/ job[j].by = by

\* Faulty variants of Park: one never pauses, one also parks a row that has ended.
ParkForever(j, by) ==
    /\ Update(j, Open(j) /\ Named(j, by),
              [job[j] EXCEPT !.status = "queued", !.by = None, !.wait = TRUE,
                             !.fails = job[j].fails + 1])
    /\ AnyLock /\ UNCHANGED <<draft, launch>>

ParkEnded(j, by) ==
    /\ Update(j, ~Is(j, "absent") /\ Named(j, by),
              [job[j] EXCEPT !.status = "paused", !.by = None])
    /\ AnyLock /\ UNCHANGED <<draft, launch>>

\* job_retry.park over PostgresStore.park: wait on the schedule, pause past its end.
Park(j, by) ==
    /\ LET attempts == job[j].fails + 1
           spent    == attempts > MaxAttempts
       IN Update(j, Open(j) /\ Named(j, by),
                 [job[j] EXCEPT !.status = IF spent THEN "paused" ELSE "queued",
                                !.by = None, !.wait = ~spent,
                                !.fails = IF spent THEN MaxAttempts + 1 ELSE attempts])
    /\ AnyLock /\ UNCHANGED <<draft, launch>>

\* _write_completion: matched on the id (and `claimed_by`), never on the status.
Complete(j, by, who) ==
    /\ Update(j, ~Is(j, "absent") /\ Named(j, by),
              [job[j] EXCEPT !.status = "done", !.outcome = who])
    /\ AnyLock /\ UNCHANGED <<draft, launch>>

\* release
Release(j) ==
    /\ Is(j, "claimed")
    /\ job' = [job EXCEPT ![j].status = "queued", ![j].by = None]
    /\ AnyLock /\ UNCHANGED <<draft, launch>>

\* resume_jobs: a paused row, or one waiting out its schedule (include_waiting).
ResumeJob(j) ==
    /\ Is(j, "paused") \/ (Is(j, "queued") /\ job[j].wait)
    /\ job' = [job EXCEPT ![j].status = "queued", ![j].wait = FALSE,
                          ![j].fails = 0, ![j].by = None]
    /\ UNCHANGED <<draft, launch, lock>>

\* not_before passes.
WaitElapses(j) ==
    /\ job[j].wait
    /\ job' = [job EXCEPT ![j].wait = FALSE]
    /\ UNCHANGED <<draft, launch, lock>>

-----------------------------------------------------------------------------
(* requeue_claimed_jobs: the self-heal, one transaction over a library's rows *)

\* Whose liveness decides: the draft's owner, else the row's claimed_by.
Holder(j) == IF draft[j] # None THEN draft[j].owner ELSE job[j].by

\* Faulty variant of Spared: a claim nobody's launch holds is taken for a live one.
SparedUnheld(j) ==
    LET expired == draft[j] # None /\ draft[j].age = "stale"
    IN  IF Holder(j) \in Launch THEN Alive(Holder(j)) /\ ~expired ELSE ~expired

Spared(j) ==
    LET expired == draft[j] # None /\ draft[j].age = "stale"
    IN  IF Holder(j) \in Launch
        THEN Alive(Holder(j)) /\ ~expired
        ELSE draft[j] # None /\ ~expired

Orphaned(j) ==
    /\ Is(j, "claimed") \/ (Is(j, "queued") /\ draft[j] # None)
    /\ ~Spared(j)

\* Faulty variants of Continuable: whether there is anything to continue is not asked; a
\* draft is kept through one sweep only.
ContinuableBlank(j) == draft[j] # None /\ Holder(j) \in Launch /\ ~Alive(Holder(j))

\* A dead launch's draft that holds work is marked for the next body to continue.
Continuable(j) ==
    draft[j] # None /\ Holder(j) \in Launch /\ ~Alive(Holder(j)) /\ HoldsWork(j)

RequeueClaimed(rows) ==
    LET swept    == {j \in rows : Orphaned(j)}
        finished == {j \in rows : Is(j, "done")}
    IN  /\ lock = None
        /\ job' = [j \in Job |->
                     IF j \in swept /\ Is(j, "claimed")
                     THEN [job[j] EXCEPT !.status = "queued", !.by = None]
                     ELSE job[j]]
        /\ draft' = [j \in Job |->
                       IF j \in swept /\ Continuable(j)
                       THEN [draft[j] EXCEPT !.kept = TRUE]
                       ELSE IF j \in swept \cup finished THEN None ELSE draft[j]]
        /\ UNCHANGED <<launch, lock>>

-----------------------------------------------------------------------------
(* PostgresDraftStore *)

\* lock, on its own.
Lock(x) == lock = None /\ lock' = x /\ UNCHANGED <<job, draft, launch>>
Unlock(x) == lock = x /\ lock' = None /\ UNCHANGED <<job, draft, launch>>

\* launch: a lease the database drops with the connection.
MintLease(e) ==
    /\ launch[e] = "unborn"
    /\ launch' = [launch EXCEPT ![e] = "live"]
    /\ UNCHANGED <<job, draft, lock>>

DropLeases(es) ==
    /\ launch' = [e \in Launch |-> IF e \in es /\ launch[e] = "live" THEN "gone" ELSE launch[e]]
    /\ AnyLock /\ UNCHANGED <<job, draft>>

\* adoptable: only the draft of a launch whose lease is gone may change hands unasked.
Adoptable(j) == draft[j].owner \in Launch /\ ~Alive(draft[j].owner)

\* Faulty variant of MayPut: the row is claimed, by anybody.
MayPutClaimed(x, j, adopt) ==
    /\ draft[j] # None /\ draft[j].owner # x => adopt /\ Adoptable(j)
    /\ Is(j, "claimed")

MayPut(x, j, adopt) ==
    /\ draft[j] # None /\ draft[j].owner # x => adopt /\ Adoptable(j)
    /\ Is(j, "claimed") /\ job[j].by = x

\* put: the whole state is replaced, so a continue_from mark does not survive it.
Put(x, j, adopt, body) ==
    /\ MayPut(x, j, adopt)
    /\ UnderLock(x)
    /\ draft' = [draft EXCEPT
                    ![j] = [owner |-> x, kept |-> FALSE, body |-> body, age |-> "fresh"]]
    /\ UNCHANGED <<job, launch>>

\* delete
Delete(x, j) ==
    /\ UnderLock(x)
    /\ draft[j] # None => draft[j].owner = x
    /\ draft' = [draft EXCEPT ![j] = None]
    /\ UNCHANGED <<job, launch>>

\* abandon, its own or (take_over) one that is idle past the grace or whose launch is gone.
Abandon(x, j, takeOver) ==
    /\ UnderLock(x)
    /\ draft[j] # None
    /\ \/ draft[j].owner = x
       \/ takeOver /\ (Adoptable(j) \/ draft[j].age # "fresh")
    /\ draft' = [draft EXCEPT ![j] = None]
    /\ Update(j, Is(j, "claimed"), [job[j] EXCEPT !.status = "queued", !.by = None])
    /\ UNCHANGED launch

\* The clock over updated_at.
DraftAges(j) ==
    /\ draft[j] # None /\ draft[j].age # "stale"
    /\ draft' = [draft EXCEPT ![j].age = IF @ = "fresh" THEN "idle" ELSE "stale"]
    /\ UNCHANGED <<job, launch, lock>>

-----------------------------------------------------------------------------
RowStep(j) ==
    \/ \E at \in Job : Enqueue(j, at)
    \/ \E lanes \in (SUBSET Lanes) \ {{}}, skip \in Skips : ClaimNext(j, lanes, skip)
    \/ \E x \in Claimer : Claim(j, x)
    \/ \E e \in Launch : AttachExecutor(j, e)
    \/ \E by \in Claimer \cup {None} : Park(j, by)
    \/ \E who \in Claimer : \E by \in {None, who} : Complete(j, by, who)
    \/ Release(j)
    \/ ResumeJob(j)
    \/ WaitElapses(j)

DraftStep(j) ==
    \/ \E x \in Executor, adopt \in BOOLEAN, body \in Bodies : Put(x, j, adopt, body)
    \/ \E x \in Executor : Delete(x, j)
    \/ \E x \in Executor, takeOver \in BOOLEAN : Abandon(x, j, takeOver)
    \/ DraftAges(j)

Next ==
    \/ \E j \in Job : RowStep(j) \/ DraftStep(j)
    \/ \E rows \in SUBSET Job : RequeueClaimed(rows)
    \/ \E x \in Executor : Lock(x) \/ Unlock(x)
    \/ \E e \in Launch : MintLease(e)
    \/ \E es \in SUBSET Launch : DropLeases(es)

Spec == Init /\ [][Next]_queueVars

-----------------------------------------------------------------------------
(* What the queue promises its callers. *)

Reserves(j) == Is(j, "claimed") \/ draft[j] # None
Reserved(lane) == {j \in Job : Lane(j) = lane /\ Reserves(j)}

\* One job at a time holds a lane, by a claim or by an open draft, whoever calls what:
\* claim_next, claim and attach_executor judge rows and drafts that other operations
\* (park, release, the self-heal, abandon) move separately.
LaneReserved ==
    \A j, k \in Job : Reserves(j) /\ Reserves(k) /\ Lane(j) = Lane(k) => j = k

\* An open round and its claim belong to one executor, although they are two rows written
\* at different times; require_owner relies on it (it compares the draft's owner only).
\* Between the self-heal's mark and the adopting put, the draft is nobody's to judge.
ClaimFollowsDraft ==
    \A j \in Job : Is(j, "claimed") /\ draft[j] # None /\ ~draft[j].kept
                      => draft[j].owner = job[j].by

\* No late park, release, abandon or self-heal revives a finished row, and a paused row is
\* never handed out without first being resumed or parked again.
NeverRevived ==
    [][\A j \in Job : /\ Is(j, "done") => Is(j, "done")'
                      /\ Is(j, "paused") => ~Is(j, "claimed")']_queueVars

Holdings == {<<Lane(j), j>> : j \in {k \in Job : Reserves(k)}}

\* The abstract lane lock: a lane's holder is the job that reserves it.
LaneLock == INSTANCE LaneLock WITH Locks <- Lanes, Owners <- Job, held <- Holdings

\* A lane goes from holder to holder only through being free.
LanesHandOver == LaneLock!Spec
=============================================================================
