------------------------------ MODULE Snapshots ------------------------------
(***************************************************************************)
(* Freezing a library: kb_snapshots.py.                                    *)
(*                                                                         *)
(* A snapshot is a copy of the whole base under a tenant of its own, taken *)
(* store by store while the base goes on importing, committing and         *)
(* projecting; no transaction spans the stores. The copy is a task of the  *)
(* API process, a deletion a request to it. Any store may refuse a call,   *)
(* the process may die, and a deletion may run beside the copy.            *)
(*                                                                         *)
(* A source stands for the one claim it gives rise to, so a point or a row *)
(* is a pair: the source, and the document its claim is filed in, or L0    *)
(* for the chunk of the source itself. One owner; a tenant is named by its *)
(* snapshot.                                                               *)
(***************************************************************************)
EXTENDS Naturals, Sequences, FiniteSets

CONSTANTS
    Sources,
    Documents,     \* canonical paths a claim may be filed under
    L0, Absent,
    Held,          \* the sources imported, indexed and compiled at the start
    Filing,        \* the document their claims are filed in
    Pictured,      \* sources with images
    FirstBatch,    \* the points a scroll meets in its first batch
    Snapshot,      \* snapshot ids, which are also the tenants'
    Budgets        \* bounds: imports, commits, rebuilds and re-indexings, faults

Claims == Sources \X Documents
Chunk(s) == <<s, L0>>
Points == Claims \cup {Chunk(s) : s \in Sources}

ASSUME SnapshotsAssumption ==
    /\ IsFiniteSet(Sources) /\ IsFiniteSet(Documents)
    /\ L0 \notin Documents /\ Absent \notin Documents
    /\ Held \subseteq Sources /\ Filing \in Documents
    /\ Budgets \subseteq [imports : Nat, commits : Nat, rebuilds : Nat, faults : Nat]

VARIABLES
    sources,     \* L0: sources and blocks
    history,     \* git: the trees, each the document of every claim
    pg,          \* canonical_claims
    points,      \* Qdrant: the chunks and the claim layer
    projecting,  \* the projection that is under way
    registry,    \* kb_snapshots
    tenant,      \* what the stores hold under a snapshot's tenant
    copier,      \* run_copy, per snapshot
    deleter,     \* delete, per snapshot
    past,        \* history read by no step: what the copy and deletions met
    budget       \* what of its bounds this behaviour has left

base == <<sources, history, pg, points, projecting>>
frozen == <<registry, tenant, copier, deleter, past>>
vars == <<base, frozen, budget>>
-----------------------------------------------------------------------------
Trees == [Sources -> Documents \cup {Absent}]
HEAD == Len(history)
Keys(tree) == {c \in Claims : tree[c[1]] = c[2]}
ClaimPoints(ps) == ps \cap Claims
ChunkPoints(ps) == ps \ Claims

Resting == [at |-> "none", upserts |-> {}, deleted |-> {}]
NoTenant == [points |-> {}, rows |-> {}, claims |-> {}, media |-> {}, own |-> {},
             blocks |-> {}, lexical |-> {}]
Idle == [at |-> "idle", points |-> 0, read |-> {}, claims |-> 0, images |-> 0, moved |-> {},
         ref |-> 0]

Start == [s \in Sources |-> IF s \in Held THEN Filing ELSE Absent]

Init ==
    /\ sources = Held /\ history = <<Start>> /\ pg = Keys(Start)
    /\ points = Keys(Start) \cup {Chunk(s) : s \in Held}
    /\ projecting = Resting
    /\ registry = [n \in Snapshot |-> [status |-> "none", ref |-> 0]]
    /\ tenant = [n \in Snapshot |-> NoTenant]
    /\ copier = [n \in Snapshot |-> Idle]
    /\ deleter = [n \in Snapshot |-> "idle"]
    /\ past = [n \in Snapshot |-> [grew |-> FALSE, purged |-> FALSE, raced |-> FALSE]]
    /\ budget \in Budgets

Spend(what) == budget[what] > 0 /\ budget' = [budget EXCEPT ![what] = @ - 1]
-----------------------------------------------------------------------------
(* The base goes on. *)

\* An import: the source row with its blocks; the images were put before it.
ImportSource(s) ==
    /\ s \notin sources /\ Spend("imports")
    /\ sources' = sources \cup {s}
    /\ UNCHANGED <<history, pg, points, projecting, frozen>>

\* process_index_job: a selection is replaced by a deletion and an upsert.
DeleteChunks(s) ==
    /\ Chunk(s) \in points /\ Spend("rebuilds")
    /\ points' = points \ {Chunk(s)}
    /\ UNCHANGED <<sources, history, pg, projecting, frozen>>

UpsertChunks(s) ==
    /\ s \in sources /\ Chunk(s) \notin points
    /\ points' = points \cup {Chunk(s)}
    /\ UNCHANGED <<sources, history, pg, projecting, frozen, budget>>

\* A job of the canonical lane files a claim, moves it (a rollover, an archive, an adoption)
\* or retires it; one job at a time commits and projects.
Commit(s, d) ==
    /\ projecting = Resting /\ s \in sources /\ d # history[HEAD][s] /\ Spend("commits")
    /\ history' = Append(history, [history[HEAD] EXCEPT ![s] = d])
    /\ UNCHANGED <<sources, pg, points, projecting, frozen>>

Project(at) == projecting' = [projecting EXCEPT !.at = at]

\* sync_projection: a delta against the manifest, the points deleted and then upserted, the
\* manifest last.
SyncPlan ==
    /\ projecting = Resting /\ pg # Keys(history[HEAD])
    /\ projecting' = [at |-> "delete", upserts |-> Keys(history[HEAD]) \ pg,
                      deleted |-> pg \ Keys(history[HEAD])]
    /\ UNCHANGED <<sources, history, pg, points, frozen, budget>>

SyncDeletes ==
    /\ projecting.at = "delete"
    /\ points' = points \ projecting.deleted /\ Project("upsert")
    /\ UNCHANGED <<sources, history, pg, frozen, budget>>

SyncUpserts ==
    /\ projecting.at = "upsert"
    /\ points' = points \cup projecting.upserts /\ Project("manifest")
    /\ UNCHANGED <<sources, history, pg, frozen, budget>>

SyncManifest ==
    /\ projecting.at = "manifest"
    /\ pg' = (pg \ projecting.deleted) \cup projecting.upserts /\ projecting' = Resting
    /\ UNCHANGED <<sources, history, points, frozen, budget>>

\* rebuild_projection: the manifest first, the claim layer dropped and put back.
RebuildRows ==
    /\ projecting = Resting /\ Spend("rebuilds")
    /\ pg' = Keys(history[HEAD])
    /\ projecting' = [at |-> "drop", upserts |-> Keys(history[HEAD]), deleted |-> {}]
    /\ UNCHANGED <<sources, history, points, frozen>>

RebuildDrops ==
    /\ projecting.at = "drop"
    /\ points' = ChunkPoints(points) /\ Project("put")
    /\ UNCHANGED <<sources, history, pg, frozen, budget>>

RebuildPuts ==
    /\ projecting.at = "put"
    /\ points' = points \cup projecting.upserts /\ projecting' = Resting
    /\ UNCHANGED <<sources, history, pg, frozen, budget>>

\* The worker dies, or a store refuses it: the job is run again.
ProjectionCut ==
    /\ projecting # Resting /\ Spend("faults")
    /\ projecting' = Resting
    /\ UNCHANGED <<sources, history, pg, points, frozen>>
-----------------------------------------------------------------------------
(* create and spawn_copy. *)

\* The row comes before any copying, with the commit of the moment; a request that fails
\* between the row and the task leaves it without one.
Create(n) ==
    /\ registry[n].status = "none"
    /\ registry' = [registry EXCEPT ![n] = [status |-> "creating", ref |-> HEAD]]
    /\ \/ copier' = [copier EXCEPT ![n] = [Idle EXCEPT !.at = "points"]] /\ UNCHANGED budget
       \/ Spend("faults") /\ UNCHANGED copier
    /\ UNCHANGED <<base, tenant, deleter, past>>
-----------------------------------------------------------------------------
(* run_copy, one action per call that leaves the process. *)

Copying(n, at) == copier[n].at = at
Then(n, at) == copier' = [copier EXCEPT ![n].at = at]
Holds(n, changes) == tenant' = [tenant EXCEPT ![n] = changes]
LeaveRest == UNCHANGED <<base, registry, deleter, past, budget>>

\* copy_tenant scrolls the owner's points in batches, and counts what it copied.
ScrollBatch(n, at, batch, next) ==
    /\ Copying(n, at)
    /\ Holds(n, [tenant[n] EXCEPT !.points = @ \cup batch])
    /\ copier' = [copier EXCEPT ![n].at = next, ![n].points = @ + Cardinality(batch)]
    /\ LeaveRest

CopyFirstPoints(n) == ScrollBatch(n, "points", points \cap FirstBatch, "rest")
CopyOtherPoints(n) == ScrollBatch(n, "rest", points \ FirstBatch, "rows")

\* copy_tenant_rows is one transaction, and each of its statements sees what others have
\* committed by then: the sources, then the blocks, then the claims.
CopySources(n) ==
    /\ Copying(n, "rows")
    /\ copier' = [copier EXCEPT ![n].at = "texts", ![n].read = sources]
    /\ UNCHANGED tenant /\ LeaveRest

\* Blocks of a source that the first statement did not see have no row to refer to.
CopyBlocks(n) ==
    /\ Copying(n, "texts")
    /\ Then(n, IF sources \subseteq copier[n].read THEN "claims" ELSE "failing")
    /\ UNCHANGED tenant /\ LeaveRest

CopyClaims(n) ==
    /\ Copying(n, "claims")
    /\ Holds(n, [tenant[n] EXCEPT !.rows = @ \cup copier[n].read, !.claims = @ \cup pg])
    /\ copier' = [copier EXCEPT ![n].at = "media",
                                ![n].claims = Cardinality(tenant[n].claims \cup pg)]
    /\ past' = [past EXCEPT ![n].grew = sources # copier[n].read]
    /\ UNCHANGED <<base, registry, deleter, budget>>

Images(n) == tenant[n].rows \cap Pictured

\* The objects the copied manifests name, into the tenant's own namespace.
CopyMedia(n) ==
    /\ Copying(n, "media")
    /\ Holds(n, [tenant[n] EXCEPT !.media = @ \cup Images(n)])
    /\ copier' = [copier EXCEPT ![n].at = IF Images(n) = {} THEN "pin" ELSE "retarget",
                                ![n].moved = Images(n)]
    /\ LeaveRest

RewriteMediaKeys(n) ==
    /\ Copying(n, "retarget")
    /\ Holds(n, [tenant[n] EXCEPT !.own = @ \cup (copier[n].moved \cap Images(n))])
    /\ copier' = [copier EXCEPT ![n].at = "images",
                                ![n].images = Cardinality(copier[n].moved \cap Images(n))]
    /\ LeaveRest

\* "not every copied image manifest was retargeted"
CountImages(n) ==
    /\ Copying(n, "images")
    /\ Then(n, IF copier[n].images = Cardinality(Images(n)) THEN "pin" ELSE "failing")
    /\ UNCHANGED tenant /\ LeaveRest

\* Mutant: the commit recorded at the request is kept.
PinProvisional(n) ==
    /\ Copying(n, "pin")
    /\ copier' = [copier EXCEPT ![n].at = "blocks", ![n].ref = registry[n].ref]
    /\ UNCHANGED tenant /\ LeaveRest

PinCanonical(n) ==
    /\ Copying(n, "pin")
    /\ copier' = [copier EXCEPT ![n].at = "blocks", ![n].ref = HEAD]
    /\ UNCHANGED tenant /\ LeaveRest

IndexBlocks(n) ==
    /\ Copying(n, "blocks")
    /\ Holds(n, [tenant[n] EXCEPT !.blocks = @ \cup tenant[n].rows]) /\ Then(n, "lexical")
    /\ LeaveRest

IndexClaims(n) ==
    /\ Copying(n, "lexical")
    /\ Holds(n, [tenant[n] EXCEPT !.lexical = tenant[n].claims]) /\ Then(n, "check")
    /\ LeaveRest

\* Mutant: points that are too many are let pass.
CompleteAtLeast(n) ==
    copier[n].points >= Cardinality(ChunkPoints(tenant[n].points)) + copier[n].claims

\* points - chunks == claims, or SnapshotIncomplete.
Complete(n) ==
    copier[n].points = Cardinality(ChunkPoints(tenant[n].points)) + copier[n].claims

CheckComplete(n) ==
    /\ Copying(n, "check")
    /\ Then(n, IF Complete(n) THEN "finish" ELSE "failing")
    /\ UNCHANGED tenant /\ LeaveRest

\* finish_kb_snapshot updates the row if there is one.
Settled(n, status, ref) ==
    registry' = IF registry[n].status = "deleted" THEN registry
                ELSE [registry EXCEPT ![n] = [status |-> status, ref |-> ref]]

\* The update may land and its answer be lost: the row is ready and then failed.
FinishReady(n) ==
    /\ Copying(n, "finish")
    /\ Settled(n, "ready", copier[n].ref)
    /\ \/ copier' = [copier EXCEPT ![n] = Idle] /\ UNCHANGED budget
       \/ Spend("faults") /\ Then(n, "failing")
    /\ UNCHANGED <<base, tenant, deleter, past>>

\* Any exception: the row says failed, unless that write fails too.
CopyFails(n) ==
    /\ copier[n].at \notin {"idle", "failing"} /\ Spend("faults")
    /\ Then(n, "failing")
    /\ UNCHANGED <<base, registry, tenant, deleter, past>>

FinishFailed(n) ==
    /\ Copying(n, "failing")
    /\ \/ Settled(n, "failed", registry[n].ref) /\ UNCHANGED budget
       \/ Spend("faults") /\ UNCHANGED registry
    /\ copier' = [copier EXCEPT ![n] = Idle]
    /\ UNCHANGED <<base, tenant, deleter, past>>

Copy(n) ==
    \/ CopyFirstPoints(n) \/ CopyOtherPoints(n)
    \/ CopySources(n) \/ CopyBlocks(n) \/ CopyClaims(n) \/ CopyMedia(n) \/ RewriteMediaKeys(n)
    \/ CountImages(n) \/ PinCanonical(n) \/ IndexBlocks(n) \/ IndexClaims(n) \/ CheckComplete(n)
    \/ FinishReady(n) \/ CopyFails(n) \/ FinishFailed(n)
-----------------------------------------------------------------------------
(* delete: stores first, row last. *)

Deleting(n, at) == deleter[n] = at
Toward(n, at) == deleter' = [deleter EXCEPT ![n] = at]

\* Mutant: the row goes first.
RequestRowFirst(n) ==
    /\ Deleting(n, "idle") /\ registry[n].status \in {"creating", "ready", "failed"}
    /\ Toward(n, "vectors")
    /\ registry' = [registry EXCEPT ![n].status = "deleted"]
    /\ UNCHANGED <<base, tenant, copier, past, budget>>

RequestDelete(n) ==
    /\ Deleting(n, "idle") /\ registry[n].status \in {"creating", "ready", "failed"}
    /\ Toward(n, "vectors")
    /\ UNCHANGED <<base, registry, tenant, copier, past, budget>>

Purge(n, at, next, left) ==
    /\ Deleting(n, at) /\ Toward(n, next)
    /\ Holds(n, left)
    /\ UNCHANGED <<base, registry, copier, budget>>

PurgeVectors(n) ==
    /\ Purge(n, "vectors", "lexical", [tenant[n] EXCEPT !.points = {}])
    /\ past' = [past EXCEPT ![n].purged = TRUE, ![n].raced = copier[n] # Idle]

PurgeLexical(n) ==
    /\ Purge(n, "lexical", "media", [tenant[n] EXCEPT !.blocks = {}, !.lexical = {}])
    /\ UNCHANGED past

PurgeMedia(n) == Purge(n, "media", "rows", [tenant[n] EXCEPT !.media = {}]) /\ UNCHANGED past

\* delete_tenant_rows: the claims and, blocks with them, the sources.
PurgeRows(n) ==
    /\ Purge(n, "rows", "registry", [tenant[n] EXCEPT !.rows = {}, !.claims = {}, !.own = {}])
    /\ UNCHANGED past

DropRow(n) ==
    /\ Deleting(n, "registry") /\ Toward(n, "idle")
    /\ registry' = [registry EXCEPT ![n].status = "deleted"]
    /\ UNCHANGED <<base, tenant, copier, past, budget>>

\* A store refuses: the request ends, the row survives.
DeleteFails(n) ==
    /\ deleter[n] # "idle" /\ Spend("faults")
    /\ Toward(n, "idle")
    /\ UNCHANGED <<base, registry, tenant, copier, past>>

Delete(n) ==
    \/ RequestDelete(n) \/ PurgeVectors(n) \/ PurgeLexical(n) \/ PurgeMedia(n) \/ PurgeRows(n)
    \/ DropRow(n) \/ DeleteFails(n)

\* The process takes its tasks and requests with it.
ApiDies ==
    /\ Spend("faults")
    /\ copier' = [n \in Snapshot |-> Idle] /\ deleter' = [n \in Snapshot |-> "idle"]
    /\ UNCHANGED <<base, registry, tenant, past>>
-----------------------------------------------------------------------------
Projection ==
    \/ SyncPlan \/ SyncDeletes \/ SyncUpserts \/ SyncManifest
    \/ RebuildRows \/ RebuildDrops \/ RebuildPuts \/ ProjectionCut

Base ==
    \/ \E s \in Sources : ImportSource(s) \/ DeleteChunks(s) \/ UpsertChunks(s)
    \/ \E s \in Sources, d \in Documents \cup {Absent} : Commit(s, d)
    \/ Projection

Next == Base \/ ApiDies \/ \E n \in Snapshot : Create(n) \/ Copy(n) \/ Delete(n)

Spec == Init /\ [][Next]_vars
-----------------------------------------------------------------------------
(* What a snapshot promises. *)

Phases == {"idle", "points", "rest", "rows", "texts", "claims", "media", "retarget", "images",
           "pin", "blocks", "lexical", "check", "finish", "failing"}

TypeOK ==
    /\ sources \subseteq Sources /\ history \in Seq(Trees) /\ pg \subseteq Claims
    /\ points \subseteq Points
    /\ projecting \in [at : {"none", "delete", "upsert", "manifest", "drop", "put"},
                       upserts : SUBSET Claims, deleted : SUBSET Claims]
    /\ registry \in [Snapshot -> [status : {"none", "creating", "ready", "failed", "deleted"},
                                  ref : 0 .. HEAD]]
    /\ tenant \in [Snapshot -> [points : SUBSET Points, rows : SUBSET Sources,
                                claims : SUBSET Claims, media : SUBSET Pictured,
                                own : SUBSET Pictured, blocks : SUBSET Sources,
                                lexical : SUBSET Claims]]
    /\ copier \in [Snapshot -> [at : Phases, points : Nat, read : SUBSET Sources, claims : Nat,
                                images : Nat, moved : SUBSET Pictured, ref : 0 .. HEAD]]
    /\ deleter \in [Snapshot -> {"idle", "vectors", "lexical", "media", "rows", "registry"}]
    /\ past \in [Snapshot -> [grew : BOOLEAN, purged : BOOLEAN, raced : BOOLEAN]]

Answers(n) == registry[n].status = "ready"

Untouched(n) == Answers(n) /\ ~past[n].purged

\* run_copy: "What must never happen is a DANGLING REFERENCE". In a snapshot that answers,
\* whatever the base did while it was copied and until the first store of it is purged, every
\* point has its source, the lexical faces show the rows, every image is the tenant's own, and
\* the pinned tree is no older than any claim: it has the claim where its row says, or a commit
\* before the pin took it away from there. Every claim row has its source too, unless a source
\* was imported between the statements of the rows' transaction.
NothingDangles ==
    \A n \in Snapshot : Untouched(n) =>
        LET t == tenant[n] IN
            /\ \A p \in t.points : p[1] \in t.rows
            /\ past[n].grew \/ \A c \in t.claims : c[1] \in t.rows
            /\ t.blocks = t.rows /\ t.lexical = t.claims
            /\ Images(n) \subseteq t.own \cap t.media
            /\ t.claims \subseteq UNION {Keys(history[i]) : i \in 1 .. registry[n].ref}

\* SnapshotIncomplete: "the one outcome `ready` must never cover" is a tenant of which a part
\* is missing. The semantic claims of a snapshot that answers are never a proper part of its
\* claim rows, nor the rows of them, over a scroll that takes several reads. (They may be
\* other claims: a claim that the base moved to another document between the two copies
\* leaves the numbers as they were.)
NotHalfCopied ==
    \A n \in Snapshot : Untouched(n) =>
        LET semantic == ClaimPoints(tenant[n].points)
            rows == tenant[n].claims
        IN semantic \subseteq rows \/ rows \subseteq semantic => semantic = rows

\* delete: the stores before the row, since row first "would strand tenant data that nothing
\* in the system any longer names". No deletion leaves anything in any store, however many
\* requests for it failed, except one that began while the copy was still running.
NothingStranded ==
    \A n \in Snapshot :
        registry[n].status = "deleted" /\ ~past[n].raced => tenant[n] = NoTenant
=============================================================================
