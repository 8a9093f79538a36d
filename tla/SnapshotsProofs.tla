--------------------------- MODULE SnapshotsProofs ---------------------------
(***************************************************************************)
(* A snapshot that answers has no dangling reference and no half of a      *)
(* claim layer, and a deletion that met no copy leaves nothing behind: for *)
(* any sources, documents, batches and snapshots, and any number of        *)
(* commits, projections, failures and deaths.                              *)
(*                                                                         *)
(* The argument is the order of the copy: what a phase has copied is       *)
(* covered by what a later phase copies, because the base's sources and    *)
(* history only grow (Grows, CopyInv).  It holds until the first purge;    *)
(* from then on DeleteInv says which stores a deletion has emptied and,    *)
(* when it met no copy, that nobody fills them again.                      *)
(***************************************************************************)
EXTENDS Snapshots, FiniteSetTheorems, SequenceTheorems, TLAPS

RowTypes == [status : {"none", "creating", "ready", "failed", "deleted"}, ref : Nat]
TenantTypes == [points : SUBSET Points, rows : SUBSET Sources, claims : SUBSET Claims,
                media : SUBSET Pictured, own : SUBSET Pictured, blocks : SUBSET Sources,
                lexical : SUBSET Claims]
CopierTypes == [at : Phases, points : Nat, read : SUBSET Sources, claims : Nat, images : Nat,
                moved : SUBSET Pictured, ref : Nat]

BaseTypes ==
    /\ sources \subseteq Sources /\ history \in Seq(Trees) /\ history # <<>>
    /\ pg \subseteq Claims /\ points \subseteq Points
    /\ projecting \in [at : {"none", "delete", "upsert", "manifest", "drop", "put"},
                       upserts : SUBSET Claims, deleted : SUBSET Claims]

FrozenTypes ==
    /\ registry \in [Snapshot -> RowTypes]
    /\ tenant \in [Snapshot -> TenantTypes]
    /\ copier \in [Snapshot -> CopierTypes]
    /\ deleter \in [Snapshot -> {"idle", "vectors", "lexical", "media", "rows", "registry"}]
    /\ past \in [Snapshot -> [grew : BOOLEAN, purged : BOOLEAN, raced : BOOLEAN]]

Refs == \A n \in Snapshot : registry[n].ref \in 0 .. HEAD /\ copier[n].ref \in 0 .. HEAD

\* Every claim the first k commits have filed anywhere.
Recorded(k) == UNION {Keys(history[i]) : i \in 1 .. k}

\* What the base's stores hold was committed, about sources that are there.
BaseInv ==
    /\ \A c \in Recorded(HEAD) : c[1] \in sources
    /\ pg \cup projecting.upserts \subseteq Recorded(HEAD)
    /\ \A p \in points : p[1] \in sources

Types == BaseTypes /\ FrozenTypes /\ Refs

\* Phases inside the rows' transaction, with the rows copied, with the images the tenant's own, with the pin, and so on.
InRows == {"texts", "claims"}
AfterRows == {"media", "retarget", "images", "pin", "blocks", "lexical", "check", "finish"}
AfterImages == {"pin", "blocks", "lexical", "check", "finish"}
AfterPin == {"blocks", "lexical", "check", "finish"}

Sourced(ps, ss) == \A p \in ps : p[1] \in ss

\* A copy that no purge has touched.
Whole(n, k) ==
    LET t == tenant[n] IN
        /\ Sourced(t.points, t.rows) /\ (past[n].grew \/ Sourced(t.claims, t.rows))
        /\ t.blocks = t.rows /\ t.lexical = t.claims
        /\ Images(n) \subseteq t.own /\ Images(n) \subseteq t.media
        /\ t.claims \subseteq Recorded(k)
        /\ Cardinality(t.points) = Cardinality(ChunkPoints(t.points)) + Cardinality(t.claims)

PhaseInv(n) ==
    LET t == tenant[n]
        c == copier[n]
    IN  /\ c.at = "points" => t = NoTenant /\ c.points = 0
        /\ c.at = "rest" => t.points \subseteq FirstBatch
        /\ c.at \in {"rest", "rows"} \cup InRows =>
               t = [NoTenant EXCEPT !.points = t.points] /\ Sourced(t.points, sources)
        /\ c.at \in InRows => Sourced(t.points, c.read) /\ c.read \subseteq sources
        /\ c.at \in {"rest", "rows"} \cup InRows \cup AfterRows => c.points = Cardinality(t.points)
        /\ c.at \in AfterRows =>
               /\ Sourced(t.points, t.rows) /\ (past[n].grew \/ Sourced(t.claims, t.rows))
               /\ t.claims \subseteq Recorded(HEAD) /\ c.claims = Cardinality(t.claims)
               /\ t.blocks \subseteq t.rows
        /\ c.at \in {"retarget", "images"} => c.moved = Images(n) /\ Images(n) \subseteq t.media
        /\ c.at = "images" => Images(n) \subseteq t.own
        /\ c.at \in AfterImages => Images(n) \subseteq t.own /\ Images(n) \subseteq t.media
        /\ c.at \in AfterPin => t.claims \subseteq Recorded(c.ref)
        /\ c.at \in {"lexical", "check", "finish"} => t.blocks = t.rows
        /\ c.at \in {"check", "finish"} => t.lexical = t.claims
        /\ c.at = "finish" => Complete(n)
        /\ Answers(n) => c.at \in {"idle", "failing"} /\ Whole(n, registry[n].ref)

CopyInv(n) == ~past[n].purged => PhaseInv(n)

\* The stores a deletion has been through are empty.
Emptied(n) ==
    LET t == tenant[n] IN
        /\ deleter[n] \in {"lexical", "media", "rows", "registry"} => t.points = {}
        /\ deleter[n] \in {"media", "rows", "registry"} => t.blocks = {} /\ t.lexical = {}
        /\ deleter[n] \in {"rows", "registry"} => t.media = {}
        /\ deleter[n] = "registry" => t.rows = {} /\ t.claims = {} /\ t.own = {}
        /\ registry[n].status = "deleted" => t = NoTenant

DeleteInv(n) ==
    /\ registry[n].status = "none" =>
           /\ copier[n] = Idle /\ deleter[n] = "idle"
           /\ tenant[n] = NoTenant /\ ~past[n].purged
    /\ deleter[n] \in {"lexical", "media", "rows", "registry"} => past[n].purged
    /\ registry[n].status = "deleted" => past[n].purged /\ deleter[n] = "idle"
    /\ past[n].purged /\ ~past[n].raced => copier[n] = Idle /\ Emptied(n)

SnapshotInv == Types /\ BaseInv /\ \A n \in Snapshot : CopyInv(n) /\ DeleteInv(n)

\* The base only grows: no source is removed, no commit rewritten.
Grows ==
    /\ sources \subseteq sources' /\ Len(history) <= Len(history')
    /\ \A i \in 1 .. Len(history) : history'[i] = history[i]
-----------------------------------------------------------------------------
(* Points are finitely many. *)

LEMMA PointsFinite ==
  /\ IsFiniteSet(Points)
  /\ \A ps \in SUBSET Points : IsFiniteSet(ps) /\ Cardinality(ps) \in Nat
  /\ \A ss \in SUBSET Sources : IsFiniteSet(ss) /\ Cardinality(ss) \in Nat
  <1>1. IsFiniteSet(Claims)
    BY SnapshotsAssumption, FS_Product DEF Claims
  <1>2. IsFiniteSet(Sources \X {L0})
    BY SnapshotsAssumption, FS_Product, FS_Singleton
  <1>3. {Chunk(s) : s \in Sources} = Sources \X {L0}
    BY DEF Chunk
  <1>4. IsFiniteSet(Points)
    BY <1>1, <1>2, <1>3, FS_Union DEF Points
  <1>5. \A ps \in SUBSET Points : IsFiniteSet(ps) /\ Cardinality(ps) \in Nat
    BY <1>4, FS_Subset, FS_CardinalityType
  <1>6. \A ss \in SUBSET Sources : IsFiniteSet(ss) /\ Cardinality(ss) \in Nat
    BY SnapshotsAssumption, FS_Subset, FS_CardinalityType
  <1>. QED
    BY <1>4, <1>5, <1>6

LEMMA Pairs ==
  /\ \A p \in Points : p[1] \in Sources
  /\ \A c \in Claims : c[1] \in Sources /\ c[2] \in Documents /\ c \in Points
  /\ \A s \in Sources : Chunk(s) \in Points /\ Chunk(s)[1] = s /\ Chunk(s) \notin Claims
  <1>1. \A c \in Claims : c[1] \in Sources /\ c[2] \in Documents /\ c \in Points
    BY DEF Claims, Points
  <1>2. \A s \in Sources : Chunk(s) \in Points /\ Chunk(s)[1] = s /\ Chunk(s)[2] = L0
    BY DEF Chunk, Points
  <1>3. \A s \in Sources : Chunk(s) \notin Claims
    BY <1>1, <1>2, SnapshotsAssumption
  <1>4. \A p \in Points : p[1] \in Sources
    BY <1>1, <1>2 DEF Points
  <1>. QED
    BY <1>1, <1>2, <1>3, <1>4

LEMMA KeysOf == \A tree : Keys(tree) \subseteq Claims
  BY DEF Keys

\* A longer history has recorded at least as much.
LEMMA RecordedGrows ==
  ASSUME Grows, history \in Seq(Trees), history' \in Seq(Trees),
         NEW k \in 0 .. Len(history)
  PROVE  /\ Recorded(k) \subseteq Recorded(k)'
         /\ Recorded(k) \subseteq Recorded(HEAD)'
         /\ Recorded(k) \subseteq Recorded(HEAD)
  <1>1. /\ Len(history) \in Nat /\ Len(history') \in Nat
        /\ \A i \in 1 .. k : i \in 1 .. Len(history) /\ i \in 1 .. Len(history')
    BY DEF Grows
  <1>2. \A i \in 1 .. k : Keys(history'[i]) = Keys(history[i])
    BY <1>1 DEF Grows
  <1>. QED
    BY <1>1, <1>2 DEF Recorded, HEAD, Keys
-----------------------------------------------------------------------------
(* The base. *)

LEMMA InitBase == Init => BaseTypes /\ BaseInv
  <1>. SUFFICES ASSUME Init PROVE BaseTypes /\ BaseInv
    OBVIOUS
  <1>1. Start \in Trees
    BY SnapshotsAssumption DEF Start, Trees
  <1>2. /\ history \in Seq(Trees) /\ Len(history) = 1 /\ history[1] = Start /\ history # <<>>
    BY <1>1 DEF Init
  <1>3. Recorded(HEAD) = Keys(Start)
    BY <1>2 DEF Recorded, HEAD
  <1>4. \A c \in Keys(Start) : c[1] \in Held
    <2>. SUFFICES ASSUME NEW c \in Claims, Start[c[1]] = c[2] PROVE c[1] \in Held
      BY DEF Keys
    <2>. QED
      BY Pairs, SnapshotsAssumption DEF Start
  <1>5. \A p \in points : p \in Points /\ p[1] \in sources
    <2>. SUFFICES ASSUME NEW p \in points PROVE p \in Points /\ p[1] \in sources
      OBVIOUS
    <2>1. p \in Keys(Start) \/ \E s \in Held : p = Chunk(s)
      BY DEF Init
    <2>. QED
      BY <2>1, <1>4, KeysOf, Pairs, SnapshotsAssumption DEF Init
  <1>6. BaseTypes
    BY <1>2, <1>5, KeysOf, SnapshotsAssumption DEF BaseTypes, Init, Resting
  <1>7. BaseInv
    BY <1>3, <1>4, <1>5 DEF BaseInv, Init, Resting
  <1>. QED
    BY <1>6, <1>7

\* Only the base's own actions touch its stores.
LEMMA FrozenLeaveBase ==
  ASSUME [Next]_vars, ~ Base
  PROVE  UNCHANGED base
  <1>1. ASSUME ApiDies PROVE UNCHANGED base
    BY <1>1 DEF ApiDies
  <1>2. ASSUME NEW n \in Snapshot, Create(n) PROVE UNCHANGED base
    BY <1>2 DEF Create
  <1>3. ASSUME NEW n \in Snapshot, Copy(n) PROVE UNCHANGED base
    BY <1>3 DEF Copy, CopyFirstPoints, CopyOtherPoints, ScrollBatch, CopySources, CopyBlocks, CopyClaims, CopyMedia,
         RewriteMediaKeys, CountImages, PinCanonical, IndexBlocks, IndexClaims, CheckComplete,
         FinishReady, CopyFails, FinishFailed, LeaveRest
  <1>4. ASSUME NEW n \in Snapshot, Delete(n) PROVE UNCHANGED base
    BY <1>4 DEF Delete, RequestDelete, PurgeVectors, PurgeLexical, PurgeMedia, PurgeRows, Purge,
         DropRow, DeleteFails
  <1>. QED
    BY <1>1, <1>2, <1>3, <1>4 DEF Next, vars

LEMMA StepGrows ==
  ASSUME BaseTypes, [Next]_vars
  PROVE  Grows
  <1>. USE DEF BaseTypes
  <1>1. CASE UNCHANGED <<sources, history>>
    BY <1>1 DEF Grows
  <1>2. ASSUME NEW s \in Sources, ImportSource(s) PROVE Grows
    BY <1>2 DEF ImportSource, Grows
  <1>3. ASSUME NEW s \in Sources, NEW d \in Documents \cup {Absent}, Commit(s, d) PROVE Grows
    <2>. DEFINE t == [history[HEAD] EXCEPT ![s] = d]
    <2>1. history' = Append(history, t) /\ sources' = sources
      BY <1>3 DEF Commit
    <2>2. Len(history') = Len(history) + 1 /\ \A i \in 1 .. Len(history) : history'[i] = history[i]
      BY <2>1
    <2>. QED
      BY <2>1, <2>2 DEF Grows
  <1>4. ASSUME Base PROVE Grows
    <2>1. ASSUME NEW s \in Sources, DeleteChunks(s) \/ UpsertChunks(s) PROVE Grows
      BY <2>1, <1>1 DEF DeleteChunks, UpsertChunks
    <2>2. ASSUME Projection PROVE Grows
      BY <2>2, <1>1 DEF Projection, SyncPlan, SyncDeletes, SyncUpserts, SyncManifest, RebuildRows,
           RebuildDrops, RebuildPuts, ProjectionCut
    <2>. QED
      BY <1>4, <1>2, <1>3, <2>1, <2>2 DEF Base
  <1>. QED
    BY <1>1, <1>4, FrozenLeaveBase DEF base

LEMMA BaseStep ==
  ASSUME BaseTypes, BaseInv, Base
  PROVE  BaseTypes' /\ BaseInv'
  <1>. USE DEF BaseTypes
  <1>0. Len(history) \in Nat /\ Len(history) >= 1 /\ HEAD \in 1 .. Len(history)
    BY DEF HEAD
  <1>1. Keys(history[HEAD]) \subseteq Recorded(HEAD)
    BY <1>0 DEF Recorded
  <1>2. ASSUME history' = history PROVE Recorded(HEAD)' = Recorded(HEAD)
    BY <1>2 DEF Recorded, HEAD, Keys
  <1>3. ASSUME NEW s \in Sources, ImportSource(s) PROVE BaseTypes' /\ BaseInv'
    BY <1>3, <1>2 DEF ImportSource, BaseInv
  <1>4. ASSUME NEW s \in Sources, DeleteChunks(s) PROVE BaseTypes' /\ BaseInv'
    BY <1>4, <1>2 DEF DeleteChunks, BaseInv
  <1>5. ASSUME NEW s \in Sources, UpsertChunks(s) PROVE BaseTypes' /\ BaseInv'
    <2>1. UNCHANGED <<sources, history, pg, projecting>> /\ s \in sources
          /\ points' = points \cup {Chunk(s)}
      BY <1>5 DEF UpsertChunks
    <2>2. BaseTypes'
      BY <2>1, Pairs
    <2>3. \A p \in points' : p[1] \in sources'
      BY <2>1, Pairs DEF BaseInv
    <2>. QED
      BY <2>1, <2>2, <2>3, <1>2 DEF BaseInv
  <1>6. ASSUME NEW s \in Sources, NEW d \in Documents \cup {Absent}, Commit(s, d)
        PROVE  BaseTypes' /\ BaseInv'
    <2>. DEFINE t == [history[HEAD] EXCEPT ![s] = d]
    <2>1. history' = Append(history, t) /\ UNCHANGED <<sources, pg, points, projecting>> /\ s \in sources
      BY <1>6 DEF Commit
    <2>2. history[HEAD] \in Trees /\ t \in Trees
      BY <1>0 DEF Trees
    <2>3. /\ history' \in Seq(Trees) /\ Len(history') = Len(history) + 1
          /\ \A i \in 1 .. Len(history) : history'[i] = history[i]
          /\ history'[Len(history) + 1] = t
      BY <2>1, <2>2
    <2>4. Grows /\ HEAD \in 0 .. Len(history)
      BY <2>1, <2>3, <1>0 DEF Grows
    <2>5. Recorded(HEAD) \subseteq Recorded(HEAD)'
      BY <2>3, <2>4, RecordedGrows
    <2>6. \A c \in Keys(t) : c \in Keys(history[HEAD]) \/ c[1] = s
      BY <2>2 DEF Keys, Trees
    <2>7. \A c \in Recorded(HEAD)' : c \in Recorded(HEAD) \/ c[1] = s
      <3>. SUFFICES ASSUME NEW c \in Recorded(HEAD)' PROVE c \in Recorded(HEAD) \/ c[1] = s
        OBVIOUS
      <3>1. PICK i \in 1 .. Len(history') : c \in Keys(history'[i])
        BY DEF Recorded, HEAD, Keys
      <3>2. CASE i \in 1 .. Len(history)
        BY <3>1, <3>2, <2>3 DEF Recorded, HEAD
      <3>3. CASE i = Len(history) + 1
        BY <3>1, <3>3, <2>3, <2>6, <1>1
      <3>. QED
        BY <3>2, <3>3, <2>3, <1>0
    <2>8. BaseTypes'
      BY <2>1, <2>3, <1>0
    <2>9. BaseInv'
      BY <2>1, <2>5, <2>7 DEF BaseInv
    <2>. QED
      BY <2>8, <2>9
  <1>7. ASSUME SyncPlan PROVE BaseTypes' /\ BaseInv'
    BY <1>7, <1>1, <1>2, KeysOf DEF SyncPlan, BaseInv
  <1>8. ASSUME SyncDeletes PROVE BaseTypes' /\ BaseInv'
    BY <1>8, <1>2 DEF SyncDeletes, Project, BaseInv
  <1>9. ASSUME SyncUpserts PROVE BaseTypes' /\ BaseInv'
    <2>1. /\ UNCHANGED <<sources, history, pg>> /\ points' = points \cup projecting.upserts
          /\ projecting' = [projecting EXCEPT !.at = "manifest"]
      BY <1>9 DEF SyncUpserts, Project
    <2>. QED
      BY <2>1, <1>2, Pairs DEF BaseInv
  <1>10. ASSUME SyncManifest PROVE BaseTypes' /\ BaseInv'
    BY <1>10, <1>2 DEF SyncManifest, Resting, BaseInv
  <1>11. ASSUME RebuildRows PROVE BaseTypes' /\ BaseInv'
    BY <1>11, <1>1, <1>2, KeysOf DEF RebuildRows, BaseInv
  <1>12. ASSUME RebuildDrops PROVE BaseTypes' /\ BaseInv'
    BY <1>12, <1>2 DEF RebuildDrops, Project, ChunkPoints, BaseInv
  <1>13. ASSUME RebuildPuts PROVE BaseTypes' /\ BaseInv'
    <2>1. /\ UNCHANGED <<sources, history, pg>> /\ points' = points \cup projecting.upserts
          /\ projecting' = Resting
      BY <1>13 DEF RebuildPuts
    <2>. QED
      BY <2>1, <1>2, Pairs DEF BaseInv, Resting
  <1>14. ASSUME ProjectionCut PROVE BaseTypes' /\ BaseInv'
    BY <1>14, <1>2 DEF ProjectionCut, Resting, BaseInv
  <1>. QED
    BY <1>3, <1>4, <1>5, <1>6, <1>7, <1>8, <1>9, <1>10, <1>11, <1>12, <1>13, <1>14 DEF Base, Projection
-----------------------------------------------------------------------------
(* The registry, the tenants and who works on them. *)

LEMMA InitFrozen == Init => FrozenTypes /\ Refs
  <1>. SUFFICES ASSUME Init PROVE FrozenTypes /\ Refs
    OBVIOUS
  <1>1. NoTenant \in TenantTypes
    BY DEF NoTenant, TenantTypes
  <1>2. Idle \in CopierTypes /\ Idle.ref = 0
    BY DEF Idle, CopierTypes, Phases
  <1>3. FrozenTypes
    BY <1>1, <1>2 DEF Init, FrozenTypes, RowTypes
  <1>4. Len(history) = 1
    BY DEF Init
  <1>. QED
    BY <1>2, <1>3, <1>4 DEF Init, Refs, HEAD

\* A step of the copy of n changes the tenant and the copier of n, and at its end the row of n.
LEMMA CopyTypes ==
  ASSUME Types, NEW n \in Snapshot, Copy(n)
  PROVE  FrozenTypes' /\ Refs'
  <1>. USE DEF Types, BaseTypes, FrozenTypes
  <1>0. HEAD \in Nat /\ \A k \in 0 .. HEAD : k \in Nat
    BY DEF HEAD
  <1>1. /\ tenant[n] \in TenantTypes /\ copier[n] \in CopierTypes /\ registry[n] \in RowTypes
        /\ registry[n].ref \in 0 .. HEAD /\ copier[n].ref \in 0 .. HEAD
    BY DEF Refs
  <1>2. ASSUME history' = history, NEW t \in TenantTypes, NEW c \in CopierTypes, c.ref \in 0 .. HEAD,
               UNCHANGED <<registry, deleter>>,
               past' \in [Snapshot -> [grew : BOOLEAN, purged : BOOLEAN, raced : BOOLEAN]],
               tenant' = [tenant EXCEPT ![n] = t], copier' = [copier EXCEPT ![n] = c]
        PROVE  FrozenTypes' /\ Refs'
    BY <1>2 DEF Refs, HEAD
  <1>3. ASSUME history' = history, NEW r \in RowTypes, NEW c \in CopierTypes, c.ref \in 0 .. HEAD,
               r.ref \in 0 .. HEAD, UNCHANGED <<tenant, deleter, past>>,
               registry' = [registry EXCEPT ![n] = r], copier' = [copier EXCEPT ![n] = c]
        PROVE  FrozenTypes' /\ Refs'
    BY <1>3 DEF Refs, HEAD
  <1>4. Images(n) \in SUBSET Pictured /\ Cardinality(Images(n)) \in Nat
        /\ Cardinality(copier[n].moved \cap Images(n)) \in Nat
    <2>1. Images(n) \subseteq Sources /\ Images(n) \subseteq Pictured
      BY <1>1 DEF Images, TenantTypes
    <2>2. copier[n].moved \cap Images(n) \in SUBSET Sources
      BY <2>1
    <2>. QED
      BY <2>1, <2>2, PointsFinite
  <1>5. ASSUME NEW at, NEW batch \in SUBSET Points, NEW next \in Phases, ScrollBatch(n, at, batch, next)
        PROVE  FrozenTypes' /\ Refs'
    <2>. DEFINE t == [tenant[n] EXCEPT !.points = @ \cup batch]
                c == [copier[n] EXCEPT !.at = next, !.points = @ + Cardinality(batch)]
    <2>1. t \in TenantTypes
      BY <1>1 DEF TenantTypes
    <2>0. copier[n].points + Cardinality(batch) \in Nat
      <3>1. batch \in SUBSET Points
        BY <1>5
      <3>2. Cardinality(batch) \in Nat
        BY ONLY <3>1, PointsFinite
      <3>3. copier[n].points \in Nat
        BY <1>1 DEF CopierTypes
      <3>. QED
        BY ONLY <3>2, <3>3
    <2>2. c \in CopierTypes /\ c.ref \in 0 .. HEAD
      BY <1>1, <2>0 DEF CopierTypes
    <2>3. tenant' = [tenant EXCEPT ![n] = t] /\ copier' = [copier EXCEPT ![n] = c]
      BY <1>5 DEF ScrollBatch, Holds
    <2>. QED
      BY <1>2, <1>5, <2>1, <2>2, <2>3 DEF ScrollBatch, LeaveRest, base
  <1>6. CASE CopyFirstPoints(n)
    BY <1>5, <1>6 DEF CopyFirstPoints, Phases
  <1>7. CASE CopyOtherPoints(n)
    BY <1>5, <1>7 DEF CopyOtherPoints, Phases
  <1>8. CASE CopySources(n)
    <2>. DEFINE c == [copier[n] EXCEPT !.at = "texts", !.read = sources]
    <2>1. c \in CopierTypes /\ c.ref \in 0 .. HEAD
      BY <1>1 DEF CopierTypes, Phases
    <2>2. tenant' = [tenant EXCEPT ![n] = tenant[n]] /\ copier' = [copier EXCEPT ![n] = c]
      BY <1>8 DEF CopySources
    <2>. QED
      BY <1>1, <1>2, <1>8, <2>1, <2>2 DEF CopySources, LeaveRest, base
  <1>9. CASE CopyClaims(n)
    <2>. DEFINE t == [tenant[n] EXCEPT !.rows = @ \cup copier[n].read, !.claims = @ \cup pg]
                c == [copier[n] EXCEPT !.at = "media", !.claims = Cardinality(tenant[n].claims \cup pg)]
    <2>1. t \in TenantTypes
      BY <1>1 DEF TenantTypes, CopierTypes
    <2>2. tenant[n].claims \cup pg \in SUBSET Points
      BY <1>1, Pairs DEF TenantTypes
    <2>3. c \in CopierTypes /\ c.ref \in 0 .. HEAD
      BY <1>1, <2>2, PointsFinite DEF CopierTypes, Phases
    <2>4. /\ tenant' = [tenant EXCEPT ![n] = t] /\ copier' = [copier EXCEPT ![n] = c]
          /\ UNCHANGED <<registry, deleter, history>>
      BY <1>9 DEF CopyClaims, Holds, base
    <2>5. past' \in [Snapshot -> [grew : BOOLEAN, purged : BOOLEAN, raced : BOOLEAN]]
      BY <1>9 DEF CopyClaims
    <2>. HIDE DEF t, c
    <2>. QED
      BY <1>2, <2>1, <2>3, <2>4, <2>5
  <1>10. CASE CopyMedia(n)
    <2>. DEFINE t == [tenant[n] EXCEPT !.media = @ \cup Images(n)]
                c == [copier[n] EXCEPT !.at = IF Images(n) = {} THEN "pin" ELSE "retarget",
                                       !.moved = Images(n)]
    <2>1. t \in TenantTypes
      BY <1>1, <1>4 DEF TenantTypes
    <2>2. c \in CopierTypes /\ c.ref \in 0 .. HEAD
      BY <1>1, <1>4 DEF CopierTypes, Phases
    <2>3. tenant' = [tenant EXCEPT ![n] = t] /\ copier' = [copier EXCEPT ![n] = c]
      BY <1>10 DEF CopyMedia, Holds
    <2>. QED
      BY <1>2, <1>10, <2>1, <2>2, <2>3 DEF CopyMedia, LeaveRest, base
  <1>11. CASE RewriteMediaKeys(n)
    <2>. DEFINE t == [tenant[n] EXCEPT !.own = @ \cup (copier[n].moved \cap Images(n))]
                c == [copier[n] EXCEPT !.at = "images",
                                       !.images = Cardinality(copier[n].moved \cap Images(n))]
    <2>1. t \in TenantTypes
      BY <1>1, <1>4 DEF TenantTypes
    <2>2. c \in CopierTypes /\ c.ref \in 0 .. HEAD
      BY <1>1, <1>4 DEF CopierTypes, Phases
    <2>3. tenant' = [tenant EXCEPT ![n] = t] /\ copier' = [copier EXCEPT ![n] = c]
      BY <1>11 DEF RewriteMediaKeys, Holds
    <2>. QED
      BY <1>2, <1>11, <2>1, <2>2, <2>3 DEF RewriteMediaKeys, LeaveRest, base
  <1>12. ASSUME NEW at \in Phases, NEW ref \in 0 .. HEAD,
                UNCHANGED <<tenant, registry, deleter, past, history>>,
                copier' = [copier EXCEPT ![n].at = at, ![n].ref = ref]
         PROVE  FrozenTypes' /\ Refs'
    <2>. DEFINE c == [copier[n] EXCEPT !.at = at, !.ref = ref]
    <2>1. c \in CopierTypes /\ c.ref \in 0 .. HEAD
      BY <1>0, <1>1 DEF CopierTypes
    <2>2. copier' = [copier EXCEPT ![n] = c] /\ tenant' = [tenant EXCEPT ![n] = tenant[n]]
      BY <1>12, <1>1
    <2>. QED
      BY <1>2, <1>1, <1>12, <2>1, <2>2
  <1>13. ASSUME NEW at \in Phases, Then(n, at), UNCHANGED <<registry, deleter, past, history>>,
                NEW t \in TenantTypes, tenant' = [tenant EXCEPT ![n] = t]
         PROVE  FrozenTypes' /\ Refs'
    <2>. DEFINE c == [copier[n] EXCEPT !.at = at]
    <2>1. c \in CopierTypes /\ c.ref \in 0 .. HEAD
      BY <1>1 DEF CopierTypes
    <2>2. copier' = [copier EXCEPT ![n] = c]
      BY <1>13 DEF Then
    <2>. QED
      BY <1>2, <1>13, <2>1, <2>2
  <1>14. tenant = [tenant EXCEPT ![n] = tenant[n]]
    OBVIOUS
  <1>15. CASE CopyBlocks(n)
    BY <1>1, <1>13, <1>14, <1>15 DEF CopyBlocks, LeaveRest, base, Phases
  <1>16. CASE CountImages(n)
    BY <1>1, <1>13, <1>14, <1>16 DEF CountImages, LeaveRest, base, Phases
  <1>17. CASE PinCanonical(n)
    <2>1. HEAD \in 0 .. HEAD /\ "blocks" \in Phases
      BY <1>0 DEF Phases
    <2>. QED
      BY <1>12, <1>17, <2>1 DEF PinCanonical, LeaveRest, base
  <1>18. CASE IndexBlocks(n)
    <2>. DEFINE t == [tenant[n] EXCEPT !.blocks = @ \cup tenant[n].rows]
    <2>1. t \in TenantTypes
      BY <1>1 DEF TenantTypes
    <2>. QED
      BY <1>13, <1>18, <2>1 DEF IndexBlocks, Holds, LeaveRest, base, Phases
  <1>19. CASE IndexClaims(n)
    <2>. DEFINE t == [tenant[n] EXCEPT !.lexical = tenant[n].claims]
    <2>1. t \in TenantTypes
      BY <1>1 DEF TenantTypes
    <2>. QED
      BY <1>13, <1>19, <2>1 DEF IndexClaims, Holds, LeaveRest, base, Phases
  <1>20. CASE CheckComplete(n)
    BY <1>1, <1>13, <1>14, <1>20 DEF CheckComplete, LeaveRest, base, Phases
  <1>21. ASSUME NEW status \in {"ready", "failed"}, NEW ref \in 0 .. HEAD, Settled(n, status, ref)
         PROVE  \E r \in RowTypes : r.ref \in 0 .. HEAD /\ registry' = [registry EXCEPT ![n] = r]
    <2>1. CASE registry[n].status = "deleted"
      <3>1. registry' = [registry EXCEPT ![n] = registry[n]]
        BY <1>21, <2>1 DEF Settled
      <3>. QED
        BY <1>1, <3>1
    <2>2. CASE registry[n].status # "deleted"
      <3>1. [status |-> status, ref |-> ref] \in RowTypes
        BY <1>0 DEF RowTypes
      <3>. QED
        BY <1>21, <2>2, <3>1 DEF Settled
    <2>. QED
      BY <2>1, <2>2
  <1>22. Idle \in CopierTypes /\ Idle.ref \in 0 .. HEAD
    BY <1>0 DEF Idle, CopierTypes, Phases
  <1>23. [copier[n] EXCEPT !.at = "failing"] \in CopierTypes
         /\ [copier[n] EXCEPT !.at = "failing"].ref \in 0 .. HEAD
    BY <1>1 DEF CopierTypes, Phases
  <1>24. CASE FinishReady(n)
    <2>1. PICK r \in RowTypes : r.ref \in 0 .. HEAD /\ registry' = [registry EXCEPT ![n] = r]
      BY <1>1, <1>21, <1>24 DEF FinishReady
    <2>2. \/ copier' = [copier EXCEPT ![n] = Idle]
          \/ copier' = [copier EXCEPT ![n] = [copier[n] EXCEPT !.at = "failing"]]
      BY <1>24 DEF FinishReady, Then
    <2>. QED
      BY <1>3, <1>22, <1>23, <1>24, <2>1, <2>2 DEF FinishReady, base
  <1>25. CASE CopyFails(n)
    BY <1>1, <1>13, <1>14, <1>25 DEF CopyFails, base, Phases
  <1>26. CASE FinishFailed(n)
    <2>1. PICK r \in RowTypes : r.ref \in 0 .. HEAD /\ registry' = [registry EXCEPT ![n] = r]
      <3>1. CASE UNCHANGED registry
        <4>1. registry' = [registry EXCEPT ![n] = registry[n]]
          BY <3>1
        <4>. QED
          BY <4>1, <1>1
      <3>2. CASE Settled(n, "failed", registry[n].ref)
        BY <3>2, <1>1, <1>21
      <3>. QED
        BY <1>26, <3>1, <3>2 DEF FinishFailed
    <2>. QED
      BY <1>3, <1>22, <1>26, <2>1 DEF FinishFailed, base
  <1>. QED
    BY <1>6, <1>7, <1>8, <1>10, <1>11, <1>16, <1>17, <1>18, <1>19, <1>20, <1>24, <1>25, <1>26,
       <1>9, <1>15 DEF Copy

\* What the copy of n leaves alone.
LEMMA CopyLeaves ==
  ASSUME Types, NEW n \in Snapshot, Copy(n)
  PROVE  /\ UNCHANGED <<base, deleter>> /\ copier[n].at # "idle"
         /\ \A m \in Snapshot \ {n} : UNCHANGED <<registry[m], tenant[m], copier[m], past[m]>>
         /\ UNCHANGED <<past[n].purged, past[n].raced>>
         /\ copier[n].at # "claims" => UNCHANGED past[n].grew
         /\ \/ registry[n]' = registry[n]
            \/ registry[n].status # "deleted" /\ registry[n].status' \in {"ready", "failed"}
  <1>. USE DEF Types, FrozenTypes
  <1>1. UNCHANGED past \/ CopyClaims(n)
    BY DEF Copy, CopyFirstPoints, CopyOtherPoints, ScrollBatch, CopySources, CopyBlocks, CopyMedia,
         RewriteMediaKeys, CountImages, PinCanonical, IndexBlocks, IndexClaims, CheckComplete,
         FinishReady, CopyFails, FinishFailed, LeaveRest
  <1>2. /\ \A m \in Snapshot \ {n} : UNCHANGED past[m]
        /\ UNCHANGED <<past[n].purged, past[n].raced>>
        /\ copier[n].at # "claims" => UNCHANGED past[n].grew
    BY <1>1 DEF CopyClaims, Copying
  <1>3. /\ UNCHANGED <<base, deleter>> /\ copier[n].at # "idle"
        /\ \A m \in Snapshot \ {n} : UNCHANGED <<tenant[m], copier[m]>>
    BY DEF Copy, CopyFirstPoints, CopyOtherPoints, ScrollBatch, CopySources, CopyBlocks, CopyClaims, CopyMedia,
         RewriteMediaKeys, CountImages, PinCanonical, IndexBlocks, IndexClaims, CheckComplete,
         FinishReady, CopyFails, FinishFailed, LeaveRest, Copying, Then, Holds
  <1>4. \/ UNCHANGED registry
        \/ \E status \in {"ready", "failed"} : \E ref : Settled(n, status, ref)
    BY DEF Copy, CopyFirstPoints, CopyOtherPoints, ScrollBatch, CopySources, CopyBlocks, CopyClaims, CopyMedia,
         RewriteMediaKeys, CountImages, PinCanonical, IndexBlocks, IndexClaims, CheckComplete,
         FinishReady, CopyFails, FinishFailed, LeaveRest
  <1>5. ASSUME NEW status \in {"ready", "failed"}, NEW ref, Settled(n, status, ref)
        PROVE  /\ \A m \in Snapshot \ {n} : UNCHANGED registry[m]
               /\ \/ registry[n]' = registry[n]
                  \/ registry[n].status # "deleted" /\ registry[n].status' \in {"ready", "failed"}
    BY <1>5 DEF Settled
  <1>. QED
    BY <1>3, <1>4, <1>5, <1>2

LEMMA DeleteTypes ==
  ASSUME Types, NEW n \in Snapshot, Create(n) \/ Delete(n)
  PROVE  FrozenTypes' /\ Refs'
  <1>. USE DEF Types, BaseTypes, FrozenTypes
  <1>1. /\ HEAD \in Nat /\ HEAD \in 0 .. HEAD /\ 0 \in 0 .. HEAD
        /\ tenant[n] \in TenantTypes /\ registry[n] \in RowTypes
        /\ registry[n].ref \in 0 .. HEAD
    BY DEF HEAD, Refs
  <1>2. CASE Create(n)
    <2>. DEFINE r == [status |-> "creating", ref |-> HEAD]
                c == [Idle EXCEPT !.at = "points"]
    <2>1. r \in RowTypes /\ r.ref = HEAD
      BY <1>1 DEF RowTypes
    <2>2. c \in CopierTypes /\ c.ref = 0
      BY DEF CopierTypes, Idle, Phases
    <2>3. /\ registry' = [registry EXCEPT ![n] = r] /\ UNCHANGED <<base, tenant, deleter, past>>
          /\ copier' = [copier EXCEPT ![n] = c] \/ copier' = copier
      BY <1>2 DEF Create
    <2>. HIDE DEF r, c
    <2>. QED
      BY <1>1, <2>1, <2>2, <2>3 DEF base, Refs, HEAD
  <1>3. ASSUME NEW r \in RowTypes, r.ref \in 0 .. HEAD, NEW t \in TenantTypes,
               NEW d \in {"idle", "vectors", "lexical", "media", "rows", "registry"},
               registry' = [registry EXCEPT ![n] = r], tenant' = [tenant EXCEPT ![n] = t],
               deleter' = [deleter EXCEPT ![n] = d], UNCHANGED <<history, copier>>,
               past' \in [Snapshot -> [grew : BOOLEAN, purged : BOOLEAN, raced : BOOLEAN]]
        PROVE  FrozenTypes' /\ Refs'
    BY <1>3 DEF Refs, HEAD
  <1>4. registry = [registry EXCEPT ![n] = registry[n]] /\ tenant = [tenant EXCEPT ![n] = tenant[n]]
    OBVIOUS
  <1>5. CASE RequestDelete(n)
    BY <1>1, <1>3, <1>4, <1>5 DEF RequestDelete, Toward, base
  <1>6. ASSUME NEW at, NEW next \in {"lexical", "media", "rows", "registry"}, NEW t \in TenantTypes,
               Purge(n, at, next, t), past' \in [Snapshot -> [grew : BOOLEAN, purged : BOOLEAN, raced : BOOLEAN]]
        PROVE  FrozenTypes' /\ Refs'
    BY <1>1, <1>3, <1>4, <1>6 DEF Purge, Toward, Holds, base
  <1>7. CASE PurgeVectors(n)
    <2>1. [tenant[n] EXCEPT !.points = {}] \in TenantTypes
      BY <1>1 DEF TenantTypes
    <2>2. past' \in [Snapshot -> [grew : BOOLEAN, purged : BOOLEAN, raced : BOOLEAN]]
      BY <1>7 DEF PurgeVectors
    <2>. QED
      BY <1>6, <1>7, <2>1, <2>2 DEF PurgeVectors
  <1>8. CASE PurgeLexical(n)
    <2>1. [tenant[n] EXCEPT !.blocks = {}, !.lexical = {}] \in TenantTypes
      BY <1>1 DEF TenantTypes
    <2>. QED
      BY <1>6, <1>8, <2>1 DEF PurgeLexical
  <1>9. CASE PurgeMedia(n)
    <2>1. [tenant[n] EXCEPT !.media = {}] \in TenantTypes
      BY <1>1 DEF TenantTypes
    <2>. QED
      BY <1>6, <1>9, <2>1 DEF PurgeMedia
  <1>10. CASE PurgeRows(n)
    <2>1. [tenant[n] EXCEPT !.rows = {}, !.claims = {}, !.own = {}] \in TenantTypes
      BY <1>1 DEF TenantTypes
    <2>. QED
      BY <1>6, <1>10, <2>1 DEF PurgeRows
  <1>11. CASE DropRow(n)
    <2>. DEFINE r == [registry[n] EXCEPT !.status = "deleted"]
    <2>1. r \in RowTypes /\ r.ref \in 0 .. HEAD
      BY <1>1 DEF RowTypes
    <2>2. registry' = [registry EXCEPT ![n] = r]
      BY <1>11 DEF DropRow
    <2>. QED
      BY <1>1, <1>3, <1>4, <1>11, <2>1, <2>2 DEF DropRow, Toward, base
  <1>12. CASE DeleteFails(n)
    BY <1>1, <1>3, <1>4, <1>12 DEF DeleteFails, Toward, base
  <1>. QED
    BY <1>2, <1>5, <1>7, <1>8, <1>9, <1>10, <1>11, <1>12 DEF Delete

LEMMA TypesInductive ==
  ASSUME Types, BaseInv, [Next]_vars
  PROVE  Types' /\ BaseInv'
  <1>1. ASSUME UNCHANGED base PROVE BaseTypes' /\ BaseInv'
    BY <1>1 DEF base, Types, BaseTypes, BaseInv, Recorded, Keys, HEAD
  <1>2. HEAD \in Nat /\ HEAD <= HEAD'
    BY StepGrows DEF Types, BaseTypes, HEAD, Grows
  <1>3. ASSUME UNCHANGED frozen, BaseTypes' PROVE FrozenTypes' /\ Refs'
    <2>1. HEAD' \in Nat
      BY <1>3 DEF BaseTypes, HEAD
    <2>. QED
      BY <1>2, <1>3, <2>1 DEF frozen, Types, FrozenTypes, Refs
  <1>4. CASE Base
    <2>1. UNCHANGED frozen
      BY <1>4 DEF Base, ImportSource, DeleteChunks, UpsertChunks, Commit, Projection, SyncPlan,
           SyncDeletes, SyncUpserts, SyncManifest, RebuildRows, RebuildDrops, RebuildPuts, ProjectionCut
    <2>. QED
      BY <1>3, <1>4, <2>1, BaseStep DEF Types
  <1>5. CASE UNCHANGED vars
    BY <1>1, <1>3, <1>5 DEF vars, Types
  <1>6. CASE ApiDies
    <2>1. Idle \in CopierTypes /\ Idle.ref \in 0 .. HEAD
      BY <1>2 DEF Idle, CopierTypes, Phases
    <2>2. UNCHANGED base
      BY <1>6 DEF ApiDies
    <2>3. FrozenTypes' /\ Refs'
      BY <1>6, <2>1, <2>2 DEF ApiDies, Types, FrozenTypes, Refs, HEAD, base
    <2>. QED
      BY <1>1, <2>2, <2>3 DEF Types
  <1>7. ASSUME NEW n \in Snapshot, Create(n) \/ Copy(n) \/ Delete(n) PROVE Types' /\ BaseInv'
    <2>1. CASE Copy(n)
      BY <1>1, <2>1, CopyLeaves, CopyTypes DEF Types
    <2>2. CASE Create(n) \/ Delete(n)
      <3>1. UNCHANGED base
        BY <2>2 DEF Create, Delete, RequestDelete, PurgeVectors, PurgeLexical, PurgeMedia, PurgeRows,
             Purge, DropRow, DeleteFails
      <3>. QED
        BY <1>1, <2>2, <3>1, DeleteTypes DEF Types
    <2>. QED
      BY <1>7, <2>1, <2>2
  <1>. QED
    BY <1>4, <1>5, <1>6, <1>7 DEF Next
-----------------------------------------------------------------------------
(* The copy. *)

\* What a snapshot's copy has established stays while the base grows.
LEMMA PhaseStays ==
  ASSUME Types, BaseTypes', Grows, NEW n \in Snapshot, PhaseInv(n),
         UNCHANGED <<registry[n], tenant[n], copier[n], past[n]>>
  PROVE  PhaseInv(n)'
  <1>. USE DEF Types, BaseTypes
  <1>1. /\ history \in Seq(Trees) /\ history' \in Seq(Trees) /\ HEAD \in 0 .. Len(history)
        /\ registry[n].ref \in 0 .. Len(history) /\ copier[n].ref \in 0 .. Len(history)
    BY DEF Refs, HEAD
  <1>2. \A k \in 0 .. Len(history) : Recorded(k) \subseteq Recorded(k)' /\ Recorded(k) \subseteq Recorded(HEAD)'
    BY <1>1, RecordedGrows
  <1>3. /\ Recorded(HEAD) \subseteq Recorded(HEAD)'
        /\ Recorded(copier[n].ref) \subseteq Recorded(copier[n].ref)'
        /\ Recorded(registry[n].ref) \subseteq Recorded(registry[n].ref)'
    BY <1>1, <1>2
  <1>4. sources \subseteq sources'
    BY DEF Grows
  <1>5. Answers(n)' = Answers(n) /\ Images(n)' = Images(n) /\ Complete(n)' = Complete(n)
    BY DEF Answers, Images, Complete, ChunkPoints
  <1>6. Whole(n, registry[n].ref) => Whole(n, registry[n].ref)'
    BY <1>3, <1>5 DEF Whole, Sourced, ChunkPoints
  <1>. QED
    BY <1>3, <1>4, <1>5, <1>6 DEF PhaseInv, Sourced

\* One step of the copy keeps what its phase has established, or establishes the next phase's.
LEMMA CopyPhase ==
  ASSUME Types, BaseInv, NEW n \in Snapshot, PhaseInv(n), Copy(n)
  PROVE  PhaseInv(n)'
  <1>. USE DEF Types, FrozenTypes
  <1>1. /\ UNCHANGED base /\ copier[n].at # "idle"
        /\ tenant[n] \in TenantTypes /\ copier[n] \in CopierTypes
        /\ tenant' \in [Snapshot -> TenantTypes] /\ copier' \in [Snapshot -> CopierTypes]
    BY CopyLeaves, CopyTypes
  <1>2. UNCHANGED <<sources, history, points, pg>> /\ HEAD' = HEAD
    BY <1>1 DEF base, HEAD
  <1>3. /\ \A k : Recorded(k)' = Recorded(k)
        /\ copier[n].at # "claims" => past[n].grew' = past[n].grew
    BY <1>2, CopyLeaves DEF Recorded, Keys
  <1>4. ASSUME copier[n].at # "failing", registry' = registry PROVE ~ Answers(n)'
    BY <1>1, <1>4 DEF PhaseInv, Answers
  <1>5. \A ps \in SUBSET Points : IsFiniteSet(ps) /\ Cardinality(ps) \in Nat
    BY PointsFinite
  <1>6. CASE CopyFirstPoints(n)
    <2>1. /\ copier[n].at = "points" /\ registry' = registry
          /\ copier[n]' = [copier[n] EXCEPT !.at = "rest",
                                            !.points = @ + Cardinality(points \cap FirstBatch)]
          /\ tenant[n]' = [tenant[n] EXCEPT !.points = @ \cup (points \cap FirstBatch)]
      BY <1>1, <1>6 DEF CopyFirstPoints, ScrollBatch, Copying, Holds, LeaveRest
    <2>2. tenant[n] = NoTenant /\ copier[n].points = 0
      BY <2>1 DEF PhaseInv
    <2>3. Cardinality(points \cap FirstBatch) \in Nat
      BY <1>5 DEF BaseTypes
    <2>4. /\ tenant[n]' = [NoTenant EXCEPT !.points = points \cap FirstBatch]
          /\ tenant[n].points' = points \cap FirstBatch
          /\ copier[n].at' = "rest" /\ copier[n].points' = Cardinality(points \cap FirstBatch)
      BY <1>1, <2>1, <2>2, <2>3 DEF NoTenant, CopierTypes
    <2>5. \A p \in points \cap FirstBatch : p[1] \in sources'
      BY <1>2 DEF BaseInv
    <2>. QED
      BY <1>4, <2>1, <2>4, <2>5 DEF PhaseInv, Sourced, InRows, AfterRows, AfterImages, AfterPin
  <1>7. CASE CopyOtherPoints(n)
    <2>. DEFINE batch == points \ FirstBatch
    <2>1. /\ copier[n].at = "rest" /\ registry' = registry
          /\ copier[n]' = [copier[n] EXCEPT !.at = "rows", !.points = @ + Cardinality(batch)]
          /\ tenant[n]' = [tenant[n] EXCEPT !.points = @ \cup batch]
      BY <1>1, <1>7 DEF CopyOtherPoints, ScrollBatch, Copying, Holds, LeaveRest
    <2>2. /\ tenant[n].points \subseteq FirstBatch /\ copier[n].points = Cardinality(tenant[n].points)
          /\ tenant[n] = [NoTenant EXCEPT !.points = tenant[n].points]
          /\ Sourced(tenant[n].points, sources)
      BY <2>1 DEF PhaseInv
    <2>3. tenant[n].points \in SUBSET Points /\ batch \in SUBSET Points
      BY <1>1 DEF TenantTypes, BaseTypes
    <2>4. tenant[n].points \cap batch = {}
      BY <2>2
    <2>5. Cardinality(tenant[n].points \cup batch) = Cardinality(tenant[n].points) + Cardinality(batch)
      <3>1. /\ Cardinality(tenant[n].points \cup batch) =
                   Cardinality(tenant[n].points) + Cardinality(batch) - Cardinality({})
        BY <1>5, <2>3, <2>4, FS_Union
      <3>. QED
        BY <1>5, <2>3, <3>1, FS_EmptySet
    <2>6. /\ tenant[n]' = [NoTenant EXCEPT !.points = tenant[n].points \cup batch]
          /\ tenant[n].points' = tenant[n].points \cup batch
          /\ copier[n].at' = "rows" /\ copier[n].points' = Cardinality(tenant[n].points \cup batch)
      <3>1. /\ tenant[n]' = [NoTenant EXCEPT !.points = tenant[n].points \cup batch]
            /\ tenant[n].points' = tenant[n].points \cup batch
        BY <2>1, <2>2 DEF NoTenant
      <3>2. copier[n].at' = "rows" /\ copier[n].points' = Cardinality(tenant[n].points \cup batch)
        BY <1>1, <2>1, <2>2, <2>5 DEF CopierTypes
      <3>. QED
        BY <3>1, <3>2
    <2>7. \A p \in tenant[n].points \cup batch : p[1] \in sources'
      BY <1>2, <2>2 DEF BaseInv, Sourced
    <2>. QED
      BY <1>4, <2>1, <2>6, <2>7 DEF PhaseInv, Sourced, InRows, AfterRows, AfterImages, AfterPin
  <1>8. CASE CopySources(n)
    <2>1. /\ copier[n].at = "rows" /\ registry' = registry /\ tenant' = tenant
          /\ copier[n]' = [copier[n] EXCEPT !.at = "texts", !.read = sources]
      BY <1>1, <1>8 DEF CopySources, Copying, LeaveRest
    <2>2. /\ copier[n].at' = "texts" /\ copier[n].read' = sources
          /\ copier[n].points' = copier[n].points
      BY <1>1, <2>1 DEF CopierTypes
    <2>. QED
      BY <1>2, <1>4, <2>1, <2>2 DEF PhaseInv, Sourced, InRows, AfterRows, AfterImages, AfterPin
  <1>9. CASE CopyBlocks(n)
    <2>1. /\ copier[n].at = "texts" /\ registry' = registry /\ tenant' = tenant
          /\ \E at \in {"claims", "failing"} : copier[n]' = [copier[n] EXCEPT !.at = at]
      BY <1>1, <1>9 DEF CopyBlocks, Copying, Then, LeaveRest
    <2>2. /\ copier[n].at' \in {"claims", "failing"} /\ copier[n].read' = copier[n].read
          /\ copier[n].points' = copier[n].points
      BY <1>1, <2>1 DEF CopierTypes
    <2>. QED
      BY <1>2, <1>4, <2>1, <2>2 DEF PhaseInv, Sourced, InRows, AfterRows, AfterImages, AfterPin
  <1>10. CASE CopyClaims(n)
    <2>1. /\ copier[n].at = "claims" /\ registry' = registry
          /\ copier[n]' = [copier[n] EXCEPT !.at = "media",
                                            !.claims = Cardinality(tenant[n].claims \cup pg)]
          /\ tenant[n]' = [tenant[n] EXCEPT !.rows = @ \cup copier[n].read, !.claims = @ \cup pg]
      BY <1>1, <1>10 DEF CopyClaims, Copying, Holds
    <2>2. /\ tenant[n].rows = {} /\ tenant[n].claims = {} /\ tenant[n].blocks = {}
          /\ copier[n].points = Cardinality(tenant[n].points)
          /\ Sourced(tenant[n].points, copier[n].read)
      BY <2>1 DEF PhaseInv, NoTenant, InRows
    <2>3. /\ tenant[n].rows' = copier[n].read /\ tenant[n].claims' = pg /\ tenant[n].blocks' = {}
          /\ tenant[n].points' = tenant[n].points
          /\ copier[n].at' = "media" /\ copier[n].claims' = Cardinality(pg)
          /\ copier[n].points' = copier[n].points
      BY <1>1, <2>1, <2>2 DEF TenantTypes, CopierTypes
    <2>4. pg \subseteq Recorded(HEAD)' /\ \A p \in pg : p[1] \in sources
      BY <1>2, <1>3 DEF BaseInv
    <2>5. past[n].grew' \/ copier[n].read = sources
      <3>1. CASE copier[n].read = sources
        BY <3>1
      <3>2. CASE copier[n].read # sources
        <4>1. (sources # copier[n].read) = TRUE
          BY <3>2
        <4>2. past' = [past EXCEPT ![n].grew = TRUE]
          BY <1>10, <4>1 DEF CopyClaims
        <4>. QED
          BY <4>2
      <3>. QED
        BY <3>1, <3>2
    <2>. QED
      BY <1>4, <2>1, <2>2, <2>3, <2>4, <2>5 DEF PhaseInv, Sourced, InRows, AfterRows, AfterImages, AfterPin
  <1>11. CASE CopyMedia(n)
    <2>1. /\ copier[n].at = "media" /\ registry' = registry
          /\ copier[n]' = [copier[n] EXCEPT !.at = IF Images(n) = {} THEN "pin" ELSE "retarget",
                                            !.moved = Images(n)]
          /\ tenant[n]' = [tenant[n] EXCEPT !.media = @ \cup Images(n)]
      BY <1>1, <1>11 DEF CopyMedia, Copying, Holds, LeaveRest
    <2>2. /\ \A f \in {"points", "rows", "claims", "blocks", "own"} : tenant[n][f]' = tenant[n][f]
          /\ tenant[n].media' = tenant[n].media \cup Images(n) /\ Images(n)' = Images(n)
          /\ copier[n].at' = IF Images(n) = {} THEN "pin" ELSE "retarget"
          /\ copier[n].moved' = Images(n) /\ copier[n].points' = copier[n].points
          /\ copier[n].claims' = copier[n].claims
      BY <1>1, <2>1 DEF TenantTypes, CopierTypes, Images
    <2>. QED
      BY <1>2, <1>3, <1>4, <2>1, <2>2 DEF PhaseInv, Sourced, InRows, AfterRows, AfterImages, AfterPin
  <1>12. CASE RewriteMediaKeys(n)
    <2>1. /\ copier[n].at = "retarget" /\ registry' = registry
          /\ copier[n]' = [copier[n] EXCEPT !.at = "images",
                                            !.images = Cardinality(copier[n].moved \cap Images(n))]
          /\ tenant[n]' = [tenant[n] EXCEPT !.own = @ \cup (copier[n].moved \cap Images(n))]
      BY <1>1, <1>12 DEF RewriteMediaKeys, Copying, Holds, LeaveRest
    <2>2. /\ \A f \in {"points", "rows", "claims", "blocks", "media"} : tenant[n][f]' = tenant[n][f]
          /\ tenant[n].own' = tenant[n].own \cup (copier[n].moved \cap Images(n))
          /\ Images(n)' = Images(n) /\ copier[n].at' = "images" /\ copier[n].moved' = copier[n].moved
          /\ copier[n].points' = copier[n].points /\ copier[n].claims' = copier[n].claims
      BY <1>1, <2>1 DEF TenantTypes, CopierTypes, Images
    <2>. QED
      BY <1>2, <1>3, <1>4, <2>1, <2>2 DEF PhaseInv, Sourced, InRows, AfterRows, AfterImages, AfterPin
  <1>13. CASE CountImages(n)
    <2>1. /\ copier[n].at = "images" /\ registry' = registry
          /\ \E at \in {"pin", "failing"} : copier[n]' = [copier[n] EXCEPT !.at = at]
          /\ tenant[n]' = tenant[n]
      BY <1>1, <1>13 DEF CountImages, Copying, Then, LeaveRest
    <2>2. /\ copier[n].at' \in {"pin", "failing"} /\ Images(n)' = Images(n)
          /\ copier[n].points' = copier[n].points /\ copier[n].claims' = copier[n].claims
      BY <1>1, <2>1 DEF CopierTypes, Images
    <2>. QED
      BY <1>2, <1>3, <1>4, <2>1, <2>2 DEF PhaseInv, Sourced, InRows, AfterRows, AfterImages, AfterPin
  <1>14. CASE PinCanonical(n)
    <2>1. /\ copier[n].at = "pin" /\ registry' = registry
          /\ copier[n]' = [copier[n] EXCEPT !.at = "blocks", !.ref = HEAD]
          /\ tenant[n]' = tenant[n]
      BY <1>1, <1>14 DEF PinCanonical, Copying, LeaveRest
    <2>2. /\ copier[n].at' = "blocks" /\ copier[n].ref' = HEAD /\ Images(n)' = Images(n)
          /\ copier[n].points' = copier[n].points /\ copier[n].claims' = copier[n].claims
      BY <1>1, <2>1 DEF CopierTypes, Images
    <2>. QED
      BY <1>2, <1>3, <1>4, <2>1, <2>2 DEF PhaseInv, Sourced, InRows, AfterRows, AfterImages, AfterPin
  <1>15. CASE IndexBlocks(n)
    <2>1. /\ copier[n].at = "blocks" /\ registry' = registry
          /\ copier[n]' = [copier[n] EXCEPT !.at = "lexical"]
          /\ tenant[n]' = [tenant[n] EXCEPT !.blocks = @ \cup tenant[n].rows]
      BY <1>1, <1>15 DEF IndexBlocks, Copying, Then, Holds, LeaveRest
    <2>2. /\ \A f \in {"points", "rows", "claims", "own", "media"} : tenant[n][f]' = tenant[n][f]
          /\ tenant[n].blocks' = tenant[n].blocks \cup tenant[n].rows
          /\ copier[n].at' = "lexical" /\ Images(n)' = Images(n) /\ copier[n].ref' = copier[n].ref
          /\ copier[n].points' = copier[n].points /\ copier[n].claims' = copier[n].claims
      BY <1>1, <2>1 DEF CopierTypes, TenantTypes, Images
    <2>. QED
      BY <1>2, <1>3, <1>4, <2>1, <2>2 DEF PhaseInv, Sourced, InRows, AfterRows, AfterImages, AfterPin
  <1>16. CASE IndexClaims(n)
    <2>1. /\ copier[n].at = "lexical" /\ registry' = registry
          /\ copier[n]' = [copier[n] EXCEPT !.at = "check"]
          /\ tenant[n]' = [tenant[n] EXCEPT !.lexical = tenant[n].claims]
      BY <1>1, <1>16 DEF IndexClaims, Copying, Then, Holds, LeaveRest
    <2>2. /\ \A f \in {"points", "rows", "claims", "blocks", "own", "media"} : tenant[n][f]' = tenant[n][f]
          /\ tenant[n].lexical' = tenant[n].claims
          /\ copier[n].at' = "check" /\ Images(n)' = Images(n) /\ copier[n].ref' = copier[n].ref
          /\ copier[n].points' = copier[n].points /\ copier[n].claims' = copier[n].claims
      BY <1>1, <2>1 DEF CopierTypes, TenantTypes, Images
    <2>. QED
      BY <1>2, <1>3, <1>4, <2>1, <2>2 DEF PhaseInv, Sourced, InRows, AfterRows, AfterImages, AfterPin
  <1>17. CASE CheckComplete(n)
    <2>1. /\ copier[n].at = "check" /\ registry' = registry
          /\ copier[n]' = [copier[n] EXCEPT !.at = IF Complete(n) THEN "finish" ELSE "failing"]
          /\ tenant[n]' = tenant[n]
      BY <1>1, <1>17 DEF CheckComplete, Copying, Then, LeaveRest
    <2>2. /\ copier[n].at' = IF Complete(n) THEN "finish" ELSE "failing"
          /\ Images(n)' = Images(n) /\ copier[n].ref' = copier[n].ref
          /\ copier[n].points' = copier[n].points /\ copier[n].claims' = copier[n].claims
          /\ Complete(n)' = Complete(n)
      BY <1>1, <2>1 DEF CopierTypes, Images, Complete, ChunkPoints
    <2>. QED
      BY <1>2, <1>3, <1>4, <2>1, <2>2 DEF PhaseInv, Sourced, InRows, AfterRows, AfterImages, AfterPin
  <1>18. CASE FinishReady(n)
    <2>1. /\ copier[n].at = "finish" /\ Settled(n, "ready", copier[n].ref) /\ tenant[n]' = tenant[n]
          /\ copier[n]' = Idle \/ copier[n]' = [copier[n] EXCEPT !.at = "failing"]
      BY <1>1, <1>18 DEF FinishReady, Copying, Then
    <2>2. copier[n].at' \in {"idle", "failing"}
      BY <1>1, <2>1 DEF Idle, CopierTypes
    <2>3. Whole(n, copier[n].ref)
      <3>1. /\ Complete(n) /\ copier[n].points = Cardinality(tenant[n].points)
            /\ copier[n].claims = Cardinality(tenant[n].claims)
        BY <2>1 DEF PhaseInv, AfterRows
      <3>2. Cardinality(tenant[n].points) =
                Cardinality(ChunkPoints(tenant[n].points)) + Cardinality(tenant[n].claims)
        BY <3>1 DEF Complete
      <3>. QED
        BY <2>1, <3>2 DEF PhaseInv, Whole, InRows, AfterRows, AfterImages, AfterPin
    <2>5. ASSUME Answers(n)' PROVE Whole(n, registry[n].ref)'
      <3>1. registry[n].status' = "ready" /\ registry[n].status # "deleted"
        BY <2>1, <2>5 DEF Answers, Settled
      <3>2. registry[n].ref' = copier[n].ref
        BY <2>1, <3>1 DEF Settled
      <3>. QED
        BY <1>3, <2>1, <2>3, <3>2 DEF Whole, Sourced, Images, ChunkPoints
    <2>. QED
      BY <2>2, <2>5 DEF PhaseInv, InRows, AfterRows, AfterImages, AfterPin
  <1>19. CASE CopyFails(n)
    <2>1. /\ copier[n].at \notin {"idle", "failing"} /\ registry' = registry
          /\ copier[n]' = [copier[n] EXCEPT !.at = "failing"]
      BY <1>1, <1>19 DEF CopyFails, Then
    <2>2. copier[n].at' = "failing"
      BY <1>1, <2>1 DEF CopierTypes
    <2>. QED
      BY <1>4, <2>1, <2>2 DEF PhaseInv, InRows, AfterRows, AfterImages, AfterPin
  <1>20. CASE FinishFailed(n)
    <2>1. /\ UNCHANGED registry \/ Settled(n, "failed", registry[n].ref)
          /\ copier[n]' = Idle /\ tenant[n]' = tenant[n] /\ copier[n].at = "failing"
      BY <1>1, <1>20 DEF FinishFailed, Copying
    <2>2. Answers(n)' => Answers(n) /\ registry[n].ref' = registry[n].ref
      BY <2>1 DEF Answers, Settled
    <2>3. Answers(n)' => Whole(n, registry[n].ref)'
      BY <1>3, <2>1, <2>2 DEF PhaseInv, Whole, Sourced, Images, ChunkPoints
    <2>. QED
      BY <2>1, <2>3 DEF PhaseInv, Idle, InRows, AfterRows, AfterImages, AfterPin
  <1>. QED
    BY <1>6, <1>7, <1>8, <1>11, <1>12, <1>13, <1>14, <1>15, <1>16, <1>17, <1>18, <1>19, <1>20,
       <1>9, <1>10 DEF Copy
-----------------------------------------------------------------------------
(* The deletion. *)

LEMMA DeleteStays ==
  ASSUME NEW n \in Snapshot, DeleteInv(n),
         UNCHANGED <<registry[n], tenant[n], copier[n], deleter[n], past[n]>>
  PROVE  DeleteInv(n)'
  BY DEF DeleteInv, Emptied

\* A copy goes on over a deletion only where past says that they met.
LEMMA CopyBesideDelete ==
  ASSUME Types, NEW n \in Snapshot, DeleteInv(n), Copy(n)
  PROVE  DeleteInv(n)'
  <1>1. /\ copier[n].at # "idle" /\ UNCHANGED <<deleter, past[n].purged, past[n].raced>>
        /\ \/ registry[n]' = registry[n]
           \/ registry[n].status # "deleted" /\ registry[n].status' \in {"ready", "failed"}
    BY CopyLeaves
  <1>2. copier[n] # Idle
    BY <1>1 DEF Idle
  <1>3. registry[n].status # "none" /\ (past[n].purged => past[n].raced)
    BY <1>2 DEF DeleteInv
  <1>. QED
    BY <1>1, <1>3 DEF DeleteInv

LEMMA DeleteStep ==
  ASSUME Types, BaseTypes', NEW n \in Snapshot, CopyInv(n), DeleteInv(n), Delete(n)
  PROVE  CopyInv(n)' /\ DeleteInv(n)'
  <1>. USE DEF Types, FrozenTypes
  <1>1. tenant[n] \in TenantTypes /\ registry[n] \in RowTypes
    OBVIOUS
  <1>2. ASSUME UNCHANGED base PROVE Grows
    BY <1>2 DEF base, Grows, BaseTypes
  <1>3. ASSUME UNCHANGED <<base, registry, tenant, copier, past>> PROVE CopyInv(n)'
    BY <1>2, <1>3, PhaseStays DEF CopyInv
  <1>4. CASE RequestDelete(n)
    <2>1. /\ deleter[n] = "idle" /\ deleter[n]' = "vectors"
          /\ registry[n].status \in {"creating", "ready", "failed"}
          /\ UNCHANGED <<base, registry, tenant, copier, past>>
      BY <1>4 DEF RequestDelete, Deleting, Toward
    <2>. QED
      BY <1>3, <2>1 DEF DeleteInv, Emptied
  <1>5. CASE DeleteFails(n)
    <2>1. /\ deleter[n] # "idle" /\ deleter[n]' = "idle"
          /\ UNCHANGED <<base, registry, tenant, copier, past>>
      BY <1>5 DEF DeleteFails, Toward
    <2>. QED
      BY <1>3, <2>1 DEF DeleteInv, Emptied
  <1>6. CASE PurgeVectors(n)
    <2>1. /\ deleter[n] = "vectors" /\ deleter[n]' = "lexical"
          /\ UNCHANGED <<registry, copier>> /\ tenant[n].points' = {}
          /\ past[n]' = [past[n] EXCEPT !.purged = TRUE, !.raced = copier[n] # Idle]
      BY <1>1, <1>6 DEF PurgeVectors, Purge, Deleting, Toward, Holds, TenantTypes
    <2>2. past[n].purged' /\ (~ past[n].raced' => copier[n]' = Idle)
      <3>1. CASE copier[n] = Idle
        BY <2>1, <3>1
      <3>2. CASE copier[n] # Idle
        <4>1. past[n]' = [past[n] EXCEPT !.purged = TRUE, !.raced = TRUE]
          BY <2>1, <3>2, Zenon
        <4>. QED
          BY <4>1
      <3>. QED
        BY <3>1, <3>2
    <2>3. registry[n].status \notin {"none", "deleted"}
      BY <2>1 DEF DeleteInv
    <2>4. CopyInv(n)'
      BY <2>2 DEF CopyInv
    <2>5. Emptied(n)'
      BY <2>1, <2>3 DEF Emptied
    <2>6. registry[n].status' \notin {"none", "deleted"}
      BY <2>1, <2>3
    <2>. QED
      BY <2>2, <2>4, <2>5, <2>6 DEF DeleteInv
  <1>7. CASE PurgeLexical(n)
    <2>1. /\ deleter[n] = "lexical" /\ deleter[n]' = "media"
          /\ UNCHANGED <<registry, copier, past>> /\ tenant[n].points' = tenant[n].points
          /\ tenant[n].blocks' = {} /\ tenant[n].lexical' = {}
      BY <1>1, <1>7 DEF PurgeLexical, Purge, Deleting, Toward, Holds, TenantTypes
    <2>. QED
      BY <2>1 DEF CopyInv, DeleteInv, Emptied
  <1>8. CASE PurgeMedia(n)
    <2>1. /\ deleter[n] = "media" /\ deleter[n]' = "rows"
          /\ UNCHANGED <<registry, copier, past>> /\ tenant[n].points' = tenant[n].points
          /\ tenant[n].blocks' = tenant[n].blocks /\ tenant[n].lexical' = tenant[n].lexical
          /\ tenant[n].media' = {}
      BY <1>1, <1>8 DEF PurgeMedia, Purge, Deleting, Toward, Holds, TenantTypes
    <2>. QED
      BY <2>1 DEF CopyInv, DeleteInv, Emptied
  <1>9. CASE PurgeRows(n)
    <2>1. /\ deleter[n] = "rows" /\ deleter[n]' = "registry"
          /\ UNCHANGED <<registry, copier, past>> /\ tenant[n].points' = tenant[n].points
          /\ tenant[n].blocks' = tenant[n].blocks /\ tenant[n].lexical' = tenant[n].lexical
          /\ tenant[n].media' = tenant[n].media
          /\ tenant[n].rows' = {} /\ tenant[n].claims' = {} /\ tenant[n].own' = {}
      BY <1>1, <1>9 DEF PurgeRows, Purge, Deleting, Toward, Holds, TenantTypes
    <2>. QED
      BY <2>1 DEF CopyInv, DeleteInv, Emptied
  <1>10. CASE DropRow(n)
    <2>1. /\ deleter[n] = "registry" /\ deleter[n]' = "idle"
          /\ UNCHANGED <<tenant, copier, past>> /\ registry[n].status' = "deleted"
      BY <1>1, <1>10 DEF DropRow, Deleting, Toward, RowTypes
    <2>2. past[n].purged
      BY <2>1 DEF DeleteInv
    <2>3. Emptied(n) => tenant[n] = NoTenant
      BY <1>1, <2>1 DEF Emptied, TenantTypes, NoTenant
    <2>. QED
      BY <2>1, <2>2, <2>3 DEF CopyInv, DeleteInv, Emptied
  <1>. QED
    BY <1>4, <1>5, <1>6, <1>7, <1>8, <1>9, <1>10 DEF Delete

LEMMA CreateStep ==
  ASSUME Types, BaseTypes', NEW n \in Snapshot, CopyInv(n), DeleteInv(n), Create(n)
  PROVE  CopyInv(n)' /\ DeleteInv(n)'
  <1>. USE DEF Types, FrozenTypes
  <1>1. /\ registry[n].status = "none" /\ registry[n].status' = "creating"
        /\ UNCHANGED <<tenant, deleter, past>>
        /\ copier[n]' = [Idle EXCEPT !.at = "points"] \/ copier[n]' = copier[n]
    BY DEF Create
  <1>2. copier[n] = Idle /\ deleter[n] = "idle" /\ tenant[n] = NoTenant /\ ~ past[n].purged
    BY <1>1 DEF DeleteInv
  <1>3. copier[n].at' \in {"idle", "points"} /\ copier[n].points' = 0
    BY <1>1, <1>2 DEF Idle
  <1>4. ~ Answers(n)'
    BY <1>1 DEF Answers
  <1>. QED
    BY <1>1, <1>2, <1>3, <1>4 DEF CopyInv, PhaseInv, DeleteInv, Emptied, InRows, AfterRows, AfterImages, AfterPin
-----------------------------------------------------------------------------
(* The invariant. *)

LEMMA SnapshotInvStep ==
  ASSUME SnapshotInv, [Next]_vars
  PROVE  SnapshotInv'
  <1>1. Types' /\ BaseInv' /\ BaseTypes'
    BY TypesInductive DEF SnapshotInv, Types
  <1>2. Types /\ BaseTypes /\ BaseInv /\ Grows
    BY StepGrows DEF SnapshotInv, Types
  <1>3. ASSUME NEW m \in Snapshot,
               UNCHANGED <<registry[m], tenant[m], copier[m], deleter[m], past[m]>>
        PROVE  CopyInv(m)' /\ DeleteInv(m)'
    BY <1>1, <1>2, <1>3, PhaseStays, DeleteStays DEF SnapshotInv, CopyInv
  <1>4. CASE UNCHANGED frozen
    BY <1>1, <1>3, <1>4 DEF frozen, SnapshotInv
  <1>5. CASE Base
    BY <1>4, <1>5 DEF Base, ImportSource, DeleteChunks, UpsertChunks, Commit, Projection, SyncPlan,
         SyncDeletes, SyncUpserts, SyncManifest, RebuildRows, RebuildDrops, RebuildPuts, ProjectionCut
  <1>6. CASE ApiDies
    <2>1. UNCHANGED <<registry, tenant, past>> /\ \A m \in Snapshot : copier[m]' = Idle /\ deleter[m]' = "idle"
      BY <1>6 DEF ApiDies
    <2>2. ASSUME NEW m \in Snapshot PROVE CopyInv(m)'
      <3>1. Idle.at = "idle" /\ copier[m].at' = "idle"
        BY <2>1 DEF Idle
      <3>2. ASSUME ~ past[m].purged, Answers(m)' PROVE Whole(m, registry[m].ref)'
        <4>1. Whole(m, registry[m].ref)
          BY <2>1, <3>2 DEF SnapshotInv, CopyInv, PhaseInv, Answers
        <4>2. history' = history
          BY <1>6 DEF ApiDies, base
        <4>. QED
          BY <2>1, <4>1, <4>2 DEF Whole, Sourced, Images, ChunkPoints, Recorded, Keys
      <3>. QED
        BY <2>1, <3>1, <3>2 DEF CopyInv, PhaseInv, InRows, AfterRows, AfterImages, AfterPin
    <2>3. ASSUME NEW m \in Snapshot PROVE DeleteInv(m)'
      BY <2>1 DEF SnapshotInv, DeleteInv, Emptied
    <2>. QED
      BY <1>1, <2>2, <2>3 DEF SnapshotInv
  <1>7. ASSUME NEW n \in Snapshot, Create(n) PROVE SnapshotInv'
    <2>1. \A m \in Snapshot \ {n} :
              UNCHANGED <<registry[m], tenant[m], copier[m], deleter[m], past[m]>>
      BY <1>2, <1>7 DEF Create, Types, FrozenTypes
    <2>. QED
      BY <1>1, <1>2, <1>3, <1>7, <2>1, CreateStep DEF SnapshotInv
  <1>8. ASSUME NEW n \in Snapshot, Copy(n) PROVE SnapshotInv'
    <2>1. /\ UNCHANGED <<deleter, past[n].purged>>
          /\ \A m \in Snapshot \ {n} :
                 UNCHANGED <<registry[m], tenant[m], copier[m], deleter[m], past[m]>>
      BY <1>2, <1>8, CopyLeaves
    <2>2. CopyInv(n)' /\ DeleteInv(n)'
      BY <1>2, <1>8, <2>1, CopyPhase, CopyBesideDelete DEF SnapshotInv, CopyInv
    <2>. QED
      BY <1>1, <1>3, <2>1, <2>2 DEF SnapshotInv
  <1>9. ASSUME NEW n \in Snapshot, Delete(n) PROVE SnapshotInv'
    <2>1. \A m \in Snapshot \ {n} :
              UNCHANGED <<registry[m], tenant[m], copier[m], deleter[m], past[m]>>
      BY <1>2, <1>9 DEF Delete, RequestDelete, PurgeVectors, PurgeLexical, PurgeMedia, PurgeRows,
           Purge, DropRow, DeleteFails, Toward, Holds, Types, FrozenTypes
    <2>. QED
      BY <1>1, <1>2, <1>3, <1>9, <2>1, DeleteStep DEF SnapshotInv
  <1>10. CASE UNCHANGED vars
    BY <1>4, <1>10 DEF vars
  <1>. QED
    BY <1>5, <1>6, <1>7, <1>8, <1>9, <1>10 DEF Next

LEMMA InitSnapshotInv == Init => SnapshotInv
  <1>. SUFFICES ASSUME Init PROVE SnapshotInv
    OBVIOUS
  <1>1. Types /\ BaseInv
    BY InitBase, InitFrozen DEF Types
  <1>2. ASSUME NEW n \in Snapshot PROVE CopyInv(n) /\ DeleteInv(n)
    BY DEF Init, CopyInv, PhaseInv, DeleteInv, Emptied, Answers, Idle, InRows, AfterRows, AfterImages, AfterPin
  <1>. QED
    BY <1>1, <1>2 DEF SnapshotInv

LEMMA SnapshotInvariant == Spec => []SnapshotInv
  BY InitSnapshotInv, SnapshotInvStep, PTL DEF Spec

\* The copies, the registry and the base's stores keep their types, and no recorded commit is
\* ahead of the history.
THEOREM SnapshotTypes == Spec => []TypeOK
  <1>1. SnapshotInv => TypeOK
    BY DEF SnapshotInv, Types, BaseTypes, FrozenTypes, Refs, RowTypes, TenantTypes, CopierTypes, TypeOK
  <1>. QED
    BY <1>1, SnapshotInvariant, PTL

\* A snapshot that answers has no dangling reference, whatever the base did beside the copy.
THEOREM NoReferenceDangles == Spec => []NothingDangles
  <1>1. ASSUME SnapshotInv, NEW n \in Snapshot, Untouched(n) PROVE Whole(n, registry[n].ref)
    BY <1>1 DEF SnapshotInv, CopyInv, PhaseInv, Untouched
  <1>2. SnapshotInv => NothingDangles
    BY <1>1 DEF NothingDangles, Whole, Sourced, Recorded
  <1>. QED
    BY <1>2, SnapshotInvariant, PTL

\* The two claim layers of a snapshot that answers are equally many, so that neither is a
\* proper part of the other.
THEOREM ReadyIsWhole == Spec => []NotHalfCopied
  <1>1. ASSUME SnapshotInv, NEW n \in Snapshot, Untouched(n)
        PROVE  LET semantic == ClaimPoints(tenant[n].points)
                   rows == tenant[n].claims
               IN semantic \subseteq rows \/ rows \subseteq semantic => semantic = rows
    <2>. DEFINE ps == tenant[n].points
                semantic == ClaimPoints(ps)
                chunks == ChunkPoints(ps)
                rows == tenant[n].claims
    <2>1. ps \in SUBSET Points /\ rows \in SUBSET Claims
      BY <1>1 DEF SnapshotInv, Types, FrozenTypes, TenantTypes
    <2>2. Cardinality(ps) = Cardinality(chunks) + Cardinality(rows)
      BY <1>1 DEF SnapshotInv, CopyInv, PhaseInv, Untouched, Whole
    <2>3. /\ ps = semantic \cup chunks /\ semantic \cap chunks = {}
          /\ semantic \in SUBSET Points /\ chunks \in SUBSET Points /\ rows \in SUBSET Points
      BY <2>1, Pairs DEF ClaimPoints, ChunkPoints
    <2>4. /\ IsFiniteSet(semantic) /\ IsFiniteSet(chunks) /\ IsFiniteSet(rows)
          /\ Cardinality(semantic) \in Nat /\ Cardinality(chunks) \in Nat /\ Cardinality(rows) \in Nat
      BY <2>3, PointsFinite
    <2>5. Cardinality(ps) = Cardinality(semantic) + Cardinality(chunks)
      <3>1. Cardinality(semantic \cup chunks) =
                Cardinality(semantic) + Cardinality(chunks) - Cardinality({})
        BY <2>3, <2>4, FS_Union
      <3>2. Cardinality({}) = 0
        BY FS_EmptySet
      <3>3. Cardinality(semantic \cup chunks) = Cardinality(ps)
        BY <2>3
      <3>. HIDE DEF ps, semantic, chunks, rows
      <3>. QED
        BY <2>4, <3>1, <3>2, <3>3
    <2>6. Cardinality(semantic) = Cardinality(rows)
      BY <2>2, <2>4, <2>5
    <2>7. semantic \subseteq rows => semantic = rows
      BY <2>4, <2>6, FS_Subset
    <2>8. rows \subseteq semantic => semantic = rows
      BY <2>4, <2>6, FS_Subset
    <2>. QED
      BY <2>7, <2>8
  <1>2. SnapshotInv => NotHalfCopied
    BY <1>1 DEF NotHalfCopied
  <1>. QED
    BY <1>2, SnapshotInvariant, PTL

\* A deletion that met no copy has emptied every store before the row goes.
THEOREM DeletionStrandsNothing == Spec => []NothingStranded
  <1>1. SnapshotInv => NothingStranded
    BY DEF SnapshotInv, DeleteInv, Emptied, NothingStranded
  <1>. QED
    BY <1>1, SnapshotInvariant, PTL
=============================================================================
