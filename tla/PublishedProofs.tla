-------------------------- MODULE PublishedProofs --------------------------
(***************************************************************************)
(* A digested source is in the manifest, for any number of deaths, outages *)
(* and foreign commits between its round's commit and its last store.      *)
(*                                                                         *)
(* The body projects the commit it holds in memory, never HEAD.  That is   *)
(* enough because only bodies file claims and one body runs at a time:     *)
(* what lands behind its commit repeats the tree or takes pages away.      *)
(***************************************************************************)
EXTENDS PublicationProofs

\* A commit that has every claim the library has now.
Shows(i) ==
    /\ i \in 1..Len(history)
    /\ \A s \in Sources : Tree.shelf[s] # "absent" => history[i].tree.shelf[s] # "absent"

Projecting ==
    at \in {"events", "sync", "index"} \/ (at = "marks" /\ work.ref # 0) => Shows(work.ref)

Delta ==
    at = "index" =>
        /\ work.upserts = Keys(history[work.ref].tree) \ pg
        /\ work.deleted = pg \ Keys(history[work.ref].tree)

Listed(s) == Tree.shelf[s] # "absent" => s \in Anchors(pg)

Compiles(j, s) == jobs[j].kind = "compile" /\ jobs[j].arg = s
Unfinished(s) == \E j \in 1..Len(jobs) : Compiles(j, s) /\ jobs[j].status \in Open

Digesting == Running("compile", "digest") \/ Running("compile", "complete") => Listed(Me.arg)
Digested == \A s \in digested : Unfinished(s) \/ Listed(s)

\* The manifest was read off commits.
ReadOff == pg \subseteq UNION {Keys(t) : t \in {history[i].tree : i \in DOMAIN history}}

PublishedInv == Base /\ Projecting /\ Delta /\ Digesting /\ Digested /\ ReadOff

\* No compile is ended.
CompilesStay ==
    \A j \in 1..Len(jobs) :
        jobs[j].kind = "compile" /\ jobs[j].status \in Open => jobs'[j].status \in Open
-----------------------------------------------------------------------------
LEMMA StaysUnfinished ==
  ASSUME Base, Follows, CompilesStay, NEW s, Unfinished(s)
  PROVE  Unfinished(s)'
  <1>1. PICK j \in 1..Len(jobs) : Compiles(j, s) /\ jobs[j].status \in Open
    BY DEF Unfinished
  <1>2. j \in 1..Len(jobs') /\ jobs'[j].kind = jobs[j].kind /\ jobs'[j].arg = jobs[j].arg
    BY DEF Base, Types, Follows, JobsFollow
  <1>3. jobs'[j].status \in Open
    BY <1>1 DEF CompilesStay, Compiles
  <1>. QED
    BY <1>1, <1>2, <1>3 DEF Unfinished, Compiles

LEMMA SameHistory ==
  ASSUME Base, UNCHANGED history
  PROVE  Tree' = Tree /\ HEAD' = HEAD
  BY DEF Tree, HEAD

LEMMA ReadOffStays ==
  ASSUME Base, ReadOff, Follows, UNCHANGED pg
  PROVE  ReadOff'
  <1>. SUFFICES ASSUME NEW k \in pg
                PROVE  \E t \in {history'[i].tree : i \in DOMAIN history'} : k \in Keys(t)
    BY DEF ReadOff
  <1>1. PICK i \in DOMAIN history : k \in Keys(history[i].tree)
    BY DEF ReadOff
  <1>2. i \in DOMAIN history' /\ history'[i] = history[i]
    BY DEF Base, Types, Follows, HistoryGrows
  <1>. QED
    BY <1>1, <1>2

\* What the manifest holds stands for what the library has.
LEMMA KeysAnchor ==
  ASSUME NEW t, NEW s \in Sources, t.shelf[s] # "absent"
  PROVE  s \in Anchors(Keys(t))
  <1>. DEFINE k == [anchor |-> s, shelf |-> t.shelf[s], archived |-> About[s] \in t.archived]
  <1>1. k \in Keys(t) /\ k.anchor = s
    BY DEF Keys
  <1>. HIDE DEF k
  <1>. QED
    BY <1>1 DEF Anchors

\* Someone else's step: the lane stands where it was, and the library has no claim it had not.
LEMMA AsidePublished ==
  ASSUME PublishedInv, Follows, Base', UNCHANGED <<current, at, work, pg, digested>>, CompilesStay,
         \A s \in Sources : Tree'.shelf[s] # "absent" => Tree.shelf[s] # "absent"
  PROVE  PublishedInv'
  <1>1. Base /\ Len(history) \in Nat /\ Len(history') \in Nat /\ Len(history') >= Len(history)
    BY DEF PublishedInv, Base, Types, Follows, HistoryGrows
  <1>2. \A i : Shows(i) => Shows(i)' /\ history'[i] = history[i]
    <2>. SUFFICES ASSUME NEW i, Shows(i) PROVE Shows(i)' /\ history'[i] = history[i]
      OBVIOUS
    <2>1. i \in 1..Len(history) /\ i \in 1..Len(history') /\ history'[i] = history[i]
      BY <1>1 DEF Shows, Follows, HistoryGrows
    <2>2. ASSUME NEW s \in Sources, Tree'.shelf[s] # "absent"
          PROVE  history'[i].tree.shelf[s] # "absent"
      BY <2>1, <2>2 DEF Shows
    <2>. QED
      BY <2>1, <2>2 DEF Shows
  <1>w. PICK i : i = work.ref
    OBVIOUS
  <1>3. Projecting'
    BY <1>2, <1>w DEF PublishedInv, Projecting
  <1>4. Delta'
    <2>. SUFFICES ASSUME at = "index" PROVE Delta'
      BY DEF Delta
    <2>1. Shows(i) /\ history'[i] = history[i]
      BY <1>2, <1>w DEF PublishedInv, Projecting
    <2>2. Keys(history'[i].tree) = Keys(history[i].tree)
      BY <2>1
    <2>. QED
      BY <1>w, <2>2 DEF PublishedInv, Delta
  <1>5. \A s \in Sources : Listed(s) => Listed(s)'
    BY DEF Listed
  <1>6. Digesting'
    <2>. SUFFICES ASSUME Running("compile", "digest")' \/ Running("compile", "complete")'
                  PROVE  Listed(Me.arg)'
      BY DEF Digesting
    <2>1. current # 0 /\ Me' = jobs'[current] /\ Me'.kind = Me.kind /\ Me'.arg = Me.arg
      BY <1>1, MeType DEF Running, Me, Follows, JobsFollow
    <2>2. Running("compile", "digest") \/ Running("compile", "complete")
      BY <2>1 DEF Running
    <2>r. PICK s : s = Me.arg
      OBVIOUS
    <2>3. s \in Sources
      BY <1>1, <2>2, <2>r, MeType DEF Running, Base, LaneKept, Me
    <2>4. Listed(s)
      BY <2>2, <2>r DEF PublishedInv, Digesting
    <2>5. Listed(s)'
      BY <1>5, <2>3, <2>4
    <2>. QED
      BY <2>1, <2>5, <2>r
  <1>7. Digested'
    <2>. SUFFICES ASSUME NEW s \in digested PROVE Unfinished(s)' \/ Listed(s)'
      BY DEF Digested
    <2>1. s \in Sources
      BY <1>1 DEF Base, Types
    <2>. QED
      BY <1>1, <1>5, <2>1, StaysUnfinished DEF PublishedInv, Digested
  <1>. QED
    BY <1>1, <1>3, <1>4, <1>6, <1>7, ReadOffStays DEF PublishedInv

\* The lane comes to a phase that projects nothing and digests nothing.
LEMMA QuietPublished ==
  ASSUME PublishedInv, Follows, Base', UNCHANGED <<history, pg, digested>>,
         at' \notin {"events", "sync", "index", "digest"}, at' = "marks" => work'.ref = 0,
         ~(Running("compile", "complete")'),
         \A s : Unfinished(s) => Unfinished(s)' \/ Listed(s)
  PROVE  PublishedInv'
  <1>1. Base /\ Tree' = Tree
    BY SameHistory DEF PublishedInv
  <1>2. Projecting' /\ Delta'
    BY DEF Projecting, Delta
  <1>3. Digesting'
    BY DEF Digesting, Running
  <1>4. Digested'
    <2>. SUFFICES ASSUME NEW s \in digested PROVE Unfinished(s)' \/ Listed(s)'
      BY DEF Digested
    <2>1. Listed(s) => Listed(s)'
      BY <1>1 DEF Listed
    <2>. QED
      BY <2>1 DEF PublishedInv, Digested
  <1>. QED
    BY <1>1, <1>2, <1>3, <1>4, ReadOffStays DEF PublishedInv

\* A body takes the commit it has made, or HEAD, in hand.
LEMMA ProjectionBegins ==
  ASSUME PublishedInv, Follows, Base', UNCHANGED <<pg, digested, jobs, current>>,
         at' \in {"events", "sync", "marks"}, work'.ref = Len(history'),
         \A s \in Sources : Tree'.shelf[s] # "absent" => Tree.shelf[s] # "absent" \/ Unfinished(s)
  PROVE  PublishedInv'
  <1>1. Base
    BY DEF PublishedInv
  <1>2. Shows(work.ref)'
    <2>1. Len(history') \in 1..Len(history') /\ Tree' = history'[Len(history')].tree
      BY DEF Base, Types, Tree, HEAD
    <2>. QED
      BY <2>1 DEF Shows
  <1>3. Projecting' /\ Delta' /\ Digesting'
    BY <1>2 DEF Projecting, Delta, Digesting, Running
  <1>4. Digested'
    <2>. SUFFICES ASSUME NEW s \in digested PROVE Unfinished(s)' \/ Listed(s)'
      BY DEF Digested
    <2>1. s \in Sources
      BY <1>1 DEF Base, Types
    <2>2. Unfinished(s) => Unfinished(s)'
      BY DEF Unfinished, Compiles
    <2>. QED
      BY <2>1, <2>2 DEF PublishedInv, Digested, Listed
  <1>. QED
    BY <1>1, <1>3, <1>4, ReadOffStays DEF PublishedInv

\* It holds on to that commit.
LEMMA ProjectionGoesOn ==
  ASSUME PublishedInv, Follows, Base', UNCHANGED <<history, pg, digested, jobs, current>>,
         Shows(work.ref), work'.ref = work.ref, at' \in {"sync", "marks", "index"}, Delta'
  PROVE  PublishedInv'
  <1>1. Base /\ Tree' = Tree
    BY SameHistory DEF PublishedInv
  <1>2. Projecting'
    BY <1>1 DEF Projecting, Shows
  <1>3. Digesting'
    BY DEF Digesting, Running
  <1>4. Digested'
    BY <1>1 DEF PublishedInv, Digested, Unfinished, Compiles, Listed
  <1>. QED
    BY <1>1, <1>2, <1>3, <1>4, ReadOffStays DEF PublishedInv
-----------------------------------------------------------------------------
(* Which steps leave the compiles in the queue open. *)

LEMMA LeavesCompiles ==
  ASSUME Base, Interrupted \/ RoundFails \/ StoreAway \/ SyncRefused
  PROVE  CompilesStay
  <1>1. current \in 1..Len(jobs) /\ Me \in JobRows
    BY MeType DEF Interrupted, RoundFails, StoreAway, LeaveJob, SyncRefused
  <1>2. Requeued(Me).status \in Open /\ Parked(Me).status \in Open
    BY <1>1 DEF Requeued, Parked, Open, JobRows
  <1>3. CASE Interrupted \/ RoundFails \/ StoreAway
    <2>1. jobs' = jobs \/ jobs' = [jobs EXCEPT ![current] = Requeued(@)]
                       \/ jobs' = [jobs EXCEPT ![current] = Parked(@)]
      BY <1>3 DEF Interrupted, RoundFails, StoreAway, LeaveJob
    <2>. QED
      BY <1>1, <1>2, <2>1 DEF CompilesStay, Me, Base, Types
  <1>4. CASE SyncRefused /\ Me.kind = "archive"
    <2>1. \A j \in 1..Len(jobs) : j # current => jobs'[j] = jobs[j]
      BY <1>4 DEF SyncRefused, End, Ended, Base, Types
    <2>. QED
      BY <1>4, <2>1 DEF CompilesStay, Me
  <1>5. CASE SyncRefused /\ Me.kind # "archive"
    <2>1. jobs' = [jobs EXCEPT ![current] = Parked(@)]
      BY <1>5 DEF SyncRefused
    <2>. QED
      BY <1>1, <1>2, <2>1 DEF CompilesStay, Me, Base, Types
  <1>. QED
    BY <1>3, <1>4, <1>5

LEMMA EndingsCompiles ==
  ASSUME Base,
         \/ GroomDeclines \/ GroomFails \/ GroomCompletes \/ ChallengeCompletes
         \/ ArchiveNotConfirmed \/ ArchiveStale \/ ArchiveFails \/ ArchiveCompletes
  PROVE  CompilesStay
  <1>1. current # 0 /\ Me.kind # "compile"
    BY DEF GroomDeclines, GroomFails, GroomCompletes, ChallengeCompletes, ArchiveNotConfirmed,
       ArchiveStale, ArchiveFails, ArchiveCompletes, Running
  <1>2. \E st, ref : jobs' = Ended(st, ref)
    BY DEF GroomDeclines, GroomFails, GroomCompletes, ChallengeCompletes, ArchiveNotConfirmed,
       ArchiveStale, ArchiveFails, ArchiveCompletes, End
  <1>3. \A j \in 1..Len(jobs) : j # current => jobs'[j] = jobs[j]
    BY <1>2 DEF Ended, Base, Types
  <1>. QED
    BY <1>1, <1>3 DEF CompilesStay, Me

LEMMA GrowthCompiles ==
  ASSUME Base, UNCHANGED jobs \/ \E row : jobs' = Append(jobs, row)
  PROVE  CompilesStay
  <1>1. jobs \in Seq(JobRows)
    BY DEF Base, Types
  <1>2. ASSUME NEW row, jobs' = Append(jobs, row), NEW j \in 1..Len(jobs)
        PROVE  jobs'[j] = jobs[j]
    BY <1>1, <1>2, AppendProperties
  <1>. QED
    BY <1>2 DEF CompilesStay

LEMMA ClaimsCompiles ==
  ASSUME Base, ClaimNext \/ \E j \in DOMAIN jobs : WaitElapses(j)
  PROVE  CompilesStay
  <1>1. \E j \in DOMAIN jobs, st \in Open : jobs' = [jobs EXCEPT ![j].status = st]
    BY DEF ClaimNext, WaitElapses, Open
  <1>. QED
    <2>1. PICK j \in DOMAIN jobs, st \in Open : jobs' = [jobs EXCEPT ![j].status = st]
      BY <1>1
    <2>2. jobs[j] \in JobRows
      BY DEF Base, Types
    <2>3. jobs'[j].status = st
      BY <2>1, <2>2 DEF JobRows
    <2>. QED
      BY <2>1, <2>3 DEF CompilesStay, Base, Types
-----------------------------------------------------------------------------
(* Every action keeps it. *)

LEMMA AsideKeeps ==
  ASSUME PublishedInv,
         \/ Owner \/ (\E j \in DOMAIN jobs : WaitElapses(j))
         \/ WriteMeta \/ (\E p \in Pages : HandCommits(p)) \/ UNCHANGED vars
  PROVE  PublishedInv'
  <1>1. Base /\ Follows /\ Base'
    <2>1. Base /\ [Next]_vars
      BY DEF PublishedInv, Next
    <2>. QED
      BY <2>1, StepBase
  <1>2. UNCHANGED <<current, at, work, pg, digested>>
    BY DEF Owner, RequestCompile, PlanArchive, ConfirmReads, ConfirmStale, ConfirmWrites, Drop,
       WaitElapses, WriteMeta, HandCommits, vars, lane, stores, LeaveStores
  <1>3. CompilesStay
    <2>1. CASE \E j \in DOMAIN jobs : WaitElapses(j)
      BY <1>1, <2>1, ClaimsCompiles
    <2>2. CASE WriteMeta \/ (\E p \in Pages : HandCommits(p)) \/ UNCHANGED vars
      BY <1>1, <2>2, GrowthCompiles DEF WriteMeta, HandCommits, vars, lane
    <2>3. CASE Owner
      BY <1>1, <2>3, GrowthCompiles DEF Owner, RequestCompile, PlanArchive, ConfirmReads,
         ConfirmStale, ConfirmWrites, Drop, lane
    <2>. QED
      BY <2>1, <2>2, <2>3
  <1>4. \A s \in Sources : Tree'.shelf[s] # "absent" => Tree.shelf[s] # "absent"
    <2>1. CASE WriteMeta
      <3>1. history' = Append(history, [tree |-> Tree, by |-> "manifest", proposal |-> 0])
        BY <2>1 DEF WriteMeta, Commit
      <3>2. history \in Seq(Commits)
        BY <1>1 DEF Base, Types
      <3>3. Tree' = Tree
        BY <3>1, <3>2 DEF Tree, HEAD
      <3>. QED
        BY <3>3
    <2>2. ASSUME NEW p \in Pages, HandCommits(p)
          PROVE  \A s \in Sources : Tree'.shelf[s] # "absent" => Tree.shelf[s] # "absent"
      <3>. DEFINE t == [shelf |-> [s \in Sources |-> IF About[s] = p THEN "absent" ELSE Tree.shelf[s]],
                        archived |-> Tree.archived \ {p}]
      <3>1. history' = Append(history, [tree |-> t, by |-> "hand", proposal |-> 0])
        BY <2>2 DEF HandCommits, Commit
      <3>2. \A s \in Sources : t.shelf[s] # "absent" => Tree.shelf[s] # "absent"
        OBVIOUS
      <3>. HIDE DEF t
      <3>3. history \in Seq(Commits)
        BY <1>1 DEF Base, Types
      <3>4. Tree' = t
        BY <3>1, <3>3 DEF Tree, HEAD
      <3>. QED
        BY <3>2, <3>4
    <2>3. CASE UNCHANGED history
      BY <1>1, <2>3, SameHistory
    <2>4. CASE Owner \/ (\E j \in DOMAIN jobs : WaitElapses(j)) \/ UNCHANGED vars
      BY <2>3, <2>4 DEF Owner, RequestCompile, PlanArchive, ConfirmReads, ConfirmStale,
         ConfirmWrites, Drop, WaitElapses, vars, LeaveStores
    <2>. QED
      BY <2>1, <2>2, <2>4
  <1>. QED
    BY <1>1, <1>2, <1>3, <1>4, AsidePublished

LEMMA QuietKeeps ==
  ASSUME PublishedInv,
         \/ ClaimNext \/ Interrupted \/ RoundFails \/ StoreAway \/ SyncRefused
         \/ CompileCompletes \/ MaybeTriggerRollover \/ MaybeTriggerChallenge
         \/ ChallengeCompensates \/ ChallengeCompletes
         \/ GroomDeclines \/ GroomFails \/ GroomCompletes
         \/ ArchiveNotConfirmed \/ ArchiveStale \/ ArchiveFails \/ ArchiveStates \/ ArchiveProceeds
         \/ RecordTerminal \/ ArchiveCompletes
  PROVE  PublishedInv'
  <1>1. Base /\ Follows /\ Base'
    <2>1. Base /\ [Next]_vars
      BY DEF PublishedInv, Next, Body
    <2>. QED
      BY <2>1, StepBase
  <1>2. UNCHANGED <<history, pg, digested>>
    BY DEF ClaimNext, Interrupted, RoundFails, StoreAway, LeaveJob, SyncRefused, CompileCompletes,
       MaybeTriggerRollover, MaybeTriggerChallenge, ChallengeCompensates, ChallengeCompletes,
       GroomDeclines, GroomFails, GroomCompletes, ArchiveNotConfirmed, ArchiveStale, ArchiveFails,
       ArchiveStates, ArchiveProceeds, RecordTerminal, ArchiveCompletes, LeaveStores, stores
  <1>3. /\ at' \notin {"events", "sync", "index", "digest"}
        /\ at' = "marks" => work'.ref = 0
        /\ at' = "complete" => current # 0 /\ Me.kind # "compile" /\ current' = current
    BY DEF ClaimNext, Interrupted, RoundFails, StoreAway, LeaveJob, SyncRefused, CompileCompletes,
       MaybeTriggerRollover, MaybeTriggerChallenge, ChallengeCompensates, ChallengeCompletes,
       GroomDeclines, GroomFails, GroomCompletes, ArchiveNotConfirmed, ArchiveStale, ArchiveFails,
       ArchiveStates, ArchiveProceeds, RecordTerminal, ArchiveCompletes, End, Goto, Running, Blank
  <1>4. ~(Running("compile", "complete")')
    BY <1>1, <1>3, MeType DEF Running, Me, Follows, JobsFollow
  <1>5. ASSUME NEW s, Unfinished(s)
        PROVE  Unfinished(s)' \/ Listed(s)
    <2>1. CASE CompilesStay
      BY <1>1, <1>5, <2>1, StaysUnfinished
    <2>2. CASE CompileCompletes
      <3>1. Running("compile", "complete") /\ Listed(Me.arg)
        BY <2>2 DEF CompileCompletes, PublishedInv, Digesting
      <3>2. PICK j \in 1..Len(jobs) : Compiles(j, s) /\ jobs[j].status \in Open
        BY <1>5 DEF Unfinished
      <3>3. CASE j = current
        BY <3>1, <3>2, <3>3 DEF Compiles, Me
      <3>4. CASE j # current
        <4>1. jobs'[j] = jobs[j] /\ j \in 1..Len(jobs')
          BY <1>1, <2>2, <3>4 DEF CompileCompletes, End, Ended, Base, Types, Follows, JobsFollow
        <4>. QED
          BY <3>2, <4>1 DEF Unfinished, Compiles
      <3>. QED
        BY <3>3, <3>4
    <2>3. CASE ~CompileCompletes
      <3>1. CASE Interrupted \/ RoundFails \/ StoreAway \/ SyncRefused
        BY <1>1, <2>1, <3>1, LeavesCompiles
      <3>2. CASE ClaimNext
        BY <1>1, <2>1, <3>2, ClaimsCompiles
      <3>3. CASE \/ GroomDeclines \/ GroomFails \/ GroomCompletes \/ ChallengeCompletes
                 \/ ArchiveNotConfirmed \/ ArchiveStale \/ ArchiveFails \/ ArchiveCompletes
        BY <1>1, <2>1, <3>3, EndingsCompiles
      <3>4. CASE \/ MaybeTriggerRollover \/ MaybeTriggerChallenge \/ ChallengeCompensates
                 \/ ArchiveStates \/ ArchiveProceeds \/ RecordTerminal
        <4>1. UNCHANGED jobs \/ \E row : jobs' = Append(jobs, row)
          BY <3>4 DEF MaybeTriggerRollover, MaybeTriggerChallenge, ChallengeCompensates,
             ArchiveStates, ArchiveProceeds, RecordTerminal, Goto
        <4>. QED
          BY <1>1, <2>1, <4>1, GrowthCompiles
      <3>. QED
        BY <2>3, <3>1, <3>2, <3>3, <3>4
    <2>. QED
      BY <2>2, <2>3
  <1>. QED
    BY <1>1, <1>2, <1>3, <1>4, <1>5, QuietPublished

\* The commit in hand, where a body is at work on its projection.
LEMMA InHand ==
  ASSUME PublishedInv, at \in {"events", "sync", "index"} \/ (at = "marks" /\ work.ref # 0)
  PROVE  Shows(work.ref)
  BY DEF PublishedInv, Projecting

LEMMA BeginKeeps ==
  ASSUME PublishedInv,
         CompileNoop \/ CompileCommits \/ GroomCommits \/ ArchiveResumes \/ MoveDocuments
  PROVE  PublishedInv'
  <1>1. Base /\ Follows /\ Base'
    <2>1. Base /\ [Next]_vars
      BY DEF PublishedInv, Next, Body
    <2>. QED
      BY <2>1, StepBase
  <1>2. UNCHANGED <<pg, digested, jobs, current>> /\ at' \in {"events", "sync", "marks"}
    BY DEF CompileNoop, CompileCommits, GroomCommits, ArchiveResumes, MoveDocuments, LeaveStores,
       stores
  <1>3. history \in Seq(Commits) /\ Tree \in Trees
    BY <1>1, TreeType DEF Base, Types
  <1>4. work'.ref = Len(history')
    <2>1. CASE CompileNoop \/ ArchiveResumes
      BY <2>1 DEF CompileNoop, ArchiveResumes, LeaveStores, HEAD, Blank
    <2>2. CASE CompileCommits \/ GroomCommits \/ MoveDocuments
      <3>1. \E c : history' = Append(history, c)
        BY <2>2 DEF CompileCommits, GroomCommits, MoveDocuments, Commit
      <3>2. Len(history') = Len(history) + 1
        BY <1>3, <3>1
      <3>3. work'.ref = HEAD + 1
        BY <2>2 DEF CompileCommits, GroomCommits, MoveDocuments, Blank
      <3>. QED
        BY <3>2, <3>3 DEF HEAD
    <2>. QED
      BY <2>1, <2>2
  <1>5. \A s \in Sources : Tree'.shelf[s] # "absent" => Tree.shelf[s] # "absent" \/ Unfinished(s)
    <2>1. CASE CompileNoop \/ ArchiveResumes
      <3>1. Tree' = Tree
        BY <1>1, <2>1, SameHistory DEF CompileNoop, ArchiveResumes, LeaveStores
      <3>. QED
        BY <3>1
    <2>2. CASE CompileCommits
      <3>. DEFINE t == [Tree EXCEPT !.shelf[Me.arg] = "page"]
      <3>1. \A s \in Sources : s # Me.arg => t.shelf[s] = Tree.shelf[s]
        BY <1>3 DEF Trees
      <3>2. history' = Append(history, [tree |-> t, by |-> "compile", proposal |-> 0])
        BY <2>2 DEF CompileCommits, Commit
      <3>. HIDE DEF t
      <3>3. Tree' = t
        BY <1>3, <3>2 DEF Tree, HEAD
      <3>4. Unfinished(Me.arg)
        <4>1. current # 0 /\ Me.kind = "compile" /\ at = "run"
          BY <2>2 DEF CompileCommits, Running
        <4>2. current \in 1..Len(jobs) /\ Me.status = "claimed"
          BY <1>1, <4>1, MeType DEF Base, LaneKept, Me
        <4>. QED
          BY <4>1, <4>2 DEF Unfinished, Compiles, Me, Open
      <3>. QED
        BY <3>1, <3>3, <3>4
    <2>3. CASE GroomCommits
      <3>1. PICK kept \in SUBSET OnPage(Tree, Me.arg) :
              Commit([Tree EXCEPT !.shelf = [s \in Sources |->
                IF s \in OnPage(Tree, Me.arg) \ kept THEN "volume" ELSE @[s]]], "groom", 0)
        BY <2>3 DEF GroomCommits
      <3>. DEFINE t == [Tree EXCEPT !.shelf = [s \in Sources |->
                IF s \in OnPage(Tree, Me.arg) \ kept THEN "volume" ELSE @[s]]]
      <3>2. \A s \in Sources : t.shelf[s] # "absent" => Tree.shelf[s] # "absent"
        BY <1>3 DEF Trees, OnPage
      <3>3. history' = Append(history, [tree |-> t, by |-> "groom", proposal |-> 0])
        BY <3>1 DEF Commit
      <3>. HIDE DEF t
      <3>4. Tree' = t
        BY <1>3, <3>3 DEF Tree, HEAD
      <3>. QED
        BY <3>2, <3>4
    <2>4. CASE MoveDocuments
      <3>. DEFINE t == [Tree EXCEPT !.archived =
                 IF Row.action = "archive" THEN @ \cup {Row.page} ELSE @ \ {Row.page}]
      <3>1. t.shelf = Tree.shelf
        BY <1>3 DEF Trees
      <3>2. history' = Append(history, [tree |-> t, by |-> "archive", proposal |-> Me.arg])
        BY <2>4 DEF MoveDocuments, Commit
      <3>. HIDE DEF t
      <3>3. Tree' = t
        BY <1>3, <3>2 DEF Tree, HEAD
      <3>. QED
        BY <3>1, <3>3
    <2>. QED
      BY <2>1, <2>2, <2>3, <2>4
  <1>. QED
    BY <1>1, <1>2, <1>4, <1>5, ProjectionBegins

LEMMA GoesOnKeeps ==
  ASSUME PublishedInv,
         \/ SyncPlan \/ WriteLexical \/ WriteVectors \/ RecordEvents \/ SetSourceArchived \/ MarksSet
  PROVE  PublishedInv'
  <1>1. Base /\ Follows /\ Base'
    <2>1. Base /\ [Next]_vars
      BY DEF PublishedInv, Next, Body
    <2>. QED
      BY <2>1, StepBase
  <1>2. UNCHANGED <<history, pg, digested, jobs, current>>
    BY DEF SyncPlan, WriteLexical, WriteVectors, RecordEvents, SetSourceArchived, MarksSet,
       LeaveStores, stores, Goto
  <1>3. Fields \subseteq DOMAIN work
    BY <1>1 DEF Base, Types
  <1>4. work'.ref = work.ref
    BY <1>3 DEF SyncPlan, WriteLexical, WriteVectors, RecordEvents, SetSourceArchived, MarksSet,
       Goto, Fields
  <1>5. CASE at = "marks" /\ work.ref = 0
    <2>1. at' \in {"marks", "terminal"}
      BY <1>5 DEF SyncPlan, WriteLexical, WriteVectors, RecordEvents, SetSourceArchived, MarksSet,
         Running, Goto
    <2>2. \A s : Unfinished(s) => Unfinished(s)'
      BY <1>2 DEF Unfinished, Compiles
    <2>3. ~(Running("compile", "complete")')
      BY <2>1 DEF Running
    <2>. QED
      BY <1>1, <1>2, <1>4, <1>5, <2>1, <2>2, <2>3, QuietPublished
  <1>6. CASE ~(at = "marks" /\ work.ref = 0)
    <2>1. Shows(work.ref)
      <3>1. at \in {"events", "sync", "index"} \/ (at = "marks" /\ work.ref # 0)
        BY <1>6 DEF SyncPlan, WriteLexical, WriteVectors, RecordEvents, SetSourceArchived, MarksSet,
           Running
      <3>. QED
        BY <3>1, InHand
    <2>2. at' \in {"sync", "marks", "index"}
      BY <1>6 DEF SyncPlan, WriteLexical, WriteVectors, RecordEvents, SetSourceArchived, MarksSet,
         Running, Goto
    <2>3. Delta'
      <3>1. CASE SyncPlan
        BY <1>2, <1>3, <1>4, <3>1 DEF SyncPlan, Delta, Fields
      <3>2. CASE WriteLexical \/ WriteVectors
        <4>1. at = "index" /\ at' = "index" /\ work'.upserts = work.upserts
              /\ work'.deleted = work.deleted
          BY <1>3, <3>2 DEF WriteLexical, WriteVectors, Fields
        <4>. QED
          BY <1>2, <1>4, <4>1 DEF PublishedInv, Delta
      <3>3. CASE RecordEvents \/ SetSourceArchived \/ MarksSet
        BY <3>3 DEF RecordEvents, SetSourceArchived, MarksSet, Running, Goto, Delta
      <3>. QED
        BY <3>1, <3>2, <3>3
    <2>. QED
      BY <1>1, <1>2, <1>4, <2>1, <2>2, <2>3, ProjectionGoesOn
  <1>. QED
    BY <1>5, <1>6

\* The manifest takes the commit's claims: every claim of the library is listed.
LEMMA AdvanceKeeps ==
  ASSUME PublishedInv, AdvanceManifest
  PROVE  PublishedInv'
  <1>1. Base /\ Follows /\ Base'
    <2>1. Base /\ [Next]_vars
      BY DEF PublishedInv, Next, Body
    <2>. QED
      BY <2>1, StepBase
  <1>2. UNCHANGED <<history, digested, jobs, current, work>> /\ at' \in {"digest", "complete", "terminal"}
    BY DEF AdvanceManifest
  <1>3. Tree' = Tree
    BY <1>1, <1>2, SameHistory
  <1>4. Shows(work.ref)
    BY InHand DEF AdvanceManifest
  <1>5. pg' = Keys(history[work.ref].tree)
    BY DEF AdvanceManifest, PublishedInv, Delta
  <1>6. \A s \in Sources : Listed(s)'
    <2>. SUFFICES ASSUME NEW s \in Sources, Tree.shelf[s] # "absent" PROVE s \in Anchors(pg')
      BY <1>3 DEF Listed, Anchors
    <2>1. history[work.ref].tree.shelf[s] # "absent"
      BY <1>4 DEF Shows
    <2>. QED
      BY <1>5, <2>1, KeysAnchor
  <1>7. Projecting' /\ Delta'
    BY <1>2 DEF Projecting, Delta
  <1>8. Digesting'
    <2>. SUFFICES ASSUME Running("compile", "digest")' \/ Running("compile", "complete")'
                  PROVE  Listed(Me.arg)'
      BY DEF Digesting
    <2>1. Me' = Me /\ current # 0 /\ Me.kind = "compile"
      BY <1>2 DEF Running, Me
    <2>2. Me.arg \in Sources
      BY <1>1, <2>1, MeType DEF Base, LaneKept, Me
    <2>r. PICK s \in Sources : s = Me.arg
      BY <2>2
    <2>3. Listed(s)'
      BY <1>6
    <2>. QED
      BY <2>1, <2>r, <2>3
  <1>9. Digested'
    BY <1>1, <1>2, <1>6 DEF Digested, Base, Types
  <1>10. ReadOff'
    <2>1. work.ref \in DOMAIN history
      BY <1>1, <1>4 DEF Shows, Base, Types
    <2>. QED
      BY <1>2, <1>5, <2>1 DEF ReadOff
  <1>. QED
    BY <1>1, <1>7, <1>8, <1>9, <1>10 DEF PublishedInv

LEMMA DigestKeeps ==
  ASSUME PublishedInv, MarkDigested
  PROVE  PublishedInv'
  <1>1. Base /\ Follows /\ Base'
    <2>1. Base /\ [Next]_vars
      BY DEF PublishedInv, Next, Body
    <2>. QED
      BY <2>1, StepBase
  <1>2. /\ UNCHANGED <<history, pg, jobs, current, work>> /\ at' = "complete"
        /\ digested' = digested \cup {Me.arg} /\ Running("compile", "digest")
    BY DEF MarkDigested, Goto, stores
  <1>3. Tree' = Tree /\ Me' = Me
    BY <1>1, <1>2, SameHistory DEF Me
  <1>r. PICK s : s = Me.arg
    OBVIOUS
  <1>4. Listed(s) /\ Listed(s)'
    BY <1>2, <1>3, <1>r DEF PublishedInv, Digesting, Listed
  <1>5. Projecting' /\ Delta'
    BY <1>2 DEF Projecting, Delta
  <1>6. Digesting'
    BY <1>3, <1>4, <1>r DEF Digesting
  <1>7. Digested'
    <2>. SUFFICES ASSUME NEW x \in digested \cup {s} PROVE Unfinished(x)' \/ Listed(x)'
      BY <1>2, <1>r DEF Digested
    <2>1. CASE x = s
      BY <1>4, <2>1
    <2>2. CASE x \in digested
      BY <1>2, <1>3, <2>2 DEF PublishedInv, Digested, Unfinished, Compiles, Listed
    <2>. QED
      BY <2>1, <2>2
  <1>. QED
    BY <1>1, <1>2, <1>5, <1>6, <1>7, ReadOffStays DEF PublishedInv

LEMMA InitPublished == Init => PublishedInv
  <1>. SUFFICES ASSUME Init PROVE PublishedInv
    OBVIOUS
  <1>1. Base
    BY InitBase
  <1>2. Len(history) = 1 /\ Tree = Start /\ at = "idle" /\ current = 0 /\ pg = Keys(Start)
        /\ history[1].tree = Start /\ digested = Held
    BY DEF Init, Tree, HEAD
  <1>3. \A s \in Sources : Listed(s)
    <2>. SUFFICES ASSUME NEW s \in Sources, Start.shelf[s] # "absent" PROVE s \in Anchors(pg)
      BY <1>2 DEF Listed
    <2>. QED
      BY <1>2, KeysAnchor
  <1>4. Projecting /\ Delta /\ Digesting
    BY <1>2 DEF Projecting, Delta, Digesting, Running
  <1>5. Digested
    BY <1>2, <1>3, PublicationAssumption DEF Digested
  <1>6. ReadOff
    <2>1. 1 \in DOMAIN history
      BY <1>1, <1>2 DEF Base, Types
    <2>. QED
      BY <1>2, <2>1 DEF ReadOff
  <1>. QED
    BY <1>1, <1>4, <1>5, <1>6 DEF PublishedInv

LEMMA StepPublished == PublishedInv /\ [Next]_vars => PublishedInv'
  BY AsideKeeps, QuietKeeps, BeginKeeps, GoesOnKeeps, AdvanceKeeps, DigestKeeps DEF Next, Body

LEMMA PublishedAlways == Spec => []PublishedInv
  BY InitPublished, StepPublished, PTL DEF Spec

\* compile_worker.py persist_compile_result: a source that reads as digested, with no compile of
\* it still to run, has its claim in the manifest if the library has it at all, wherever workers
\* died, stores went away and commits came in between.
THEOREM DigestedMeansPublished == Spec => []DigestedIsPublished
  <1>1. PublishedInv => DigestedIsPublished
    <2>. SUFFICES ASSUME PublishedInv, NEW s \in digested, Tree.shelf[s] # "absent",
                         \A j \in DOMAIN jobs : jobs[j].kind = "compile" /\ jobs[j].arg = s
                                                    => jobs[j].status \notin Open
                  PROVE  s \in Anchors(pg)
      BY DEF DigestedIsPublished
    <2>1. ~Unfinished(s)
      BY DEF Unfinished, Compiles, PublishedInv, Base, Types
    <2>. QED
      BY <2>1 DEF PublishedInv, Digested, Listed
  <1>. QED
    BY <1>1, PublishedAlways, PTL

LEMMA Retyped ==
  ASSUME NEW S, NEW T, NEW q \in Seq(S), \A i \in 1..Len(q) : q[i] \in T
  PROVE  q \in Seq(T)
  <1>1. Len(q) \in Nat /\ q = [i \in 1..Len(q) |-> q[i]]
    OBVIOUS
  <1>. QED
    BY <1>1, SeqDef

\* The variables of the canonical lane, its stores and its archive keep their types: a commit
\* names a row that exists, a plan a commit that exists, the manifest only what was once
\* committed, and no row but the current one is claimed.
THEOREM TypesHold == Spec => []TypeOK
  <1>1. PublishedInv /\ DecisionInv => TypeOK
    <2>. SUFFICES ASSUME PublishedInv, DecisionInv PROVE TypeOK
      OBVIOUS
    <2>1. Base /\ ReadOff /\ Decisions
      BY DEF PublishedInv, DecisionInv
    <2>2. history \in Seq([tree : Trees,
                           by : {"init", "compile", "groom", "manifest", "hand", "archive"},
                           proposal : 0..Len(rows)])
      <3>1. history \in Seq(Commits) /\ Len(rows) \in Nat
        BY <2>1 DEF Base, Types
      <3>2. \A i \in 1..Len(history) : history[i].proposal \in 0..Len(rows)
        BY <2>1, <3>1 DEF Decisions, Backed
      <3>3. \A i \in 1..Len(history) : history[i] \in
              [tree : Trees, by : {"init", "compile", "groom", "manifest", "hand", "archive"},
               proposal : 0..Len(rows)]
        <4>. TAKE i \in 1..Len(history)
        <4>1. history[i] \in Commits /\ history[i].proposal \in 0..Len(rows)
          BY <3>1, <3>2
        <4>. QED
          BY <4>1 DEF Commits
      <3>. QED
        BY <3>1, <3>3, Retyped
    <2>3. rows \in Seq([page : Pages, action : {"archive", "unarchive"}, sources : SUBSET Sources,
                        moves : BOOLEAN, ref : DOMAIN history, statement : BOOLEAN,
                        broken : BOOLEAN,
                        status : {"proposed", "confirmed", "executed", "failed", "dropped", "stale"}])
      <3>1. rows \in Seq(Proposals) /\ DOMAIN history = 1..Len(history)
        BY <2>1 DEF Base, Types
      <3>2. \A r \in 1..Len(rows) : rows[r] \in Proposals /\ rows[r].ref \in DOMAIN history
        BY <2>1, <3>1 DEF Base, LaneKept
      <3>3. \A r \in 1..Len(rows) : rows[r] \in
              [page : Pages, action : {"archive", "unarchive"}, sources : SUBSET Sources,
               moves : BOOLEAN, ref : DOMAIN history, statement : BOOLEAN, broken : BOOLEAN,
               status : {"proposed", "confirmed", "executed", "failed", "dropped", "stale"}]
        BY <3>2 DEF Proposals
      <3>. QED
        BY <3>1, <3>3, Retyped
    <2>4. /\ confirming \subseteq DOMAIN rows /\ current \in 0..Len(jobs)
          /\ digested \subseteq Sources /\ marks \subseteq Sources /\ told \subseteq Sources
          /\ \A j \in DOMAIN jobs : jobs[j].status = "claimed" => j = current
      <3>1. Len(rows) \in Nat /\ DOMAIN rows = 1..Len(rows) /\ confirming \subseteq 1..Len(rows)
        BY <2>1 DEF Base, Types
      <3>2. current \in 0..Len(jobs)
        <4>1. jobs \in Seq(JobRows) /\ current \in Nat /\ (current # 0 => current \in 1..Len(jobs))
          BY <2>1 DEF Base, Types
        <4>. QED
          BY <4>1
      <3>3. digested \subseteq Sources /\ marks \subseteq Sources /\ told \subseteq Sources
        BY <2>1 DEF Base, Types
      <3>4. \A j \in DOMAIN jobs : jobs[j].status = "claimed" => j = current
        <4>1. DOMAIN jobs = 1..Len(jobs)
          BY <2>1 DEF Base, Types
        <4>2. \A j \in 1..Len(jobs) : jobs[j].status = "claimed" => j = current
          BY <2>1 DEF Base, LaneKept
        <4>. QED
          BY <4>1, <4>2
      <3>. QED
        BY <3>1, <3>2, <3>3, <3>4
    <2>. QED
      BY <2>1, <2>2, <2>3, <2>4 DEF TypeOK, ReadOff
  <1>. QED
    BY <1>1, PublishedAlways, DecisionsAlways, PTL
-----------------------------------------------------------------------------
(***************************************************************************)
(* A manifested claim is searchable.                                       *)
(*                                                                         *)
(* An index loses only what the delta deletes, the keys of the manifest    *)
(* the library had no more.  The danger is a commit that brings such a key *)
(* back while the manifest still lists it: the next delta would not write  *)
(* it.  A digest, a groom never do (a claim once filed stays, one in a     *)
(* volume stays there); a move would, if the manifest still had the page's *)
(* keys of the side it goes to.  It has them only while another decision   *)
(* of that page has moved it and is not through, and one that was taken up *)
(* first is finished first, unless the row was overtaken.                  *)
(*                                                                         *)
(* First, what a step may do to the rows of the archive and of the queue.  *)
(***************************************************************************)

\* The commits a step makes, if any.
LEMMA Committing ==
  [Next]_vars => \/ UNCHANGED history \/ WriteMeta \/ (\E p \in Pages : HandCommits(p))
                 \/ CompileCommits \/ GroomCommits \/ MoveDocuments
  BY DEF Next, Owner, Body, vars, RequestCompile, PlanArchive, ConfirmReads, ConfirmStale,
     ConfirmWrites, Drop, ClaimNext, WaitElapses, Interrupted, RoundFails, StoreAway, LeaveJob,
     SyncPlan, SyncRefused, WriteLexical, WriteVectors, AdvanceManifest, CompileNoop, RecordEvents,
     MarkDigested, CompileCompletes, MaybeTriggerRollover, MaybeTriggerChallenge,
     ChallengeCompensates, ChallengeCompletes, GroomDeclines, GroomFails, GroomCompletes,
     ArchiveNotConfirmed, ArchiveStale, ArchiveFails, ArchiveResumes, ArchiveStates, ArchiveProceeds,
     SetSourceArchived, MarksSet, RecordTerminal, ArchiveCompletes, LeaveStores

\* The stores it writes, if any.
LEMMA Writing ==
  [Next]_vars => /\ UNCHANGED pg \/ AdvanceManifest
                 /\ UNCHANGED lex \/ WriteLexical
                 /\ UNCHANGED vec \/ WriteVectors
  BY DEF Next, Owner, Body, vars, RequestCompile, PlanArchive, ConfirmReads, ConfirmStale,
     ConfirmWrites, Drop, ClaimNext, WaitElapses, Interrupted, RoundFails, StoreAway, LeaveJob,
     SyncPlan, SyncRefused, WriteLexical, WriteVectors, AdvanceManifest, CompileNoop, RecordEvents,
     MarkDigested, CompileCompletes, MaybeTriggerRollover, MaybeTriggerChallenge,
     ChallengeCompensates, ChallengeCompletes, GroomDeclines, GroomFails, GroomCompletes,
     ArchiveNotConfirmed, ArchiveStale, ArchiveFails, ArchiveResumes, ArchiveStates, ArchiveProceeds,
     SetSourceArchived, MarksSet, RecordTerminal, ArchiveCompletes, LeaveStores, stores,
     CompileCommits, GroomCommits, MoveDocuments, WriteMeta, HandCommits

Undecided == {"proposed", "stale", "dropped"}

\* A decision ends without its commit, or behind it.
GivesUp == ArchiveStale \/ (ArchiveFails /\ Landed = {})
Breaks == (SyncRefused /\ Me.kind = "archive") \/ (ArchiveFails /\ Landed # {})

\* A row of the archive is decided once, by its confirm, and its job then ends it.
RowsOnward ==
    /\ \A r \in 1..Len(rows) :
          /\ rows[r].status \in Undecided =>
                \/ rows'[r].status \in Undecided
                \/ rows'[r].status = "confirmed" /\ rows[r].status = "proposed" /\ ConfirmWrites(r)
                \/ rows'[r].broken /\ rows'[r].status = "failed"
          /\ rows[r].status \notin Undecided =>
                /\ rows'[r].sources = rows[r].sources /\ rows'[r].moves = rows[r].moves
                /\ \/ rows'[r].status = rows[r].status
                   \/ /\ rows[r].status = "confirmed" /\ Running("archive", at) /\ r = Me.arg
                      /\ \/ RecordTerminal /\ rows'[r].status = "executed"
                         \/ GivesUp /\ rows'[r].status = "failed"
                   \/ Breaks /\ Running("archive", at) /\ r = Me.arg /\ rows'[r].status = "failed"
                        /\ rows'[r].broken
    /\ \A r \in 1..Len(rows') : r > Len(rows) => rows'[r].status = "proposed"

LEMMA GivesUpUnmoved ==
  ASSUME DecisionInv, GivesUp
  PROVE  Unmoved(Me.arg)
  <1>1. current # 0 /\ Me.kind = "archive" /\ Landed = {}
    BY DEF GivesUp, ArchiveStale, ArchiveFails, Running
  <1>. QED
    BY <1>1, NotLanded

LEMMA RowsUnchanged == Base /\ UNCHANGED rows => RowsOnward
  BY DEF RowsOnward, Base, Types

LEMMA RowSteps == Base /\ [Next]_vars => RowsOnward
  <1>. SUFFICES ASSUME Base, [Next]_vars PROVE RowsOnward
    OBVIOUS
  <1>0. rows \in Seq(Proposals)
    BY DEF Base, Types
  <1>1. CASE UNCHANGED rows
    BY <1>1, RowsUnchanged
  <1>2. ASSUME NEW p \in Pages, PlanArchive(p) PROVE RowsOnward
    <2>. DEFINE new == [page |-> p, action |-> IF p \in Tree.archived THEN "unarchive" ELSE "archive",
                        sources |-> Filed(Tree, p), moves |-> TRUE, ref |-> HEAD,
                        status |-> "proposed", statement |-> FALSE, broken |-> FALSE]
    <2>1. rows' = Append(rows, new) /\ new.status = "proposed"
      BY <1>2 DEF PlanArchive
    <2>. HIDE DEF new
    <2>2. Len(rows') = Len(rows) + 1 /\ rows'[Len(rows) + 1] = new
          /\ \A r \in 1..Len(rows) : rows'[r] = rows[r]
      BY <1>0, <2>1, AppendProperties
    <2>. QED
      BY <1>0, <2>1, <2>2 DEF RowsOnward, Undecided
  <1>3. ASSUME NEW r \in DOMAIN rows, ConfirmStale(r) \/ Drop(r) PROVE RowsOnward
    <2>1. PICK st \in {"stale", "dropped"} : rows' = [rows EXCEPT ![r].status = st]
      BY <1>3 DEF ConfirmStale, Drop
    <2>2. rows[r].status \in {"proposed", "stale"}
      BY <1>3 DEF ConfirmStale, Drop
    <2>3. rows'[r].status = st /\ Len(rows') = Len(rows) /\ \A i \in 1..Len(rows) : i # r => rows'[i] = rows[i]
      <3>1. r \in 1..Len(rows) /\ rows[r] \in Proposals
        BY <1>0
      <3>. QED
        BY <1>0, <2>1, <3>1 DEF Proposals
    <2>. QED
      BY <1>0, <2>2, <2>3 DEF RowsOnward, Undecided
  <1>4. ASSUME NEW r \in DOMAIN rows, ConfirmWrites(r) PROVE RowsOnward
    <2>1. CASE rows[r].status # "proposed"
      BY <1>4, <2>1, RowsUnchanged DEF ConfirmWrites
    <2>2. CASE rows[r].status = "proposed"
      <3>1. PICK moves \in BOOLEAN, kept \in {{}, rows[r].sources} :
              rows' = [rows EXCEPT ![r].status = "confirmed", ![r].moves = moves, ![r].sources = kept]
        BY <1>4, <2>2 DEF ConfirmWrites
      <3>2. Len(rows') = Len(rows) /\ rows'[r].status = "confirmed"
            /\ \A i \in 1..Len(rows) : i # r => rows'[i] = rows[i]
        <4>1. r \in 1..Len(rows) /\ rows[r] \in Proposals
          BY <1>0
        <4>. QED
          BY <1>0, <3>1, <4>1 DEF Proposals
      <3>. QED
        BY <1>0, <1>4, <2>2, <3>2 DEF RowsOnward, Undecided
    <2>. QED
      BY <2>1, <2>2
  <1>5. CASE ArchiveStates \/ RecordTerminal \/ ArchiveStale \/ ArchiveFails \/ SyncRefused
    <2>1. CASE SyncRefused /\ Me.kind # "archive"
      BY <2>1, RowsUnchanged DEF SyncRefused
    <2>2. CASE \/ ArchiveStates \/ RecordTerminal \/ ArchiveStale \/ ArchiveFails
               \/ (SyncRefused /\ Me.kind = "archive")
      <3>1. current # 0 /\ Me.kind = "archive" /\ Running("archive", at)
        BY <2>2 DEF ArchiveStates, RecordTerminal, ArchiveStale, ArchiveFails, SyncRefused, Running
      <3>2. Row \in Proposals /\ Me.arg \in 1..Len(rows) /\ Row = rows[Me.arg]
        BY <3>1, RowType DEF Row
      <3>r. PICK r \in 1..Len(rows) : r = Me.arg
        BY <3>2
      <3>3. CASE ArchiveStates
        <4>1. rows' = [rows EXCEPT ![r].statement = TRUE]
          BY <3>3, <3>r DEF ArchiveStates
        <4>. QED
          BY <1>0, <4>1 DEF RowsOnward, Proposals
      <3>4. CASE RecordTerminal
        <4>1. rows' = rows \/ (rows' = [rows EXCEPT ![r].status = "executed"] /\ rows[r].status = "confirmed")
          BY <3>2, <3>4, <3>r DEF RecordTerminal
        <4>2. CASE rows' = [rows EXCEPT ![r].status = "executed"] /\ rows[r].status = "confirmed"
          <5>1. /\ rows'[r].status = "executed" /\ rows'[r].sources = rows[r].sources
                /\ rows'[r].moves = rows[r].moves /\ Len(rows') = Len(rows)
                /\ \A i \in 1..Len(rows) : i # r => rows'[i] = rows[i]
            BY <1>0, <4>2 DEF Proposals
          <5>. QED
            BY <1>0, <3>1, <3>4, <3>r, <4>2, <5>1 DEF RowsOnward, Undecided
        <4>. QED
          BY <4>1, <4>2, RowsUnchanged
      <3>5. CASE ArchiveStale
        <4>1. rows' = [rows EXCEPT ![r].status = "failed"] /\ rows[r].status = "confirmed"
          BY <3>2, <3>5, <3>r DEF ArchiveStale
        <4>2. /\ rows'[r].status = "failed" /\ rows'[r].sources = rows[r].sources
              /\ rows'[r].moves = rows[r].moves /\ Len(rows') = Len(rows)
              /\ \A i \in 1..Len(rows) : i # r => rows'[i] = rows[i]
          BY <1>0, <4>1 DEF Proposals
        <4>. QED
          BY <1>0, <3>1, <3>5, <3>r, <4>1, <4>2 DEF RowsOnward, Undecided, GivesUp
      <3>6. CASE SyncRefused /\ Me.kind = "archive"
        <4>1. rows' = [rows EXCEPT ![r].status = "failed", ![r].broken = TRUE]
          BY <3>6, <3>r DEF SyncRefused
        <4>2. /\ rows'[r].status = "failed" /\ rows'[r].sources = rows[r].sources /\ rows'[r].broken
              /\ rows'[r].moves = rows[r].moves /\ Len(rows') = Len(rows)
              /\ \A i \in 1..Len(rows) : i # r => rows'[i] = rows[i]
          BY <1>0, <4>1 DEF Proposals
        <4>. QED
          BY <1>0, <3>1, <3>6, <3>r, <4>2 DEF RowsOnward, Undecided, Breaks
      <3>7. CASE ArchiveFails
        <4>1. /\ rows' = [rows EXCEPT ![r].status = "failed", ![r].broken = @ \/ Landed # {}]
              /\ rows[r].status = "confirmed"
          BY <3>2, <3>7, <3>r DEF ArchiveFails
        <4>2. /\ rows'[r].status = "failed" /\ rows'[r].sources = rows[r].sources
              /\ rows'[r].moves = rows[r].moves /\ Len(rows') = Len(rows)
              /\ \A i \in 1..Len(rows) : i # r => rows'[i] = rows[i]
          BY <1>0, <4>1 DEF Proposals
        <4>3. CASE Landed = {}
          BY <1>0, <3>1, <3>7, <3>r, <4>1, <4>2, <4>3 DEF RowsOnward, Undecided, GivesUp
        <4>4. CASE Landed # {}
          <5>1. rows'[r].broken
            <6>1. rows[r] \in Proposals /\ r \in DOMAIN rows
              BY <1>0
            <6>2. rows' = [rows EXCEPT ![r].status = "failed", ![r].broken = TRUE]
              BY <4>1, <4>4
            <6>. QED
              BY <1>0, <6>1, <6>2 DEF Proposals
          <5>2. Breaks
            BY <3>7, <4>4 DEF Breaks
          <5>. QED
            BY <1>0, <3>1, <3>r, <4>1, <4>2, <5>1, <5>2 DEF RowsOnward, Undecided
        <4>. QED
          BY <4>3, <4>4
      <3>. QED
        BY <2>2, <3>3, <3>4, <3>5, <3>6, <3>7
    <2>. QED
      BY <1>5, <2>1, <2>2
  <1>. QED
    BY <1>1, <1>2, <1>3, <1>4, <1>5 DEF Next, Owner, Body, vars, RequestCompile, ConfirmReads,
     ClaimNext, WaitElapses, Interrupted, RoundFails, StoreAway, LeaveJob,
     SyncPlan, WriteLexical, WriteVectors, AdvanceManifest, CompileNoop, RecordEvents,
     MarkDigested, CompileCompletes, MaybeTriggerRollover, MaybeTriggerChallenge,
     ChallengeCompensates, ChallengeCompletes, GroomDeclines, GroomFails, GroomCompletes,
     ArchiveNotConfirmed, ArchiveResumes, ArchiveProceeds,
     SetSourceArchived, MarksSet, ArchiveCompletes, LeaveStores,
     CompileCommits, GroomCommits, MoveDocuments, WriteMeta, HandCommits

\* A row of the queue only loses its place in time: it never comes back once it has ended, and
\* it waits only after a try.
Onward(old, new) ==
    /\ new.tries >= old.tries
    /\ old.cut = "behind" => new.cut = "behind"
    /\ new.status \in Open => old.status \in Open
    /\ new.status \in {"waiting", "paused"} /\ new # old => new.tries > 0 /\ new.cut # "midway"

Ending == 
    \/ CompileCompletes \/ ChallengeCompletes \/ GroomDeclines \/ GroomFails \/ GroomCompletes
    \/ ArchiveNotConfirmed \/ ArchiveStale \/ ArchiveFails \/ ArchiveCompletes
    \/ (SyncRefused /\ Me.kind = "archive")

QueueOnward ==
    /\ \A j \in 1..Len(jobs) :
          /\ Onward(jobs[j], jobs'[j])
          /\ j # current => /\ jobs'[j].tries = jobs[j].tries /\ jobs'[j].cut = jobs[j].cut
                            /\ jobs[j].status \in Open => jobs'[j].status \in Open
          /\ jobs[j].status \in Open /\ jobs'[j].status \notin Open => Ending
          /\ Ending => jobs'[j].tries = jobs[j].tries /\ jobs'[j].cut = jobs[j].cut
    /\ \A j \in 1..Len(jobs') : j > Len(jobs) =>
          /\ jobs'[j].tries = 0 /\ jobs'[j].cut = "no" /\ j = Len(jobs) + 1
          /\ jobs'[j].kind = "archive" =>
                /\ jobs'[j].arg \in 1..Len(rows) /\ ConfirmWrites(jobs'[j].arg)
                /\ rows[jobs'[j].arg].status = "proposed" /\ rows'[jobs'[j].arg].status = "confirmed"
    /\ current' # 0 => current' = current \/ ClaimNext

LEMMA JobPut ==
  ASSUME Base, NEW j \in 1..Len(jobs), NEW new, jobs' = [jobs EXCEPT ![j] = new]
  PROVE  Len(jobs') = Len(jobs) /\ jobs'[j] = new /\ \A i \in 1..Len(jobs) : i # j => jobs'[i] = jobs[i]
  BY DEF Base, Types

LEMMA JobJoins ==
  ASSUME Base, NEW row, jobs' = Append(jobs, row)
  PROVE  Len(jobs') = Len(jobs) + 1 /\ jobs'[Len(jobs) + 1] = row /\ \A i \in 1..Len(jobs) : jobs'[i] = jobs[i]
  BY AppendProperties DEF Base, Types

LEMMA OnwardSame ==
  ASSUME Base, NEW j \in 1..Len(jobs), jobs'[j] = jobs[j]
  PROVE  Onward(jobs[j], jobs'[j])
  <1>1. jobs[j] \in JobRows
    BY DEF Base, Types
  <1>2. jobs[j].tries \in Nat
    BY <1>1 DEF JobRows
  <1>. QED
    BY <1>2 DEF Onward

LEMMA JobsStay ==
  ASSUME Base, UNCHANGED jobs, current' # 0 => current' = current
  PROVE  QueueOnward
  BY OnwardSame DEF QueueOnward, Base, Types

LEMMA JobsJoin ==
  ASSUME Base, NEW row, jobs' = Append(jobs, row), row.tries = 0, row.cut = "no",
         row.kind = "archive" => /\ row.arg \in 1..Len(rows) /\ ConfirmWrites(row.arg)
                                 /\ rows[row.arg].status = "proposed" /\ rows'[row.arg].status = "confirmed",
         current' # 0 => current' = current
  PROVE  QueueOnward
  <1>1. Len(jobs) \in Nat /\ Len(jobs') = Len(jobs) + 1 /\ jobs'[Len(jobs) + 1] = row
        /\ \A i \in 1..Len(jobs) : jobs'[i] = jobs[i]
    BY JobJoins DEF Base, Types
  <1>2. \A j \in 1..Len(jobs) : Onward(jobs[j], jobs'[j])
    BY <1>1, OnwardSame
  <1>3. \A j \in 1..Len(jobs') : j > Len(jobs) => j = Len(jobs) + 1
    BY <1>1
  <1>4. current' # 0 => current' = current \/ ClaimNext
    OBVIOUS
  <1>5. \A j \in 1..Len(jobs) : /\ jobs'[j].tries = jobs[j].tries /\ jobs'[j].cut = jobs[j].cut
                                /\ jobs'[j].status = jobs[j].status
    BY <1>1
  <1>. QED
    BY <1>1, <1>2, <1>3, <1>4, <1>5 DEF QueueOnward

\* The current row is the one that changes.
LEMMA CurrentMoves ==
  ASSUME Base, current # 0, NEW new, jobs' = [jobs EXCEPT ![current] = new], Onward(Me, new),
         new.status \notin Open => Ending,
         Ending => new.tries = Me.tries /\ new.cut = Me.cut,
         current' # 0 => current' = current
  PROVE  QueueOnward
  <1>1. current \in 1..Len(jobs) /\ Len(jobs) \in Nat
    BY DEF Base, Types
  <1>2. Len(jobs') = Len(jobs) /\ jobs'[current] = new
        /\ \A i \in 1..Len(jobs) : i # current => jobs'[i] = jobs[i]
    BY <1>1, JobPut
  <1>3. \A j \in 1..Len(jobs) : Onward(jobs[j], jobs'[j])
    BY <1>2, OnwardSame DEF Me
  <1>4. \A j \in 1..Len(jobs) : j # current => /\ jobs'[j].tries = jobs[j].tries /\ jobs'[j].cut = jobs[j].cut
                                               /\ jobs'[j].status = jobs[j].status
    BY <1>2
  <1>5. \A j \in 1..Len(jobs) : jobs[j].status \in Open /\ jobs'[j].status \notin Open => Ending
    BY <1>2, <1>4
  <1>6. \A j \in 1..Len(jobs) : Ending => jobs'[j].tries = jobs[j].tries /\ jobs'[j].cut = jobs[j].cut
    BY <1>2, <1>4 DEF Me
  <1>7. ~\E j \in 1..Len(jobs') : j > Len(jobs)
    BY <1>1, <1>2
  <1>8. current' # 0 => current' = current \/ ClaimNext
    OBVIOUS
  <1>. QED
    BY <1>3, <1>4, <1>5, <1>6, <1>7, <1>8 DEF QueueOnward

\* The row a body ends is done or failed, and otherwise as it was.
LEMMA EndedRow ==
  ASSUME Base, Ending
  PROVE  /\ current # 0 /\ current \in 1..Len(jobs) /\ Me \in JobRows
         /\ current' # 0 => current' = current
         /\ \E new : /\ jobs' = [jobs EXCEPT ![current] = new] /\ new.status \in {"done", "failed"}
                     /\ new.tries = Me.tries /\ new.cut = Me.cut
  <1>1. current # 0 /\ current \in 1..Len(jobs) /\ Me \in JobRows /\ (current' # 0 => current' = current)
    BY MeType DEF Ending, CompileCompletes, ChallengeCompletes, GroomDeclines, GroomFails,
       GroomCompletes, ArchiveNotConfirmed, ArchiveStale, ArchiveFails, ArchiveCompletes, SyncRefused,
       Running, End
  <1>2. \E st, ref : st \in {"done", "failed"} /\ jobs' = Ended(st, ref)
    <2>1. CASE CompileCompletes \/ ChallengeCompletes \/ GroomDeclines \/ GroomFails \/ GroomCompletes
      BY <2>1 DEF CompileCompletes, ChallengeCompletes, GroomDeclines, GroomFails, GroomCompletes, End
    <2>2. CASE \/ ArchiveNotConfirmed \/ ArchiveStale \/ ArchiveFails \/ ArchiveCompletes
               \/ (SyncRefused /\ Me.kind = "archive")
      BY <2>2 DEF ArchiveNotConfirmed, ArchiveStale, ArchiveFails, ArchiveCompletes, SyncRefused, End
    <2>. QED
      BY <2>1, <2>2 DEF Ending
  <1>3. PICK st, ref : st \in {"done", "failed"} /\ jobs' = Ended(st, ref)
    BY <1>2
  <1>. DEFINE new == [Me EXCEPT !.status = st, !.ref = ref]
  <1>4. /\ jobs' = [jobs EXCEPT ![current] = new] /\ new.tries = Me.tries /\ new.cut = Me.cut
        /\ new.status \in {"done", "failed"}
    BY <1>1, <1>3 DEF Ended, Me, JobRows
  <1>. HIDE DEF new
  <1>. QED
    BY <1>1, <1>4

LEMMA QueueSteps == Base /\ [Next]_vars => QueueOnward
  <1>. SUFFICES ASSUME Base, [Next]_vars PROVE QueueOnward
    OBVIOUS
  <1>0. jobs \in Seq(JobRows)
    BY DEF Base, Types
  <1>1. CASE UNCHANGED jobs /\ (current' # 0 => current' = current)
    BY <1>1, JobsStay
  <1>2. ASSUME NEW s \in Sources, RequestCompile(s) PROVE QueueOnward
    <2>1. jobs' = Append(jobs, Job("compile", s, FALSE)) /\ UNCHANGED current
      BY <1>2 DEF RequestCompile
    <2>. QED
      BY <2>1, JobsJoin DEF Job
  <1>3. ASSUME NEW r \in DOMAIN rows, ConfirmWrites(r) PROVE QueueOnward
    <2>0. r \in 1..Len(rows)
      BY DEF Base, Types
    <2>1. CASE rows[r].status # "proposed"
      BY <1>3, <2>1, JobsStay DEF ConfirmWrites
    <2>2. CASE rows[r].status = "proposed"
      <3>1. jobs' = Append(jobs, Job("archive", r, FALSE)) /\ UNCHANGED current
        BY <1>3, <2>2 DEF ConfirmWrites
      <3>2. rows'[r].status = "confirmed"
        <4>1. \E moves, kept : rows' = [rows EXCEPT ![r].status = "confirmed", ![r].moves = moves, ![r].sources = kept]
          BY <1>3, <2>2 DEF ConfirmWrites
        <4>2. rows[r] \in Proposals /\ rows \in Seq(Proposals)
          BY <2>0 DEF Base, Types
        <4>. QED
          BY <2>0, <4>1, <4>2 DEF Proposals
      <3>. QED
        BY <1>3, <2>0, <2>2, <3>1, <3>2, JobsJoin DEF Job
    <2>. QED
      BY <2>1, <2>2
  <1>4. ASSUME NEW j \in DOMAIN jobs, WaitElapses(j) PROVE QueueOnward
    <2>1. j \in 1..Len(jobs) /\ jobs[j] \in JobRows /\ Len(jobs) \in Nat
      BY <1>0
    <2>. DEFINE new == [jobs[j] EXCEPT !.status = "queued"]
    <2>2. /\ new.status = "queued" /\ new.tries = jobs[j].tries /\ new.cut = jobs[j].cut
          /\ jobs[j].status = "waiting" /\ jobs' = [jobs EXCEPT ![j] = new] /\ UNCHANGED current
      BY <1>4, <2>1 DEF WaitElapses, JobRows
    <2>. HIDE DEF new
    <2>3. Onward(jobs[j], new)
      BY <2>1, <2>2 DEF Onward, Open, JobRows
    <2>4. Len(jobs') = Len(jobs) /\ jobs'[j] = new /\ \A i \in 1..Len(jobs) : i # j => jobs'[i] = jobs[i]
      BY <2>1, <2>2, JobPut
    <2>5. \A i \in 1..Len(jobs) : /\ Onward(jobs[i], jobs'[i])
                                  /\ jobs'[i].tries = jobs[i].tries /\ jobs'[i].cut = jobs[i].cut
                                  /\ jobs[i].status \in Open => jobs'[i].status \in Open
      BY <2>2, <2>3, <2>4, OnwardSame DEF Open
    <2>6. ~\E i \in 1..Len(jobs') : i > Len(jobs)
      BY <2>1, <2>4
    <2>. QED
      BY <2>2, <2>5, <2>6 DEF QueueOnward
  <1>5. CASE ClaimNext
    <2>1. PICK j \in DOMAIN jobs :
            jobs[j].status = "queued" /\ jobs' = [jobs EXCEPT ![j].status = "claimed"]
      BY <1>5 DEF ClaimNext
    <2>2. j \in 1..Len(jobs) /\ jobs[j] \in JobRows /\ Len(jobs) \in Nat
      BY <1>0
    <2>. DEFINE new == [jobs[j] EXCEPT !.status = "claimed"]
    <2>3. /\ new.status = "claimed" /\ new.tries = jobs[j].tries /\ new.cut = jobs[j].cut
          /\ jobs' = [jobs EXCEPT ![j] = new]
      BY <2>1, <2>2 DEF JobRows
    <2>. HIDE DEF new
    <2>4. Onward(jobs[j], new)
      BY <2>1, <2>2, <2>3 DEF Onward, Open, JobRows
    <2>5. Len(jobs') = Len(jobs) /\ jobs'[j] = new /\ \A i \in 1..Len(jobs) : i # j => jobs'[i] = jobs[i]
      BY <2>2, <2>3, JobPut
    <2>6. \A i \in 1..Len(jobs) : /\ Onward(jobs[i], jobs'[i])
                                  /\ jobs'[i].tries = jobs[i].tries /\ jobs'[i].cut = jobs[i].cut
                                  /\ jobs[i].status \in Open => jobs'[i].status \in Open
      BY <2>3, <2>4, <2>5, OnwardSame DEF Open
    <2>7. ~\E i \in 1..Len(jobs') : i > Len(jobs)
      BY <2>2, <2>5
    <2>. QED
      BY <1>5, <2>6, <2>7 DEF QueueOnward
  <1>6. CASE Ending
    <2>1. PICK new : /\ jobs' = [jobs EXCEPT ![current] = new] /\ new.status \in {"done", "failed"}
                     /\ new.tries = Me.tries /\ new.cut = Me.cut
      BY <1>6, EndedRow
    <2>2. current # 0 /\ Me \in JobRows /\ (current' # 0 => current' = current)
      BY <1>6, EndedRow
    <2>3. Onward(Me, new)
      BY <2>1, <2>2 DEF Onward, Open, JobRows
    <2>. QED
      BY <1>6, <2>1, <2>2, <2>3, CurrentMoves
  <1>7. CASE Interrupted \/ RoundFails \/ StoreAway \/ (SyncRefused /\ Me.kind # "archive")
    <2>1. current # 0 /\ Me \in JobRows /\ current' = 0
      BY <1>7, MeType DEF Interrupted, RoundFails, StoreAway, LeaveJob, SyncRefused
    <2>2. CASE jobs' = jobs
      BY <2>1, <2>2, JobsStay
    <2>3. CASE jobs' # jobs
      <3>1. \/ jobs' = [jobs EXCEPT ![current] = Requeued(Me)]
            \/ jobs' = [jobs EXCEPT ![current] = Parked(Me)]
        BY <1>7, <2>3 DEF Interrupted, RoundFails, StoreAway, LeaveJob, SyncRefused, Me
      <3>2. Me.status = "claimed" /\ ~Ending
        <4>1. Me.status = "claimed"
          BY <1>7, <2>1, <2>3 DEF Interrupted, RoundFails, StoreAway, LeaveJob, SyncRefused, Base, LaneKept, Me
        <4>2. jobs'[current].status \in Open
          <5>1. current \in 1..Len(jobs) /\ Requeued(Me).status \in Open /\ Parked(Me).status \in Open
            BY <2>1, MeType DEF Requeued, Parked, Open, JobRows
          <5>. QED
            BY <3>1, <5>1, JobPut
        <4>3. ~Ending
          BY <4>2, EndedRow, JobPut DEF Open
        <4>. QED
          BY <4>1, <4>3
      <3>. DEFINE r == Requeued(Me)  p == Parked(Me)
      <3>3. /\ r.tries = Me.tries /\ r.cut = Cut(Me, EarlierOpen) /\ r.status = "queued"
            /\ p.tries = Me.tries + 1 /\ p.cut \in {"no", "behind"} /\ p.status \in {"waiting", "paused"}
            /\ Me.cut = "behind" => p.cut = "behind" /\ r.cut = "behind"
        BY <2>1 DEF Requeued, Parked, Cut, JobRows
      <3>. HIDE DEF r, p
      <3>4. Onward(Me, r) /\ Onward(Me, p)
        BY <2>1, <3>2, <3>3 DEF Onward, Open, JobRows
      <3>. QED
        BY <2>1, <3>1, <3>2, <3>3, <3>4, CurrentMoves DEF r, p, Open
    <2>. QED
      BY <2>2, <2>3
  <1>8. CASE MaybeTriggerRollover \/ MaybeTriggerChallenge \/ ChallengeCompensates
    <2>1. /\ current' # 0 => current' = current
          /\ \/ UNCHANGED jobs
             \/ \E kind, arg, again : kind # "archive" /\ jobs' = Append(jobs, Job(kind, arg, again))
      BY <1>8 DEF MaybeTriggerRollover, MaybeTriggerChallenge, ChallengeCompensates
    <2>2. CASE UNCHANGED jobs
      BY <2>1, <2>2, JobsStay
    <2>3. ASSUME NEW kind, NEW arg, NEW again, kind # "archive",
                 jobs' = Append(jobs, Job(kind, arg, again))
          PROVE  QueueOnward
      <3>. DEFINE row == Job(kind, arg, again)
      <3>1. row.tries = 0 /\ row.cut = "no" /\ row.kind # "archive"
        BY <2>3 DEF Job
      <3>2. jobs' = Append(jobs, row)
        BY <2>3
      <3>. HIDE DEF row
      <3>. QED
        BY <2>1, <3>1, <3>2, JobsJoin
    <2>. QED
      BY <2>1, <2>2, <2>3
  <1>9. CASE Body
    <2>1. CASE \/ SyncPlan \/ WriteLexical \/ WriteVectors \/ AdvanceManifest \/ CompileNoop
               \/ RecordEvents \/ MarkDigested \/ ArchiveResumes \/ ArchiveProceeds
               \/ SetSourceArchived \/ MarksSet
      BY <1>1, <2>1, StoresBase
    <2>2. CASE CompileCommits \/ GroomCommits \/ MoveDocuments
      BY <1>1, <2>2, CommitsBase
    <2>3. CASE ArchiveStates \/ RecordTerminal
      BY <1>1, <2>3, RowWritesBase
    <2>. QED
      BY <1>6, <1>7, <1>8, <1>9, <2>1, <2>2, <2>3 DEF Body, Ending
  <1>. QED
    BY <1>1, <1>2, <1>3, <1>4, <1>5, <1>6, <1>7, <1>9 DEF Next, Owner, Ending, vars, lane, PlanArchive, ConfirmReads,
       ConfirmStale, Drop, WriteMeta, HandCommits
-----------------------------------------------------------------------------
(* One row of the queue per decision, and the order in which rows are taken up again. *)

\* One row of the queue per decision, and a confirmed one is still to run.
Opened(j) == jobs[j].status \in Open
Arch(j) == jobs[j].kind = "archive"

Waited == \A j \in 1..Len(jobs) : jobs[j].status \in {"waiting", "paused"} =>
              jobs[j].tries > 0 /\ jobs[j].cut # "midway"
Once == \A i, j \in 1..Len(jobs) : Arch(i) /\ Arch(j) /\ jobs[i].arg = jobs[j].arg => i = j
Asked == \A j \in 1..Len(jobs) : Arch(j) => rows[jobs[j].arg].status \notin Undecided
Awaited == \A r \in 1..Len(rows) : rows[r].status = "confirmed" =>
              \E j \in 1..Len(jobs) : Arch(j) /\ jobs[j].arg = r /\ Opened(j)
Fresh == \A r \in 1..Len(rows) : rows[r].status \in Undecided => Unmoved(r)

\* A row once taken up is passed only by what was tried before.
Taken(j) == j = current \/ jobs[j].tries > 0 \/ jobs[j].cut # "no" \/ (Arch(j) /\ ~Unmoved(jobs[j].arg))
InOrder == \A j \in 1..Len(jobs) : Taken(j) => \A i \in 1..(j - 1) : Opened(i) => jobs[i].tries > 0

\* An archive body knows of the commit that carries its trailer, and completes a decided row.
Knows == (Running("archive", "marks") \/ Running("archive", "terminal")) => work.ref # 0 \/ Unmoved(Me.arg)
Decided == Running("archive", "complete") => Row.status # "confirmed"

QueueInv == PublishedInv /\ DecisionInv /\ Waited /\ Once /\ Asked /\ Awaited /\ Fresh /\ InOrder /\ Knows /\ Decided

LEMMA UnmovedStays ==
  ASSUME Base, [Next]_vars, NEW r \in Nat \ {0}, Unmoved(r), ~(MoveDocuments /\ r = Me.arg)
  PROVE  Unmoved(r)'
  <1>1. history \in Seq(Commits)
    BY DEF Base, Types
  <1>2. CASE UNCHANGED history
    BY <1>2 DEF Unmoved
  <1>3. ASSUME NEW c, history' = Append(history, c), c.proposal # r PROVE Unmoved(r)'
    <2>1. Len(history') = Len(history) + 1 /\ history'[Len(history) + 1] = c
          /\ \A k \in 1..Len(history) : history'[k] = history[k]
      BY <1>1, <1>3, AppendProperties
    <2>. QED
      BY <1>1, <1>3, <2>1 DEF Unmoved
  <1>4. CASE WriteMeta \/ (\E p \in Pages : HandCommits(p)) \/ CompileCommits \/ GroomCommits
    <2>1. \E t, by : history' = Append(history, [tree |-> t, by |-> by, proposal |-> 0])
      BY <1>4 DEF WriteMeta, HandCommits, CompileCommits, GroomCommits, Commit
    <2>. QED
      BY <1>3, <2>1
  <1>5. CASE MoveDocuments /\ r # Me.arg
    <2>1. \E t : history' = Append(history, [tree |-> t, by |-> "archive", proposal |-> Me.arg])
      BY <1>5 DEF MoveDocuments, Commit
    <2>. QED
      BY <1>3, <1>5, <2>1
  <1>. QED
    BY <1>2, <1>4, <1>5, Committing

LEMMA MovedStays ==
  ASSUME Base, Follows, NEW r, ~Unmoved(r)
  PROVE  ~(Unmoved(r)')
  BY DEF Unmoved, Follows, HistoryGrows, Base, Types

\* How a body comes to where it is.
LEMMA BodySteps ==
  ASSUME Base, [Next]_vars, current' # 0
  PROVE  \/ UNCHANGED <<current, at, work>>
         \/ ClaimNext /\ at' = "run" /\ work' = Blank
         \/ current' = current /\ Body
  BY DEF Next, Owner, vars, lane, RequestCompile, PlanArchive, ConfirmReads, ConfirmStale, ConfirmWrites,
     Drop, ClaimNext, WaitElapses, Interrupted, RoundFails, StoreAway, LeaveJob, WriteMeta, HandCommits,
     Body, SyncRefused, CompileCompletes, MaybeTriggerRollover, MaybeTriggerChallenge,
     ChallengeCompensates, ChallengeCompletes, GroomDeclines, GroomFails, GroomCompletes,
     ArchiveNotConfirmed, ArchiveStale, ArchiveFails, ArchiveCompletes, End, SyncPlan, WriteLexical, WriteVectors,
     AdvanceManifest, CompileNoop, RecordEvents, MarkDigested, ArchiveResumes, ArchiveProceeds,
     SetSourceArchived, MarksSet, CompileCommits, GroomCommits, MoveDocuments, ArchiveStates,
     RecordTerminal, Goto

LEMMA MeStays ==
  ASSUME Base, Follows, current # 0, current' = current
  PROVE  Me'.kind = Me.kind /\ Me'.arg = Me.arg
  BY MeType DEF Me, Follows, JobsFollow

LEMMA ArchiveSteps ==
  ASSUME Base, [Next]_vars, current' # 0, Me'.kind = "archive"
  PROVE  \/ UNCHANGED <<current, at, work>>
         \/ ClaimNext /\ at' = "run" /\ work' = Blank
         \/ /\ current' = current /\ current # 0 /\ Me.kind = "archive"
            /\ \/ ArchiveStates \/ ArchiveProceeds \/ ArchiveResumes \/ MoveDocuments
               \/ SetSourceArchived \/ MarksSet \/ SyncPlan \/ WriteLexical \/ WriteVectors
               \/ AdvanceManifest \/ RecordTerminal
  <1>1. CASE current' = current /\ Body
    <2>1. current # 0 /\ Me.kind = "archive"
      BY <1>1, StepBase, MeStays
    <2>. QED
      BY <1>1, <2>1 DEF Body, SyncRefused, End, CompileCommits, CompileNoop, RecordEvents, MarkDigested,
         CompileCompletes, MaybeTriggerRollover, MaybeTriggerChallenge, ChallengeCompensates,
         ChallengeCompletes, GroomCommits, GroomDeclines, GroomFails, GroomCompletes,
         ArchiveNotConfirmed, ArchiveStale, ArchiveCompletes, Running
  <1>. QED
    BY <1>1, BodySteps

LEMMA WaitedStep ==
  ASSUME Base, Follows, QueueOnward, Waited
  PROVE  Waited'
  <1>. SUFFICES ASSUME NEW j \in 1..Len(jobs'), jobs'[j].status \in {"waiting", "paused"}
                PROVE  jobs'[j].tries > 0 /\ jobs'[j].cut # "midway"
    BY DEF Waited
  <1>1. CASE j \in 1..Len(jobs)
    <2>1. Onward(jobs[j], jobs'[j])
      BY <1>1 DEF QueueOnward
    <2>2. CASE jobs'[j] = jobs[j]
      BY <1>1, <2>2 DEF Waited
    <2>. QED
      BY <2>1, <2>2 DEF Onward
  <1>2. CASE j \notin 1..Len(jobs)
    <2>1. j > Len(jobs)
      BY <1>2 DEF Base, Types
    <2>. QED
      BY <2>1 DEF Follows, JobsFollow
  <1>. QED
    BY <1>1, <1>2

\* Rows new to the queue.
LEMMA Joined ==
  ASSUME Base, Follows, QueueOnward, NEW j \in 1..Len(jobs'), j \notin 1..Len(jobs)
  PROVE  /\ j = Len(jobs) + 1 /\ jobs'[j].tries = 0 /\ jobs'[j].cut = "no" /\ jobs'[j].status = "queued"
         /\ jobs'[j].kind = "archive" =>
                /\ jobs'[j].arg \in 1..Len(rows) /\ ConfirmWrites(jobs'[j].arg)
                /\ rows[jobs'[j].arg].status = "proposed" /\ rows'[jobs'[j].arg].status = "confirmed"
  <1>1. j > Len(jobs)
    BY DEF Base, Types
  <1>. QED
    BY <1>1 DEF QueueOnward, Follows, JobsFollow

LEMMA AskedStep ==
  ASSUME Base, Follows, QueueOnward, RowsOnward, Asked
  PROVE  Asked'
  <1>. SUFFICES ASSUME NEW j \in 1..Len(jobs'), jobs'[j].kind = "archive"
                PROVE  rows'[jobs'[j].arg].status \notin Undecided
    BY DEF Asked, Arch
  <1>1. CASE j \in 1..Len(jobs)
    <2>1. PICK r \in 1..Len(rows) : r = jobs[j].arg /\ r = jobs'[j].arg
      BY <1>1 DEF Base, LaneKept, Follows, JobsFollow
    <2>2. rows[r].status \notin Undecided
      BY <1>1, <2>1 DEF Asked, Arch, Follows, JobsFollow
    <2>. QED
      BY <2>1, <2>2 DEF RowsOnward, Undecided
  <1>2. CASE j \notin 1..Len(jobs)
    BY <1>2, Joined DEF Undecided
  <1>. QED
    BY <1>1, <1>2

LEMMA OnceStep ==
  ASSUME Base, Follows, QueueOnward, Asked, Once
  PROVE  Once'
  <1>. SUFFICES ASSUME NEW i \in 1..Len(jobs'), NEW j \in 1..Len(jobs'), Arch(i)', Arch(j)',
                       jobs'[i].arg = jobs'[j].arg
                PROVE  i = j
    BY DEF Once
  <1>1. CASE i \in 1..Len(jobs) /\ j \in 1..Len(jobs)
    BY <1>1 DEF Once, Arch, Follows, JobsFollow
  <1>2. ASSUME NEW a \in 1..Len(jobs), NEW b \in 1..Len(jobs'), b \notin 1..Len(jobs), Arch(a)', Arch(b)',
               jobs'[a].arg = jobs'[b].arg
        PROVE  FALSE
    <2>1. rows[jobs'[b].arg].status = "proposed"
      BY <1>2, Joined DEF Arch
    <2>2. Arch(a) /\ jobs[a].arg = jobs'[b].arg
      BY <1>2 DEF Arch, Follows, JobsFollow
    <2>. QED
      BY <2>1, <2>2 DEF Asked, Undecided
  <1>3. CASE i \notin 1..Len(jobs) /\ j \notin 1..Len(jobs)
    BY <1>3, Joined
  <1>. QED
    BY <1>1, <1>2, <1>3

LEMMA AwaitedStep ==
  ASSUME Base, Follows, QueueOnward, RowsOnward, Awaited, Decided
  PROVE  Awaited'
  <1>. SUFFICES ASSUME NEW r \in 1..Len(rows'), rows'[r].status = "confirmed"
                PROVE  \E j \in 1..Len(jobs') : jobs'[j].kind = "archive" /\ jobs'[j].arg = r
                                                /\ jobs'[j].status \in Open
    BY DEF Awaited, Arch, Opened
  <1>1. r \in 1..Len(rows)
    BY DEF RowsOnward, Base, Types
  <1>2. CASE rows[r].status = "confirmed"
    <2>1. PICK j \in 1..Len(jobs) : Arch(j) /\ jobs[j].arg = r /\ Opened(j)
      BY <1>1, <1>2 DEF Awaited
    <2>2. j \in 1..Len(jobs') /\ jobs'[j].kind = "archive" /\ jobs'[j].arg = r
      BY <2>1 DEF Arch, Follows, JobsFollow, Base, Types
    <2>3. ASSUME jobs'[j].status \notin Open PROVE FALSE
      <3>1. Ending /\ j = current
        BY <2>1, <2>3 DEF Opened, QueueOnward
      <3>2. current # 0 /\ Me.kind = "archive" /\ Me.arg = r /\ Row = rows[r]
        BY <2>1, <3>1 DEF Arch, Me, Row
      <3>3. ArchiveNotConfirmed \/ ArchiveStale \/ ArchiveFails \/ ArchiveCompletes \/ SyncRefused
        BY <3>1, <3>2 DEF Ending, CompileCompletes, ChallengeCompletes, GroomDeclines, GroomFails,
           GroomCompletes, Running
      <3>4. rows \in Seq(Proposals) /\ rows[r] \in Proposals
        BY <1>1 DEF Base, Types
      <3>5. CASE ArchiveNotConfirmed \/ ArchiveCompletes
        BY <1>2, <3>2, <3>5 DEF ArchiveNotConfirmed, ArchiveCompletes, Decided
      <3>6. CASE ArchiveStale \/ ArchiveFails \/ SyncRefused
        <4>1. rows'[r].status = "failed"
          BY <1>1, <3>2, <3>4, <3>6 DEF ArchiveStale, ArchiveFails, SyncRefused, Proposals
        <4>. QED
          BY <4>1
      <3>. QED
        BY <3>3, <3>5, <3>6
    <2>. QED
      BY <2>2, <2>3
  <1>3. CASE rows[r].status # "confirmed"
    <2>1. ConfirmWrites(r) /\ rows[r].status = "proposed"
      BY <1>1, <1>3 DEF RowsOnward, Undecided
    <2>2. jobs' = Append(jobs, Job("archive", r, FALSE))
      BY <2>1 DEF ConfirmWrites
    <2>3. Len(jobs') = Len(jobs) + 1 /\ jobs'[Len(jobs) + 1] = Job("archive", r, FALSE)
      BY <2>2, JobJoins
    <2>4. Len(jobs) + 1 \in 1..Len(jobs')
      BY <2>3 DEF Base, Types
    <2>. QED
      BY <2>3, <2>4 DEF Job, Open
  <1>. QED
    BY <1>2, <1>3

LEMMA FreshStep ==
  ASSUME DecisionInv, [Next]_vars, Follows, RowsOnward, Asked, Fresh
  PROVE  Fresh'
  <1>. SUFFICES ASSUME NEW r \in 1..Len(rows'), rows'[r].status \in Undecided
                PROVE  Unmoved(r)'
    BY DEF Fresh
  <1>0. Base /\ r \in Nat \ {0}
    BY DEF DecisionInv
  <1>1. Unmoved(r)
    <2>1. CASE r \in 1..Len(rows)
      <3>1. rows[r].status \in Undecided
        BY <2>1 DEF RowsOnward, Undecided
      <3>. QED
        BY <2>1, <3>1 DEF Fresh
    <2>2. CASE r \notin 1..Len(rows)
      <3>1. ASSUME NEW k \in 1..Len(history), history[k].proposal = r PROVE FALSE
        BY <1>0, <2>2, <3>1 DEF DecisionInv, Decisions, Backed
      <3>. QED
        BY <3>1 DEF Unmoved
    <2>. QED
      BY <2>1, <2>2
  <1>2. ~(MoveDocuments /\ r = Me.arg)
    <2>. SUFFICES ASSUME MoveDocuments, r = Me.arg PROVE FALSE
      OBVIOUS
    <2>1. current # 0 /\ Me.kind = "archive" /\ UNCHANGED rows
      BY DEF MoveDocuments, Running
    <2>2. current \in 1..Len(jobs)
      BY <1>0, <2>1, MeType
    <2>. QED
      BY <2>1, <2>2 DEF Asked, Arch, Me
  <1>. QED
    BY <1>0, <1>1, <1>2, UnmovedStays

LEMMA InOrderStep ==
  ASSUME DecisionInv, [Next]_vars, Follows, QueueOnward, Waited, Once, Fresh, InOrder
  PROVE  InOrder'
  <1>0. Base /\ jobs \in Seq(JobRows) /\ Len(jobs) \in Nat
    BY DEF DecisionInv, Base, Types
  <1>. SUFFICES ASSUME NEW j \in 1..Len(jobs'), Taken(j)', NEW i \in 1..(j - 1), jobs'[i].status \in Open
                PROVE  jobs'[i].tries > 0
    BY DEF InOrder, Opened
  <1>1. CASE j \in 1..Len(jobs)
    <2>1. i \in 1..Len(jobs) /\ Onward(jobs[i], jobs'[i])
      BY <1>0, <1>1 DEF QueueOnward
    <2>2. Opened(i) /\ jobs[i].tries \in Nat /\ jobs'[i].tries >= jobs[i].tries /\ jobs'[i].tries \in Nat
      <3>1. jobs[i] \in JobRows /\ jobs'[i] \in JobRows
        BY <1>0, <2>1 DEF Follows, JobsFollow
      <3>. QED
        BY <2>1, <3>1 DEF Onward, Opened, JobRows
    <2>3. CASE Taken(j)
      BY <1>1, <2>1, <2>2, <2>3 DEF InOrder
    <2>4. CASE ~Taken(j)
      <3>1. j # current /\ jobs'[j].tries = jobs[j].tries /\ jobs'[j].cut = jobs[j].cut
            /\ jobs'[j].kind = jobs[j].kind /\ jobs'[j].arg = jobs[j].arg
        BY <1>1, <2>4 DEF Taken, QueueOnward, Follows, JobsFollow
      <3>2. j = current' \/ (Arch(j) /\ ~(Unmoved(jobs[j].arg)') /\ Unmoved(jobs[j].arg))
        BY <2>4, <3>1 DEF Taken, Arch, Unmoved
      <3>3. CASE j = current'
        <4>1. ClaimNext
          BY <1>1, <3>1, <3>3 DEF QueueOnward
        <4>2. jobs[i].status # "queued"
          BY <1>0, <1>1, <2>1, <3>3, <4>1 DEF ClaimNext
        <4>3. jobs[i].status # "claimed"
          BY <1>0, <2>1, <4>1 DEF ClaimNext, Base, LaneKept
        <4>4. jobs[i].status \in {"waiting", "paused"}
          BY <2>2, <4>2, <4>3 DEF Opened, Open
        <4>5. jobs[i].tries > 0
          BY <2>1, <4>4 DEF Waited
        <4>. QED
          BY <2>2, <4>5
      <3>4. CASE Arch(j) /\ ~(Unmoved(jobs[j].arg)') /\ Unmoved(jobs[j].arg)
        <4>1. PICK r \in Nat \ {0} : r = jobs[j].arg
          BY <1>0, <1>1, <3>4 DEF Base, LaneKept, Types, Arch
        <4>2. MoveDocuments /\ r = Me.arg
          <5>1. Unmoved(r) /\ ~(Unmoved(r)')
            BY <3>1, <3>4, <4>1 DEF Unmoved
          <5>. QED
            BY <1>0, <5>1, UnmovedStays
        <4>3. current \in 1..Len(jobs) /\ Arch(current) /\ jobs[current].arg = r
          BY <1>0, <4>2, MeType DEF MoveDocuments, Running, Arch, Me
        <4>. QED
          BY <1>1, <3>1, <3>4, <4>1, <4>3 DEF Once
      <3>. QED
        BY <3>2, <3>3, <3>4
    <2>. QED
      BY <2>3, <2>4
  <1>2. CASE j \notin 1..Len(jobs)
    <2>1. /\ jobs'[j].tries = 0 /\ jobs'[j].cut = "no" /\ j = Len(jobs) + 1
          /\ jobs'[j].kind = "archive" =>
                /\ jobs'[j].arg \in 1..Len(rows) /\ ConfirmWrites(jobs'[j].arg)
                /\ rows[jobs'[j].arg].status = "proposed"
      BY <1>0, <1>2, Joined
    <2>2. j # current'
      <3>1. current' # 0 => current' = current \/ ClaimNext
        BY DEF QueueOnward
      <3>2. current # j
        BY <1>0, <1>2 DEF Base, Types
      <3>3. ClaimNext => current' \in DOMAIN jobs
        BY DEF ClaimNext
      <3>. QED
        BY <1>0, <1>2, <3>1, <3>2, <3>3
    <2>r. PICK r : r = jobs'[j].arg
      OBVIOUS
    <2>3. jobs'[j].kind = "archive" /\ ~(Unmoved(r)')
      BY <2>1, <2>2, <2>r DEF Taken, Arch, Unmoved
    <2>4. r \in 1..Len(rows) /\ ConfirmWrites(r) /\ rows[r].status = "proposed"
      BY <2>1, <2>3, <2>r
    <2>5. Unmoved(r) /\ UNCHANGED history
      BY <2>4 DEF Fresh, Undecided, ConfirmWrites
    <2>. QED
      BY <2>3, <2>5 DEF Unmoved
  <1>. QED
    BY <1>1, <1>2

LEMMA KnowsStep ==
  ASSUME QueueInv, [Next]_vars, Follows
  PROVE  Knows'
  <1>0. PublishedInv /\ DecisionInv /\ Base /\ Knows
    BY DEF QueueInv, DecisionInv
  <1>. SUFFICES ASSUME current' # 0, Me'.kind = "archive", at' \in {"marks", "terminal"}
                PROVE  work'.ref # 0 \/ Unmoved(Me.arg)'
    BY DEF Knows, Running
  <1>1. CASE UNCHANGED <<current, at, work>>
    <2>1. Me'.kind = Me.kind /\ Me'.arg = Me.arg /\ current # 0
      BY <1>0, <1>1, MeStays
    <2>2. CASE work.ref # 0
      BY <1>1, <2>2
    <2>3. CASE work.ref = 0
      <3>1. PICK r \in 1..Len(rows) : r = Me.arg
        BY <1>0, <2>1, RowType
      <3>2. Unmoved(r)
        BY <1>0, <1>1, <2>1, <2>3, <3>1 DEF Knows, Running
      <3>3. ~MoveDocuments
        BY <1>1 DEF MoveDocuments, Running
      <3>4. r \in Nat \ {0}
        BY <3>1
      <3>5. Unmoved(r)'
        BY <1>0, <3>2, <3>3, <3>4, UnmovedStays
      <3>. QED
        BY <2>1, <3>1, <3>5
    <2>. QED
      BY <2>2, <2>3
  <1>2. ASSUME current' = current, current # 0, Me.kind = "archive",
               \/ ArchiveProceeds \/ ArchiveResumes \/ MoveDocuments
               \/ SetSourceArchived \/ MarksSet \/ AdvanceManifest
        PROVE  work'.ref # 0 \/ Unmoved(Me.arg)'
    <2>0. HEAD \in 1..Len(history) /\ HEAD # 0 /\ HEAD + 1 # 0 /\ Fields \subseteq DOMAIN work
      BY <1>0, TreeType DEF Base, Types
    <2>1. CASE ArchiveResumes \/ MoveDocuments
      BY <2>0, <2>1 DEF ArchiveResumes, MoveDocuments, Blank
    <2>2. CASE AdvanceManifest
      <3>1. Shows(work.ref) /\ work' = work
        BY <1>0, <2>2, InHand DEF AdvanceManifest
      <3>. QED
        BY <3>1 DEF Shows
    <2>m. PICK r : r = Me.arg
      OBVIOUS
    <2>3. CASE ArchiveProceeds
      <3>1. UNCHANGED <<history, jobs>> /\ HEAD = Row.ref
        BY <2>3 DEF ArchiveProceeds, LeaveStores
      <3>2. Unmoved(r)
        BY <1>0, <1>2, <2>m, <3>1, AtPlanUnmoved
      <3>3. Me'.arg = r /\ Unmoved(r)'
        BY <1>2, <2>m, <3>1, <3>2 DEF Me, Unmoved
      <3>. QED
        BY <3>3
    <2>4. CASE SetSourceArchived \/ MarksSet
      <3>1. UNCHANGED <<history, jobs>> /\ at = "marks" /\ work'.ref = work.ref
        BY <2>0, <2>4 DEF SetSourceArchived, MarksSet, LeaveStores, Running, Goto, Fields
      <3>2. work.ref # 0 \/ Unmoved(r)
        BY <1>0, <1>2, <2>m, <3>1 DEF Knows, Running
      <3>3. Me'.arg = r /\ (Unmoved(r) => Unmoved(r)')
        BY <1>2, <2>m, <3>1 DEF Me, Unmoved
      <3>. QED
        BY <3>1, <3>2, <3>3
    <2>. QED
      BY <1>2, <2>1, <2>2, <2>3, <2>4
  <1>. QED
    BY <1>0, <1>1, <1>2, ArchiveSteps DEF ArchiveStates, SyncPlan, WriteLexical, WriteVectors,
       RecordTerminal, Goto, Running

LEMMA DecidedStep ==
  ASSUME QueueInv, [Next]_vars, Follows, RowsOnward
  PROVE  Decided'
  <1>0. Base /\ Decided /\ Asked /\ rows \in Seq(Proposals)
    BY DEF QueueInv, DecisionInv, Base, Types
  <1>. SUFFICES ASSUME current' # 0, Me'.kind = "archive", at' = "complete"
                PROVE  Row'.status # "confirmed"
    BY DEF Decided, Running
  <1>1. CASE UNCHANGED <<current, at, work>>
    <2>1. Me'.kind = Me.kind /\ Me'.arg = Me.arg /\ current # 0 /\ current \in 1..Len(jobs)
      BY <1>0, <1>1, MeStays, MeType
    <2>2. PICK r \in 1..Len(rows) : r = Me.arg
      BY <1>0, <2>1, RowType
    <2>3. rows[r].status # "confirmed" /\ rows[r].status \notin Undecided
      BY <1>0, <1>1, <2>1, <2>2 DEF Decided, Running, Row, Asked, Arch, Me
    <2>4. rows'[r].status # "confirmed"
      BY <2>3 DEF RowsOnward, Undecided
    <2>. QED
      BY <2>1, <2>2, <2>4 DEF Row
  <1>2. ASSUME current' = current, current # 0, Me.kind = "archive", RecordTerminal
        PROVE  Row'.status # "confirmed"
    <2>1. Me' = Me /\ Me.arg \in 1..Len(rows) /\ Row \in Proposals /\ Row = rows[Me.arg]
      BY <1>0, <1>2, RowType DEF RecordTerminal, Goto, Me, Row
    <2>2. CASE Row.status = "confirmed"
      BY <1>0, <1>2, <2>1, <2>2 DEF RecordTerminal, Row, Proposals
    <2>3. CASE Row.status # "confirmed"
      BY <1>2, <2>1, <2>3 DEF RecordTerminal, Row
    <2>. QED
      BY <2>2, <2>3
  <1>. QED
    BY <1>0, <1>1, <1>2, ArchiveSteps DEF ArchiveStates, SyncPlan, WriteLexical, WriteVectors,
       ArchiveProceeds, ArchiveResumes, MoveDocuments, SetSourceArchived, MarksSet, AdvanceManifest,
       Goto, Running

LEMMA InitQueue == Init => QueueInv
  <1>. SUFFICES ASSUME Init PROVE QueueInv
    OBVIOUS
  <1>1. PublishedInv /\ DecisionInv
    BY InitPublished, InitDecisions
  <1>2. jobs = <<>> /\ rows = <<>> /\ current = 0 /\ at = "idle"
    BY DEF Init
  <1>3. Waited /\ Once /\ Asked /\ Awaited /\ Fresh /\ InOrder
    BY <1>2 DEF Waited, Once, Asked, Awaited, Fresh, InOrder
  <1>. QED
    BY <1>1, <1>2, <1>3 DEF QueueInv, Knows, Decided, Running

LEMMA StepQueue == QueueInv /\ [Next]_vars => QueueInv'
  <1>. SUFFICES ASSUME QueueInv, [Next]_vars PROVE QueueInv'
    OBVIOUS
  <1>1. PublishedInv /\ DecisionInv /\ Base /\ Waited /\ Once /\ Asked /\ Awaited /\ Fresh /\ InOrder /\ Decided
    BY DEF QueueInv, DecisionInv
  <1>2. Follows /\ Base' /\ QueueOnward /\ RowsOnward /\ PublishedInv' /\ DecisionInv'
    BY <1>1, StepBase, QueueSteps, RowSteps, StepPublished, StepDecisions
  <1>3. Waited' /\ Once' /\ Asked' /\ Awaited'
    BY <1>1, <1>2, WaitedStep, OnceStep, AskedStep, AwaitedStep
  <1>4. Fresh' /\ InOrder'
    BY <1>1, <1>2, FreshStep, InOrderStep
  <1>5. Knows' /\ Decided'
    BY <1>2, KnowsStep, DecidedStep
  <1>. QED
    BY <1>2, <1>3, <1>4, <1>5 DEF QueueInv
-----------------------------------------------------------------------------
(* What the library's own commits do to its tree, and to the keys it publishes. *)

LEMMA NewTree ==
  ASSUME Base, NEW t, NEW by, NEW n, history' = Append(history, [tree |-> t, by |-> by, proposal |-> n])
  PROVE  /\ Tree' = t /\ Len(history') = Len(history) + 1 /\ HEAD' = HEAD + 1
         /\ history'[Len(history) + 1].by = by /\ history'[Len(history) + 1].tree = t
         /\ history'[Len(history) + 1].proposal = n
         /\ \A i \in 1..Len(history) : history'[i] = history[i]
  BY AppendProperties DEF Base, Types, Tree, HEAD

LEMMA CompileTree ==
  ASSUME Base, CompileCommits
  PROVE  /\ Me.arg \in Sources /\ Tree.shelf[Me.arg] = "absent"
         /\ Tree'.archived = Tree.archived /\ Tree'.shelf[Me.arg] = "page"
         /\ \A s \in Sources : s # Me.arg => Tree'.shelf[s] = Tree.shelf[s]
  <1>1. current # 0 /\ Me.kind = "compile" /\ Tree.shelf[Me.arg] = "absent" /\ Tree \in Trees
    BY TreeType DEF CompileCommits, Running
  <1>2. Me.arg \in Sources
    BY <1>1, MeType DEF Base, LaneKept, Me
  <1>. DEFINE t == [Tree EXCEPT !.shelf[Me.arg] = "page"]
  <1>3. /\ t.archived = Tree.archived /\ t.shelf[Me.arg] = "page"
        /\ \A s \in Sources : s # Me.arg => t.shelf[s] = Tree.shelf[s]
    BY <1>1, <1>2 DEF Trees
  <1>4. history' = Append(history, [tree |-> t, by |-> "compile", proposal |-> 0])
    BY DEF CompileCommits, Commit
  <1>. HIDE DEF t
  <1>5. Tree' = t
    BY <1>4, NewTree
  <1>. QED
    BY <1>1, <1>2, <1>3, <1>5

LEMMA GroomTree ==
  ASSUME Base, GroomCommits
  PROVE  /\ Tree'.archived = Tree.archived
         /\ \A s \in Sources : \/ Tree'.shelf[s] = Tree.shelf[s]
                               \/ Tree.shelf[s] = "page" /\ Tree'.shelf[s] = "volume"
  <1>1. PICK kept \in SUBSET OnPage(Tree, Me.arg) :
          Commit([Tree EXCEPT !.shelf = [s \in Sources |->
            IF s \in OnPage(Tree, Me.arg) \ kept THEN "volume" ELSE @[s]]], "groom", 0)
    BY DEF GroomCommits
  <1>. DEFINE t == [Tree EXCEPT !.shelf = [s \in Sources |->
                     IF s \in OnPage(Tree, Me.arg) \ kept THEN "volume" ELSE @[s]]]
  <1>2. Tree \in Trees
    BY TreeType
  <1>3. /\ t.archived = Tree.archived
        /\ \A s \in Sources : t.shelf[s] = Tree.shelf[s] \/ (Tree.shelf[s] = "page" /\ t.shelf[s] = "volume")
    BY <1>2 DEF Trees, OnPage
  <1>4. history' = Append(history, [tree |-> t, by |-> "groom", proposal |-> 0])
    BY <1>1 DEF Commit
  <1>. HIDE DEF t
  <1>5. Tree' = t
    BY <1>4, NewTree
  <1>. QED
    BY <1>3, <1>5

LEMMA MoveTree ==
  ASSUME Base, MoveDocuments
  PROVE  /\ Row.page \in Pages /\ Tree'.shelf = Tree.shelf
         /\ \A p \in Pages : p # Row.page => (p \in Tree'.archived <=> p \in Tree.archived)
         /\ Row.page \in Tree'.archived <=> Row.action = "archive"
         /\ Tree'.archived \subseteq Pages
  <1>1. current # 0 /\ Me.kind = "archive" /\ Row \in Proposals /\ Tree \in Trees
    BY RowType, TreeType DEF MoveDocuments, Running
  <1>. DEFINE t == [Tree EXCEPT !.archived =
                     IF Row.action = "archive" THEN @ \cup {Row.page} ELSE @ \ {Row.page}]
  <1>2. /\ Row.page \in Pages /\ t.shelf = Tree.shelf
        /\ \A p \in Pages : p # Row.page => (p \in t.archived <=> p \in Tree.archived)
        /\ Row.page \in t.archived <=> Row.action = "archive"
        /\ t.archived \subseteq Pages
    BY <1>1 DEF Trees, Proposals
  <1>3. history' = Append(history, [tree |-> t, by |-> "archive", proposal |-> Me.arg])
    BY DEF MoveDocuments, Commit
  <1>. HIDE DEF t
  <1>4. Tree' = t
    BY <1>3, NewTree
  <1>. QED
    BY <1>2, <1>4

\* Nobody else's commit is the library's, hands aside.
LEMMA TreeSteps ==
  ASSUME Base, [Next]_vars, OwnCommits'
  PROVE  Tree' = Tree \/ CompileCommits \/ GroomCommits \/ MoveDocuments
  <1>1. CASE UNCHANGED history
    BY <1>1, SameHistory
  <1>2. CASE WriteMeta
    <2>1. history' = Append(history, [tree |-> Tree, by |-> "manifest", proposal |-> 0])
      BY <1>2 DEF WriteMeta, Commit
    <2>. QED
      BY <2>1, NewTree
  <1>3. ASSUME NEW p \in Pages, HandCommits(p) PROVE FALSE
    <2>1. \E t : history' = Append(history, [tree |-> t, by |-> "hand", proposal |-> 0])
      BY <1>3 DEF HandCommits, Commit
    <2>2. Len(history') = Len(history) + 1 /\ history'[Len(history) + 1].by = "hand"
      BY <2>1, NewTree
    <2>3. history' \in Seq(Commits) /\ Len(history) \in Nat
      BY StepBase DEF Base, Types
    <2>4. Len(history) + 1 \in DOMAIN history'
      BY <2>2, <2>3
    <2>. QED
      BY <2>2, <2>4 DEF OwnCommits
  <1>. QED
    BY <1>1, <1>2, <1>3, Committing
-----------------------------------------------------------------------------
(* Keys. *)

ClaimKey(t, s) == [anchor |-> s, shelf |-> t.shelf[s], archived |-> About[s] \in t.archived]
RecordKey(a) == [anchor |-> a, shelf |-> "page", archived |-> FALSE]

LEMMA KeysAre ==
  ASSUME NEW t, NEW k
  PROVE  k \in Keys(t) <=> \/ \E s \in Sources : t.shelf[s] # "absent" /\ k = ClaimKey(t, s)
                           \/ \E p \in t.archived : \E a \in Record(p) : k = RecordKey(a)
  BY DEF Keys, ClaimKey, RecordKey

LEMMA ClaimKeyIs ==
  ASSUME NEW t, NEW s
  PROVE  /\ ClaimKey(t, s).anchor = s /\ ClaimKey(t, s).shelf = t.shelf[s]
         /\ ClaimKey(t, s).archived <=> About[s] \in t.archived
         /\ ClaimKey(t, s).archived \in BOOLEAN
  <1>1. ClaimKey(t, s).anchor = s /\ ClaimKey(t, s).shelf = t.shelf[s]
    BY DEF ClaimKey
  <1>2. ClaimKey(t, s).archived = (About[s] \in t.archived)
    BY Zenon DEF ClaimKey
  <1>3. (About[s] \in t.archived) \in BOOLEAN
    OBVIOUS
  <1>. QED
    BY <1>1, <1>2, <1>3

LEMMA RecordKeyIs ==
  ASSUME NEW p \in Pages, NEW a \in Record(p)
  PROVE  /\ RecordKey(a).anchor = a /\ a \notin Sources /\ \A q \in Pages : a \in Record(q) => q = p
         /\ RecordKey(a).shelf = "page"
  BY PublicationAssumption DEF RecordKey, Record

LEMMA ClaimKeySame ==
  ASSUME NEW t, NEW u, NEW s, t.shelf[s] = u.shelf[s], About[s] \in t.archived <=> About[s] \in u.archived
  PROVE  ClaimKey(t, s) = ClaimKey(u, s)
  BY DEF ClaimKey

\* A source's key in a tree is the one that says where the source is filed.
LEMMA SourceKey ==
  ASSUME NEW t \in Trees, NEW k \in Keys(t), k.anchor \in Sources
  PROVE  t.shelf[k.anchor] # "absent" /\ k = ClaimKey(t, k.anchor)
  <1>1. CASE \E s \in Sources : t.shelf[s] # "absent" /\ k = ClaimKey(t, s)
    BY <1>1, ClaimKeyIs
  <1>2. ASSUME NEW p \in t.archived, NEW a \in Record(p), k = RecordKey(a) PROVE FALSE
    <2>1. p \in Pages
      BY DEF Trees
    <2>. QED
      BY <1>2, <2>1, RecordKeyIs
  <1>. QED
    BY <1>1, <1>2, KeysAre

\* The side of a page the library does not have it on.
OtherSide(k, p) ==
    IF p \in Tree.archived
    THEN k.anchor \in Sources /\ About[k.anchor] = p /\ ~k.archived
    ELSE \/ k.anchor \in Sources /\ About[k.anchor] = p /\ k.archived
         \/ k.anchor \in Record(p)

LEMMA OwnSide ==
  ASSUME Base, NEW k \in Keys(Tree), NEW p \in Pages
  PROVE  ~OtherSide(k, p)
  <1>1. Tree \in Trees
    BY TreeType
  <1>2. ASSUME NEW s \in Sources, k = ClaimKey(Tree, s) PROVE ~OtherSide(k, p)
    <2>1. s \notin Record(p)
      BY PublicationAssumption DEF Record
    <2>. QED
      BY <1>2, <2>1, ClaimKeyIs DEF OtherSide
  <1>3. ASSUME NEW q \in Tree.archived, NEW a \in Record(q), k = RecordKey(a) PROVE ~OtherSide(k, p)
    <2>1. q \in Pages
      BY <1>1 DEF Trees
    <2>. QED
      BY <1>3, <2>1, RecordKeyIs DEF OtherSide
  <1>. QED
    BY <1>2, <1>3, KeysAre

\* What a move adds to the library's keys is on the side its page was not on.
LEMMA MovedKeys ==
  ASSUME Base, MoveDocuments, NEW k \in Keys(Tree'), k \notin Keys(Tree)
  PROVE  OtherSide(k, Row.page)
  <1>1. Tree \in Trees
    BY TreeType
  <1>2. /\ Row.page \in Pages /\ Tree'.shelf = Tree.shelf /\ Tree'.archived \subseteq Pages
        /\ \A p \in Pages : p # Row.page => (p \in Tree'.archived <=> p \in Tree.archived)
    BY MoveTree
  <1>3. ASSUME NEW s \in Sources, Tree'.shelf[s] # "absent", k = ClaimKey(Tree', s)
        PROVE  OtherSide(k, Row.page)
    <2>1. Tree.shelf[s] # "absent" /\ About[s] \in Pages
      BY <1>2, <1>3, PublicationAssumption
    <2>2. k # ClaimKey(Tree, s)
      BY <2>1, KeysAre
    <2>3. ~(About[s] \in Tree'.archived <=> About[s] \in Tree.archived)
      BY <1>2, <1>3, <2>2, ClaimKeySame
    <2>4. About[s] = Row.page
      BY <1>2, <2>1, <2>3
    <2>5. k.anchor = s /\ (k.archived <=> About[s] \in Tree'.archived)
      BY <1>3, ClaimKeyIs
    <2>. QED
      BY <2>3, <2>4, <2>5 DEF OtherSide
  <1>4. ASSUME NEW q \in Tree'.archived, NEW a \in Record(q), k = RecordKey(a)
        PROVE  OtherSide(k, Row.page)
    <2>1. q \in Pages /\ q \notin Tree.archived
      BY <1>2, <1>4, KeysAre
    <2>2. q = Row.page
      BY <1>2, <2>1
    <2>. QED
      BY <1>4, <2>1, <2>2, RecordKeyIs DEF OtherSide
  <1>. QED
    BY <1>3, <1>4, KeysAre
-----------------------------------------------------------------------------
(* The manifest's side of every page, and what the indexes hold of it. *)

Calm == OwnCommits /\ NoneBroken /\ NoneOvertaken

\* A claim once filed stays, and one in a volume stays there.
Grown ==
    OwnCommits => \A i \in 1..Len(history), s \in Sources :
        /\ history[i].tree.shelf[s] # "absent" => Tree.shelf[s] # "absent"
        /\ history[i].tree.shelf[s] = "volume" => Tree.shelf[s] = "volume"

\* The commit a body holds is the library as it is, and past the index writes the manifest is too.
HoldsNow == OwnCommits /\ work.ref # 0 => work.ref \in 1..Len(history) /\ history[work.ref].tree = Tree

Projected ==
    at \in {"digest", "terminal"} \/ (at \in {"complete", "rollover", "challenge"} /\ Me.kind # "challenge")
IsProjected == OwnCommits /\ work.ref # 0 /\ Projected => pg = Keys(Tree)

\* Only a decision that has moved its page and is not yet through leaves the manifest on the other side.
Underway(r) == rows[r].status = "confirmed" /\ ~Unmoved(r)
Sides ==
    Calm => \A p \in Pages :
        \/ \A k \in pg : ~OtherSide(k, p)
        \/ \E r \in 1..Len(rows) : rows[r].page = p /\ Underway(r)

\* An index has what the manifest lists, and all of it once this body has written it.
Serves(ix, phase) ==
    Calm => /\ pg \cap Keys(Tree) \subseteq ix
            /\ at = "index" /\ phase = "done" => Keys(Tree) \subseteq ix

SearchInv == QueueInv /\ Grown /\ HoldsNow /\ IsProjected /\ Sides /\ Serves(lex, work.lex) /\ Serves(vec, work.vec)

LEMMA CalmWas == Base /\ Follows /\ QueueOnward /\ Calm' => Calm
  <1>. SUFFICES ASSUME Base, Follows, QueueOnward, Calm' PROVE Calm
    OBVIOUS
  <1>1. OwnCommits
    BY OwnCommitsWere DEF Calm
  <1>2. NoneBroken
    <2>. SUFFICES ASSUME NEW r \in DOMAIN rows PROVE ~rows[r].broken
      BY DEF NoneBroken
    <2>1. r \in 1..Len(rows) /\ r \in DOMAIN rows'
      BY DEF Base, Types, Follows, RowsFollow
    <2>. QED
      BY <2>1 DEF Calm, NoneBroken, Follows, RowsFollow
  <1>3. NoneOvertaken
    <2>. SUFFICES ASSUME NEW j \in DOMAIN jobs
                  PROVE  /\ jobs[j].cut # "behind"
                         /\ jobs[j].tries > 0 /\ jobs[j].kind = "archive" =>
                              \A r \in DOMAIN rows : rows[r].page = rows[jobs[j].arg].page => r = jobs[j].arg
      BY DEF NoneOvertaken
    <2>1. j \in 1..Len(jobs) /\ j \in DOMAIN jobs' /\ jobs[j] \in JobRows /\ jobs'[j] \in JobRows
      BY DEF Base, Types, Follows, JobsFollow
    <2>2. Onward(jobs[j], jobs'[j]) /\ jobs'[j].kind = jobs[j].kind /\ jobs'[j].arg = jobs[j].arg
      BY <2>1 DEF QueueOnward, Follows, JobsFollow
    <2>3. jobs[j].tries > 0 => jobs'[j].tries > 0
      BY <2>1, <2>2 DEF Onward, JobRows
    <2>4. ASSUME jobs[j].tries > 0, jobs[j].kind = "archive", NEW r \in DOMAIN rows, rows[r].page = rows[jobs[j].arg].page
          PROVE  r = jobs[j].arg
      <3>1. r \in 1..Len(rows) /\ jobs[j].arg \in 1..Len(rows) /\ r \in DOMAIN rows'
        BY <2>1, <2>4 DEF Base, Types, LaneKept, Follows, RowsFollow
      <3>2. rows'[r].page = rows'[jobs'[j].arg].page
        BY <2>2, <2>4, <3>1 DEF Follows, RowsFollow
      <3>. QED
        BY <2>1, <2>2, <2>3, <2>4, <3>1, <3>2 DEF Calm, NoneOvertaken
    <2>. QED
      BY <2>1, <2>2, <2>3, <2>4 DEF Calm, NoneOvertaken, Onward
  <1>. QED
    BY <1>1, <1>2, <1>3 DEF Calm

LEMMA OneCommit ==
  ASSUME Base, [Next]_vars
  PROVE  Len(history') \in {Len(history), Len(history) + 1}
  <1>1. CASE UNCHANGED history
    BY <1>1
  <1>2. CASE ~UNCHANGED history
    <2>1. \E t, by, n : history' = Append(history, [tree |-> t, by |-> by, proposal |-> n])
      BY <1>2, Committing DEF WriteMeta, HandCommits, CompileCommits, GroomCommits, MoveDocuments, Commit
    <2>. QED
      BY <2>1, NewTree
  <1>. QED
    BY <1>1, <1>2

LEMMA GrownStep ==
  ASSUME Base, Follows, [Next]_vars, Grown
  PROVE  Grown'
  <1>. SUFFICES ASSUME OwnCommits', NEW i \in 1..Len(history'), NEW s \in Sources
                PROVE  /\ history'[i].tree.shelf[s] # "absent" => Tree'.shelf[s] # "absent"
                       /\ history'[i].tree.shelf[s] = "volume" => Tree'.shelf[s] = "volume"
    BY DEF Grown
  <1>1. OwnCommits /\ Len(history) \in Nat /\ Len(history') \in Nat
    BY OwnCommitsWere DEF Base, Types, Follows, HistoryGrows
  <1>2. /\ Tree.shelf[s] # "absent" => Tree'.shelf[s] # "absent"
        /\ Tree.shelf[s] = "volume" => Tree'.shelf[s] = "volume"
    <2>1. CASE Tree' = Tree
      BY <2>1
    <2>2. CASE CompileCommits
      BY <2>2, CompileTree
    <2>3. CASE GroomCommits
      <3>1. Tree'.shelf[s] = Tree.shelf[s] \/ (Tree.shelf[s] = "page" /\ Tree'.shelf[s] = "volume")
        BY <2>3, GroomTree
      <3>. QED
        BY <3>1
    <2>4. CASE MoveDocuments
      BY <2>4, MoveTree
    <2>. QED
      BY <2>1, <2>2, <2>3, <2>4, TreeSteps
  <1>3. CASE i \in 1..Len(history)
    <2>1. history'[i] = history[i]
      BY <1>3 DEF Follows, HistoryGrows
    <2>. QED
      BY <1>1, <1>2, <1>3, <2>1 DEF Grown
  <1>4. CASE i \notin 1..Len(history)
    <2>1. i = Len(history')
      BY <1>1, <1>4, OneCommit
    <2>. QED
      BY <2>1 DEF Tree, HEAD
  <1>. QED
    BY <1>3, <1>4

LEMMA WorkSteps ==
  ASSUME Base, [Next]_vars
  PROVE  \/ work'.ref \in {work.ref, 0} /\ ~(CompileCommits \/ GroomCommits \/ MoveDocuments)
         \/ work'.ref = HEAD /\ UNCHANGED history
         \/ work'.ref = HEAD + 1 /\ (CompileCommits \/ GroomCommits \/ MoveDocuments)
  <1>1. Fields \subseteq DOMAIN work /\ Blank.ref = 0
    BY BlankFields DEF Base, Types
  <1>2. CASE CompileCommits \/ GroomCommits \/ MoveDocuments
    BY <1>2 DEF CompileCommits, GroomCommits, MoveDocuments, Blank
  <1>3. CASE CompileNoop \/ ArchiveResumes
    BY <1>3 DEF CompileNoop, ArchiveResumes, LeaveStores, Blank
  <1>4. CASE SyncPlan \/ WriteLexical \/ WriteVectors \/ SetSourceArchived \/ ArchiveProceeds
    <2>1. work'.ref \in {work.ref, 0}
      BY <1>1, <1>4 DEF SyncPlan, WriteLexical, WriteVectors, SetSourceArchived, ArchiveProceeds, Blank, Fields
    <2>2. ~(CompileCommits \/ GroomCommits \/ MoveDocuments)
      BY <1>4 DEF SyncPlan, WriteLexical, WriteVectors, SetSourceArchived, ArchiveProceeds,
         CompileCommits, GroomCommits, MoveDocuments, Running
    <2>. QED
      BY <2>1, <2>2
  <1>5. CASE ~(CompileCommits \/ GroomCommits \/ MoveDocuments)
    <2>1. work' \in {work, Blank} \/ CompileNoop \/ ArchiveResumes \/ SyncPlan \/ WriteLexical
          \/ WriteVectors \/ SetSourceArchived \/ ArchiveProceeds
      BY <1>5 DEF Next, Owner, vars, lane, RequestCompile, PlanArchive, ConfirmReads, ConfirmStale, ConfirmWrites,
     Drop, ClaimNext, WaitElapses, Interrupted, RoundFails, StoreAway, LeaveJob, WriteMeta, HandCommits,
     Body, SyncRefused, CompileCompletes, MaybeTriggerRollover, MaybeTriggerChallenge,
     ChallengeCompensates, ChallengeCompletes, GroomDeclines, GroomFails, GroomCompletes,
     ArchiveNotConfirmed, ArchiveStale, ArchiveFails, ArchiveCompletes, End,
     AdvanceManifest, RecordEvents, MarkDigested, MarksSet, ArchiveStates, RecordTerminal, Goto
    <2>. QED
      BY <1>1, <1>3, <1>4, <1>5, <2>1
  <1>. QED
    BY <1>2, <1>5

LEMMA HoldsStep ==
  ASSUME Base, Follows, [Next]_vars, HoldsNow
  PROVE  HoldsNow'
  <1>. SUFFICES ASSUME OwnCommits', work'.ref # 0
                PROVE  work'.ref \in 1..Len(history') /\ history'[work'.ref].tree = Tree'
    BY DEF HoldsNow
  <1>1. OwnCommits /\ HEAD \in 1..Len(history) /\ Len(history) \in Nat /\ HEAD = Len(history)
    BY OwnCommitsWere, TreeType DEF Base, Types, HEAD
  <1>2. CASE work'.ref \in {work.ref, 0} /\ ~(CompileCommits \/ GroomCommits \/ MoveDocuments)
    <2>1. Tree' = Tree /\ work'.ref = work.ref
      BY <1>2, TreeSteps
    <2>2. work.ref \in 1..Len(history) /\ history[work.ref].tree = Tree
      BY <1>1, <2>1 DEF HoldsNow
    <2>. QED
      BY <2>1, <2>2 DEF Follows, HistoryGrows, Base, Types
  <1>3. CASE work'.ref = HEAD /\ UNCHANGED history
    BY <1>1, <1>3 DEF Tree, HEAD
  <1>4. CASE work'.ref = HEAD + 1 /\ (CompileCommits \/ GroomCommits \/ MoveDocuments)
    <2>1. \E t, by, n : history' = Append(history, [tree |-> t, by |-> by, proposal |-> n])
      BY <1>4 DEF CompileCommits, GroomCommits, MoveDocuments, Commit
    <2>2. Len(history') = Len(history) + 1
      BY <2>1, NewTree
    <2>. QED
      BY <1>1, <1>4, <2>2 DEF Tree, HEAD
  <1>. QED
    BY <1>2, <1>3, <1>4, WorkSteps

LEMMA ProjectedStep ==
  ASSUME PublishedInv, Follows, [Next]_vars, HoldsNow, IsProjected, Base'
  PROVE  IsProjected'
  <1>0. Base /\ Delta
    BY DEF PublishedInv
  <1>. SUFFICES ASSUME OwnCommits', work'.ref # 0, Projected' PROVE pg' = Keys(Tree')
    BY DEF IsProjected
  <1>1. OwnCommits /\ Fields \subseteq DOMAIN work /\ current' # 0
    BY <1>0, OwnCommitsWere DEF Base, Types, LaneKept, Projected
  <1>2. Tree' = Tree
    <2>1. at' \notin {"events", "sync", "marks"}
      BY DEF Projected
    <2>. QED
      BY <1>0, <2>1, TreeSteps DEF CompileCommits, GroomCommits, MoveDocuments
  <1>3. CASE AdvanceManifest
    <2>1. work.ref # 0 /\ pg' = Keys(history[work.ref].tree)
      BY <1>0, <1>3 DEF AdvanceManifest, Delta
    <2>. QED
      BY <1>1, <1>2, <2>1 DEF HoldsNow
  <1>4. CASE ~AdvanceManifest
    <2>1. UNCHANGED pg
      BY <1>4, Writing
    <2>2. Projected /\ work.ref = work'.ref
      <3>1. CASE UNCHANGED <<current, at, work>>
        <4>1. current # 0 => Me'.kind = Me.kind
          BY <1>0, <3>1, MeStays
        <4>. QED
          BY <1>1, <3>1, <4>1 DEF Projected
      <3>2. CASE current' = current /\ Body
        <4>1. current # 0 /\ Me'.kind = Me.kind /\ Me'.arg = Me.arg
          BY <1>0, <1>1, <3>2, MeStays
        <4>2. MarkDigested \/ CompileCompletes \/ MaybeTriggerRollover \/ RecordTerminal \/ ChallengeCompensates \/ MarksSet
          BY <1>1, <1>4, <3>2 DEF Projected, Body, SyncPlan, SyncRefused, WriteLexical, WriteVectors, CompileCommits,
             CompileNoop, RecordEvents, MaybeTriggerChallenge, ChallengeCompletes, GroomCommits, GroomDeclines,
             GroomFails, GroomCompletes, ArchiveNotConfirmed, ArchiveStale, ArchiveResumes, ArchiveStates,
             ArchiveProceeds, MoveDocuments, SetSourceArchived, ArchiveCompletes, End, Goto, Running
        <4>3. ~ChallengeCompensates
          BY <4>1 DEF ChallengeCompensates, Projected, Running
        <4>4. ~MarksSet
          BY DEF MarksSet, Projected, Goto
        <4>. QED
          BY <4>1, <4>2, <4>3, <4>4 DEF MarkDigested, CompileCompletes, MaybeTriggerRollover, RecordTerminal,
             Goto, Running, Projected, End
      <3>. QED
        BY <1>0, <1>1, <3>1, <3>2, BodySteps DEF Projected
    <2>. QED
      BY <1>1, <1>2, <2>1, <2>2 DEF IsProjected
  <1>. QED
    BY <1>3, <1>4

\* While nobody was overtaken, a decision at work is the only one underway on its page.
LEMMA AloneOnPage ==
  ASSUME QueueInv, NoneOvertaken, current # 0, Me.kind = "archive", Me.status = "claimed",
         NEW q \in 1..Len(rows), rows[q].page = Row.page, Underway(q)
  PROVE  q = Me.arg
  <1>1. Base /\ Awaited /\ InOrder
    BY DEF QueueInv, DecisionInv
  <1>2. current \in 1..Len(jobs) /\ Arch(current) /\ Opened(current) /\ Me = jobs[current]
        /\ Me.arg \in 1..Len(rows) /\ Len(jobs) \in Nat /\ DOMAIN jobs = 1..Len(jobs) /\ DOMAIN rows = 1..Len(rows)
    BY <1>1, MeType, RowType DEF Arch, Opened, Me, Open, Base, Types
  <1>3. PICK j \in 1..Len(jobs) : Arch(j) /\ jobs[j].arg = q /\ Opened(j)
    BY <1>1 DEF Awaited, Underway
  <1>4. CASE j < current
    <2>1. jobs[j].tries > 0
      BY <1>1, <1>2, <1>3, <1>4 DEF InOrder, Taken
    <2>. QED
      BY <1>2, <1>3, <2>1 DEF NoneOvertaken, Arch, Row
  <1>5. CASE current < j
    <2>1. Taken(j)
      BY <1>3 DEF Taken, Underway
    <2>2. jobs[current].tries > 0
      BY <1>1, <1>2, <1>3, <1>5, <2>1 DEF InOrder
    <2>. QED
      BY <1>2, <2>2 DEF NoneOvertaken, Arch, Row
  <1>. QED
    BY <1>2, <1>3, <1>4, <1>5

\* What a commit adds to the library's keys the manifest has not seen.
LEMMA NewKeys ==
  ASSUME SearchInv, [Next]_vars, Calm', NEW k \in Keys(Tree'), k \notin Keys(Tree)
  PROVE  k \notin pg
  <1>. SUFFICES ASSUME k \in pg PROVE FALSE
    OBVIOUS
  <1>1. Base /\ ReadOff /\ QueueInv /\ Grown /\ Sides /\ DecisionInv
    BY DEF SearchInv, QueueInv, PublishedInv
  <1>2. OwnCommits' /\ Calm /\ OwnCommits /\ NoneOvertaken
    BY <1>1, StepBase, QueueSteps, CalmWas DEF Calm
  <1>3. PICK i \in DOMAIN history : k \in Keys(history[i].tree)
    BY <1>1 DEF ReadOff
  <1>4. i \in 1..Len(history) /\ history[i].tree \in Trees
    <2>1. history \in Seq(Commits)
      BY <1>1 DEF Base, Types
    <2>2. i \in 1..Len(history) /\ history[i] \in Commits
      BY <2>1
    <2>. QED
      BY <2>2 DEF Commits
  <1>5. k.anchor \in Sources => /\ history[i].tree.shelf[k.anchor] # "absent"
                                /\ k.shelf = history[i].tree.shelf[k.anchor]
    BY <1>3, <1>4, SourceKey, ClaimKeyIs
  <1>6. ASSUME NEW s \in Sources, k = ClaimKey(Tree', s), Tree'.shelf[s] # "absent", Tree'.archived = Tree.archived
        PROVE  Tree'.shelf[s] # Tree.shelf[s]
    <2>. SUFFICES ASSUME Tree'.shelf[s] = Tree.shelf[s] PROVE FALSE
      OBVIOUS
    <2>1. ClaimKey(Tree', s) = ClaimKey(Tree, s)
      BY <1>6, ClaimKeySame
    <2>. QED
      BY <1>6, <2>1, KeysAre
  <1>7. ASSUME Tree'.archived = Tree.archived
        PROVE  \E s \in Sources : Tree'.shelf[s] # "absent" /\ k = ClaimKey(Tree', s)
    BY <1>7, KeysAre
  <1>8. CASE CompileCommits
    <2>1. PICK s \in Sources : Tree'.shelf[s] # "absent" /\ k = ClaimKey(Tree', s)
      BY <1>1, <1>7, <1>8, CompileTree
    <2>2. s = Me.arg /\ k.anchor = s /\ Tree.shelf[s] = "absent"
      BY <1>1, <1>6, <1>8, <2>1, CompileTree, ClaimKeyIs
    <2>. QED
      BY <1>1, <1>2, <1>4, <1>5, <2>2 DEF Grown
  <1>9. CASE GroomCommits
    <2>1. PICK s \in Sources : Tree'.shelf[s] # "absent" /\ k = ClaimKey(Tree', s)
      BY <1>1, <1>7, <1>9, GroomTree
    <2>2. Tree.shelf[s] = "page" /\ Tree'.shelf[s] = "volume" /\ k.anchor = s /\ k.shelf = "volume"
      <3>1. Tree'.shelf[s] # Tree.shelf[s]
        BY <1>1, <1>6, <1>9, <2>1, GroomTree
      <3>2. Tree'.shelf[s] = Tree.shelf[s] \/ (Tree.shelf[s] = "page" /\ Tree'.shelf[s] = "volume")
        BY <1>1, <1>9, GroomTree
      <3>. QED
        BY <2>1, <3>1, <3>2, ClaimKeyIs
    <2>. QED
      BY <1>1, <1>2, <1>4, <1>5, <2>2 DEF Grown
  <1>10. CASE MoveDocuments
    <2>1. OtherSide(k, Row.page) /\ Row.page \in Pages
      BY <1>1, <1>10, MovedKeys, MoveTree
    <2>2. PICK q \in 1..Len(rows) : rows[q].page = Row.page /\ Underway(q)
      BY <1>1, <1>2, <2>1 DEF Sides
    <2>3. current # 0 /\ Me.kind = "archive" /\ Me.status = "claimed"
      BY <1>1, <1>10 DEF MoveDocuments, Running, Base, LaneKept, Me
    <2>4. q = Me.arg
      BY <1>1, <1>2, <2>2, <2>3, AloneOnPage
    <2>5. Unmoved(q)
      BY <1>1, <1>10, <2>4 DEF DecisionInv, Moving, MoveDocuments
    <2>. QED
      BY <2>2, <2>5 DEF Underway
  <1>11. Tree' # Tree
    OBVIOUS
  <1>. QED
    BY <1>1, <1>2, <1>8, <1>9, <1>10, <1>11, TreeSteps

\* A decision that has moved its page stays underway until the manifest is the library's.
LEMMA UnderwayStays ==
  ASSUME SearchInv, [Next]_vars, Calm', NEW r \in 1..Len(rows), Underway(r)
  PROVE  \/ pg = Keys(Tree)
         \/ r \in 1..Len(rows') /\ rows'[r].page = rows[r].page /\ Underway(r)'
  <1>1. Base /\ DecisionInv /\ QueueInv /\ IsProjected
    BY DEF SearchInv, QueueInv, PublishedInv
  <1>2. Follows /\ RowsOnward /\ OwnCommits /\ NoneBroken'
    BY <1>1, StepBase, RowSteps, QueueSteps, CalmWas DEF Calm
  <1>3. ~(Unmoved(r)')
    BY <1>1, <1>2, MovedStays DEF Underway
  <1>4. r \in 1..Len(rows') /\ r \in DOMAIN rows' /\ rows'[r].page = rows[r].page
    BY <1>1, <1>2 DEF Follows, RowsFollow, Base, Types
  <1>5. CASE rows'[r].status = rows[r].status
    BY <1>3, <1>4, <1>5 DEF Underway
  <1>6. CASE RecordTerminal /\ r = Me.arg
    <2>1. work.ref # 0 /\ at = "terminal"
      BY <1>1, <1>6 DEF QueueInv, Knows, RecordTerminal, Underway, Running
    <2>. QED
      BY <1>1, <1>2, <2>1 DEF IsProjected, Projected
  <1>7. CASE GivesUp /\ r = Me.arg
    BY <1>1, <1>7, GivesUpUnmoved DEF Underway
  <1>8. ~(rows'[r].broken)
    BY <1>2, <1>4 DEF NoneBroken
  <1>. QED
    BY <1>2, <1>5, <1>6, <1>7, <1>8 DEF RowsOnward, Underway, Undecided

LEMMA SidesStep ==
  ASSUME SearchInv, [Next]_vars
  PROVE  Sides'
  <1>. SUFFICES ASSUME Calm', NEW p \in Pages
                PROVE  \/ \A k \in pg' : ~(OtherSide(k, p)')
                       \/ \E r \in 1..Len(rows') : rows'[r].page = p /\ Underway(r)'
    BY DEF Sides
  <1>1. Base /\ Sides /\ DecisionInv /\ QueueInv /\ HoldsNow /\ IsProjected /\ PublishedInv
    BY DEF SearchInv, QueueInv, PublishedInv
  <1>2. Follows /\ RowsOnward /\ OwnCommits' /\ Calm /\ OwnCommits /\ NoneBroken' /\ Base'
    BY <1>1, StepBase, RowSteps, QueueSteps, CalmWas DEF Calm
  <1>3. CASE AdvanceManifest
    <2>1. Tree' = Tree /\ pg' = Keys(history[work.ref].tree)
      BY <1>1, <1>3, SameHistory DEF AdvanceManifest, PublishedInv, Delta
    <2>2. history[work.ref].tree = Tree
      <3>1. work.ref # 0
        BY <1>1, <1>3, InHand DEF AdvanceManifest, Shows
      <3>. QED
        BY <1>1, <1>2, <3>1 DEF HoldsNow
    <2>3. \A k \in pg' : ~OtherSide(k, p)
      BY <1>1, <2>1, <2>2, OwnSide
    <2>. QED
      BY <2>1, <2>3 DEF OtherSide
  <1>4. CASE ~AdvanceManifest
    <2>1. UNCHANGED pg
      BY <1>4, Writing
    <2>2. ASSUME p \in Tree'.archived <=> p \in Tree.archived
          PROVE  \A k : OtherSide(k, p)' <=> OtherSide(k, p)
      BY <2>2 DEF OtherSide
    <2>3. ASSUME NEW r \in 1..Len(rows), rows[r].page = p, Underway(r)
          PROVE  \/ \A k \in pg : ~OtherSide(k, p)
                 \/ r \in 1..Len(rows') /\ rows'[r].page = p /\ Underway(r)'
      BY <1>1, <1>2, <2>3, OwnSide, UnderwayStays
    <2>4. CASE MoveDocuments /\ p = Row.page
      <3>1. PICK r \in 1..Len(rows) : r = Me.arg /\ rows[r].page = p /\ UNCHANGED rows
        BY <1>1, <2>4, RowType DEF MoveDocuments, Running, Row
      <3>2. rows[r].status = "confirmed"
        BY <1>1, <2>4, <3>1 DEF DecisionInv, Moving, MoveDocuments
      <3>3. ~(Unmoved(r)')
        <4>1. \E t : history' = Append(history, [tree |-> t, by |-> "archive", proposal |-> r])
          BY <2>4, <3>1 DEF MoveDocuments, Commit
        <4>2. Len(history') = Len(history) + 1 /\ history'[Len(history) + 1].proposal = r
          BY <1>1, <4>1, NewTree
        <4>3. Len(history) + 1 \in 1..Len(history')
          BY <1>1, <4>2 DEF Base, Types
        <4>. QED
          BY <4>2, <4>3 DEF Unmoved
      <3>. QED
        BY <3>1, <3>2, <3>3 DEF Underway
    <2>5. CASE ~(MoveDocuments /\ p = Row.page)
      <3>1. p \in Tree'.archived <=> p \in Tree.archived
        BY <1>1, <1>2, <2>5, TreeSteps, CompileTree, GroomTree, MoveTree
      <3>2. CASE \A k \in pg : ~OtherSide(k, p)
        BY <2>1, <2>2, <3>1, <3>2
      <3>3. ASSUME NEW r \in 1..Len(rows), rows[r].page = p, Underway(r)
            PROVE  \/ \A k \in pg' : ~(OtherSide(k, p)')
                   \/ \E n \in 1..Len(rows') : rows'[n].page = p /\ Underway(n)'
        BY <2>1, <2>2, <2>3, <3>1, <3>3
      <3>. QED
        BY <1>1, <1>2, <3>2, <3>3 DEF Sides
    <2>. QED
      BY <2>4, <2>5
  <1>. QED
    BY <1>3, <1>4

\* An index one branch of the gather writes, in either of its two writes, or that the step leaves.
LEMMA ServesStep ==
  ASSUME SearchInv, [Next]_vars, NEW ix, NEW new, NEW phase, NEW next, Serves(ix, phase),
         AdvanceManifest => phase = "done",
         \/ new = ix /\ (at' = "index" => (at = "index" /\ next = phase) \/ next = "delete")
         \/ /\ at = "index" /\ phase # "done" /\ new = Indexed(ix, phase) /\ next = After(phase)
            /\ UNCHANGED <<history, pg, at>>
  PROVE  Calm' => /\ pg' \cap Keys(Tree') \subseteq new
                  /\ at' = "index" /\ next = "done" => Keys(Tree') \subseteq new
  <1>. SUFFICES ASSUME Calm'
                PROVE  /\ pg' \cap Keys(Tree') \subseteq new
                       /\ at' = "index" /\ next = "done" => Keys(Tree') \subseteq new
    OBVIOUS
  <1>1. Base /\ HoldsNow /\ PublishedInv /\ Delta
    BY DEF SearchInv, QueueInv, PublishedInv
  <1>2. OwnCommits' /\ Calm /\ OwnCommits
    BY <1>1, StepBase, QueueSteps, CalmWas DEF Calm
  <1>3. pg \cap Keys(Tree) \subseteq ix /\ (at = "index" /\ phase = "done" => Keys(Tree) \subseteq ix)
    BY <1>2 DEF Serves
  <1>4. CASE new = ix /\ (at' = "index" => (at = "index" /\ next = phase) \/ next = "delete")
    <2>1. at' = "index" => Tree' = Tree
      BY <1>1, <1>2, TreeSteps DEF CompileCommits, GroomCommits, MoveDocuments
    <2>2. at' = "index" /\ next = "done" => Keys(Tree') \subseteq new
      BY <1>3, <1>4, <2>1
    <2>3. CASE AdvanceManifest
      <3>1. Tree' = Tree /\ Keys(Tree) \subseteq ix
        BY <1>1, <1>3, <2>3, SameHistory DEF AdvanceManifest
      <3>. QED
        BY <1>4, <2>2, <3>1
    <2>4. CASE UNCHANGED pg
      <3>1. \A k \in Keys(Tree') : k \in pg => k \in Keys(Tree)
        BY NewKeys
      <3>. QED
        BY <1>3, <1>4, <2>2, <2>4, <3>1
    <2>. QED
      BY <2>3, <2>4, Writing
  <1>5. CASE /\ at = "index" /\ phase # "done" /\ new = Indexed(ix, phase) /\ next = After(phase)
             /\ UNCHANGED <<history, pg, at>>
    <2>1. Tree' = Tree
      BY <1>1, <1>5, SameHistory
    <2>2. history[work.ref].tree = Tree
      <3>1. work.ref # 0
        BY <1>1, <1>5, InHand DEF Shows
      <3>. QED
        BY <1>1, <1>2, <3>1 DEF HoldsNow
    <2>3. work.upserts = Keys(Tree) \ pg /\ work.deleted = pg \ Keys(Tree)
      BY <1>1, <1>5, <2>2 DEF Delta
    <2>4. CASE phase = "delete"
      BY <1>3, <1>5, <2>1, <2>3, <2>4 DEF Indexed, After
    <2>5. CASE phase # "delete"
      BY <1>3, <1>5, <2>1, <2>3, <2>5 DEF Indexed, After
    <2>. QED
      BY <2>4, <2>5
  <1>. QED
    BY <1>4, <1>5

LEMMA IndexSteps ==
  ASSUME [Next]_vars, Fields \subseteq DOMAIN work
  PROVE  /\ \/ UNCHANGED lex /\ (at' = "index" => (at = "index" /\ work'.lex = work.lex) \/ work'.lex = "delete")
            \/ /\ at = "index" /\ work.lex # "done" /\ lex' = Indexed(lex, work.lex) /\ work'.lex = After(work.lex)
               /\ UNCHANGED <<history, pg, at>>
         /\ \/ UNCHANGED vec /\ (at' = "index" => (at = "index" /\ work'.vec = work.vec) \/ work'.vec = "delete")
            \/ /\ at = "index" /\ work.vec # "done" /\ vec' = Indexed(vec, work.vec) /\ work'.vec = After(work.vec)
               /\ UNCHANGED <<history, pg, at>>
  <1>1. CASE WriteLexical
    BY <1>1 DEF WriteLexical, Fields
  <1>2. CASE WriteVectors
    BY <1>2 DEF WriteVectors, Fields
  <1>3. CASE SyncPlan
    BY <1>3 DEF SyncPlan, LeaveStores, stores, Fields
  <1>4. CASE ~(WriteLexical \/ WriteVectors \/ SyncPlan)
    <2>1. UNCHANGED <<lex, vec>>
      BY <1>4, Writing
    <2>2. at' = "index" => at = "index" /\ work' = work
      BY <1>4 DEF Next, Owner, vars, lane, RequestCompile, PlanArchive, ConfirmReads, ConfirmStale, ConfirmWrites,
     Drop, ClaimNext, WaitElapses, Interrupted, RoundFails, StoreAway, LeaveJob, WriteMeta, HandCommits,
     Body, SyncRefused, CompileCompletes, MaybeTriggerRollover, MaybeTriggerChallenge,
     ChallengeCompensates, ChallengeCompletes, GroomDeclines, GroomFails, GroomCompletes,
     ArchiveNotConfirmed, ArchiveStale, ArchiveFails, ArchiveCompletes, End, CompileCommits, CompileNoop, GroomCommits,
     MoveDocuments, ArchiveProceeds, ArchiveResumes, SetSourceArchived,
     AdvanceManifest, RecordEvents, MarkDigested, MarksSet, ArchiveStates, RecordTerminal, Goto, Running
    <2>. QED
      BY <2>1, <2>2
  <1>. QED
    BY <1>1, <1>2, <1>3, <1>4

LEMMA InitSearch == Init => SearchInv
  <1>. SUFFICES ASSUME Init PROVE SearchInv
    OBVIOUS
  <1>1. QueueInv /\ Base
    BY InitQueue, InitBase
  <1>2. /\ Len(history) = 1 /\ history[1].tree = Start /\ Tree = Start /\ at = "idle" /\ work = Blank /\ Blank.ref = 0
        /\ pg = Keys(Tree) /\ lex = Keys(Tree) /\ vec = Keys(Tree)
    BY DEF Init, Tree, HEAD, Blank
  <1>3. Grown /\ HoldsNow /\ IsProjected
    BY <1>2 DEF Grown, HoldsNow, IsProjected
  <1>4. Sides
    BY <1>1, <1>2, OwnSide DEF Sides
  <1>5. Serves(lex, work.lex) /\ Serves(vec, work.vec)
    BY <1>2 DEF Serves
  <1>. QED
    BY <1>1, <1>3, <1>4, <1>5 DEF SearchInv

LEMMA StepSearch == SearchInv /\ [Next]_vars => SearchInv'
  <1>. SUFFICES ASSUME SearchInv, [Next]_vars PROVE SearchInv'
    OBVIOUS
  <1>1. QueueInv /\ PublishedInv /\ Base /\ Grown /\ HoldsNow /\ IsProjected
    BY DEF SearchInv, QueueInv, PublishedInv
  <1>2. Follows /\ Base' /\ QueueInv'
    BY <1>1, StepBase, StepQueue
  <1>3. Grown' /\ HoldsNow' /\ IsProjected' /\ Sides'
    BY <1>1, <1>2, GrownStep, HoldsStep, ProjectedStep, SidesStep
  <1>4. Fields \subseteq DOMAIN work
    BY <1>1 DEF Base, Types
  <1>5. AdvanceManifest => work.lex = "done" /\ work.vec = "done"
    BY DEF AdvanceManifest, IndexesWritten
  <1>6. PICK a, b, c, d : a = lex /\ b = lex' /\ c = work.lex /\ d = work'.lex
    OBVIOUS
  <1>7. Serves(lex, work.lex)'
    <2>1. Serves(a, c)
      BY <1>6 DEF SearchInv
    <2>2. \/ b = a /\ (at' = "index" => (at = "index" /\ d = c) \/ d = "delete")
          \/ /\ at = "index" /\ c # "done" /\ b = Indexed(a, c) /\ d = After(c)
             /\ UNCHANGED <<history, pg, at>>
      BY <1>4, <1>6, IndexSteps
    <2>3. Calm' => /\ pg' \cap Keys(Tree') \subseteq b
                   /\ at' = "index" /\ d = "done" => Keys(Tree') \subseteq b
      BY <1>5, <1>6, <2>1, <2>2, ServesStep
    <2>. QED
      BY <1>6, <2>3 DEF Serves
  <1>8. PICK e, f, g, h : e = vec /\ f = vec' /\ g = work.vec /\ h = work'.vec
    OBVIOUS
  <1>9. Serves(vec, work.vec)'
    <2>1. Serves(e, g)
      BY <1>8 DEF SearchInv
    <2>2. \/ f = e /\ (at' = "index" => (at = "index" /\ h = g) \/ h = "delete")
          \/ /\ at = "index" /\ g # "done" /\ f = Indexed(e, g) /\ h = After(g)
             /\ UNCHANGED <<history, pg, at>>
      BY <1>4, <1>8, IndexSteps
    <2>3. Calm' => /\ pg' \cap Keys(Tree') \subseteq f
                   /\ at' = "index" /\ h = "done" => Keys(Tree') \subseteq f
      BY <1>5, <1>8, <2>1, <2>2, ServesStep
    <2>. QED
      BY <1>8, <2>3 DEF Serves
  <1>. QED
    BY <1>2, <1>3, <1>7, <1>9 DEF SearchInv

LEMMA SearchAlways == Spec => []SearchInv
  BY InitSearch, StepSearch, PTL DEF Spec

\* Nobody commits by hand, no archive ends failed behind its commit and no row is overtaken: a key the
\* manifest lists and the library still has is in both indexes, whatever died, was away or
\* waited between the indexes' two writes and the manifest's one transaction (sync_projection).
THEOREM ManifestedAreSearchable == Spec => []ManifestedIsSearchable
  <1>1. SearchInv => ManifestedIsSearchable
    BY DEF SearchInv, Serves, Calm, ManifestedIsSearchable
  <1>. QED
    BY <1>1, SearchAlways, PTL
-----------------------------------------------------------------------------
(***************************************************************************)
(* The stores agree when everything has run, and where a row is executed.  *)
(*                                                                         *)
(* Somebody is always still to bring the manifest to the library: the      *)
(* compile that is open, the groom at work, the decision underway.  And an *)
(* index has more than the manifest only while a body writes it or a row   *)
(* cut short there is still to run; nothing but a digest commits over such *)
(* a row, because the rows that were taken up are run in their order.      *)
(*                                                                         *)
(* First, where a body stands and what it knows there.                     *)
(***************************************************************************)

\* Where a body may be, and what it holds there.
InPhase(kind, phase) ==
    \/ kind = "compile" /\ phase \in {"run", "events", "sync", "index", "digest", "complete", "rollover", "challenge"}
    \/ kind = "groom" /\ phase \in {"run", "sync", "index", "complete"}
    \/ kind = "challenge" /\ phase \in {"run", "complete"}
    \/ kind = "archive" /\ phase \in {"run", "move", "marks", "sync", "index", "terminal", "complete"}

Footing ==
    current # 0 =>
        /\ InPhase(Me.kind, at)
        /\ at = "run" => work.ref = 0
        /\ at \in {"sync", "index"} => work.ref # 0
        /\ Me.kind \in {"compile", "groom"} /\ at # "run" => work.ref # 0

LEMMA FootingStep ==
  ASSUME Base, Base', Follows, [Next]_vars, Footing
  PROVE  Footing'
  <1>. SUFFICES ASSUME current' # 0
                PROVE  /\ InPhase(Me'.kind, at')
                       /\ at' = "run" => work'.ref = 0
                       /\ at' \in {"sync", "index"} => work'.ref # 0
                       /\ Me'.kind \in {"compile", "groom"} /\ at' # "run" => work'.ref # 0
    BY DEF Footing
  <1>0. Fields \subseteq DOMAIN work /\ HEAD \in Nat \ {0} /\ HEAD + 1 # 0 /\ Blank.ref = 0
    BY TreeType DEF Base, Types, Blank
  <1>1. CASE UNCHANGED <<current, at, work>>
    <2>1. Me'.kind = Me.kind
      BY <1>1, MeStays
    <2>. QED
      BY <1>1, <2>1 DEF Footing
  <1>2. CASE ClaimNext /\ at' = "run" /\ work' = Blank
    <2>1. Me' \in JobRows
      BY MeType DEF Me, Base, Types
    <2>2. Me'.kind \in {"compile", "groom", "challenge", "archive"}
      BY <2>1 DEF JobRows
    <2>. QED
      BY <1>0, <1>2, <2>2 DEF InPhase
  <1>3. CASE current' = current /\ Body
    <2>0. current # 0 /\ Me'.kind = Me.kind
      BY <1>3, MeStays
    <2>1. CASE \/ SyncPlan \/ WriteLexical \/ WriteVectors \/ SetSourceArchived
      BY <1>0, <2>0, <2>1 DEF SyncPlan, WriteLexical, WriteVectors, SetSourceArchived, Fields, Footing, InPhase, Running
    <2>2. CASE AdvanceManifest
      <3>1. work' = work /\ at = "index"
        BY <2>2 DEF AdvanceManifest
      <3>. QED
        BY <2>0, <2>2, <3>1 DEF AdvanceManifest, Footing, InPhase
    <2>3. CASE CompileCommits \/ GroomCommits \/ MoveDocuments \/ CompileNoop \/ ArchiveResumes \/ ArchiveProceeds
      BY <1>0, <2>0, <2>3 DEF CompileCommits, GroomCommits, MoveDocuments, CompileNoop, ArchiveResumes,
         ArchiveProceeds, Blank, Footing, InPhase, Running
    <2>4. CASE RecordEvents \/ MarkDigested \/ CompileCompletes \/ MaybeTriggerRollover
      BY <2>0, <2>4 DEF RecordEvents, MarkDigested, CompileCompletes, MaybeTriggerRollover, End, Goto, Footing, InPhase, Running
    <2>5. CASE ChallengeCompensates \/ ArchiveStates \/ MarksSet \/ RecordTerminal
      BY <2>0, <2>5 DEF ChallengeCompensates, ArchiveStates, MarksSet, RecordTerminal, Goto, Footing, InPhase, Running
    <2>. QED
      BY <1>3, <2>1, <2>2, <2>3, <2>4, <2>5 DEF Body, SyncRefused, End, MaybeTriggerChallenge, ChallengeCompletes,
         GroomDeclines, GroomFails, GroomCompletes, ArchiveNotConfirmed, ArchiveStale, ArchiveCompletes
  <1>. QED
    BY <1>1, <1>2, <1>3, BodySteps

\* An archive body past its look at the row: what it knows of the row and of its own commit.
Standing ==
    current # 0 /\ Me.kind = "archive" /\ at \in {"move", "marks", "sync", "index", "terminal"} =>
        /\ Row.status = "confirmed"
        /\ at = "move" => Row.moves
        /\ work.ref # 0 /\ at # "move" => ~Unmoved(Me.arg)
        /\ work.ref = 0 /\ at # "move" => ~Row.moves
        /\ work.ref = 0 \/ at = "move" => \A k \in (Row.ref + 1)..Len(history) : history[k].proposal = 0

LEMMA StandingStep ==
  ASSUME DecisionInv, DecisionInv', Follows, RowsOnward, [Next]_vars, Footing, Standing
  PROVE  Standing'
  <1>. SUFFICES ASSUME current' # 0, Me'.kind = "archive", at' \in {"move", "marks", "sync", "index", "terminal"}
                PROVE  /\ rows'[Me'.arg].status = "confirmed"
                       /\ at' = "move" => rows'[Me'.arg].moves
                       /\ work'.ref # 0 /\ at' # "move" => ~(Unmoved(Me.arg)')
                       /\ work'.ref = 0 /\ at' # "move" => ~rows'[Me'.arg].moves
                       /\ work'.ref = 0 \/ at' = "move" =>
                            \A k \in (rows'[Me'.arg].ref + 1)..Len(history') : history'[k].proposal = 0
    BY DEF Standing, Row
  <1>0. Base /\ Base' /\ Fields \subseteq DOMAIN work /\ Blank.ref = 0 /\ HEAD # 0 /\ HEAD + 1 # 0
    BY TreeType DEF DecisionInv, Base, Types, Blank
  <1>1. CASE ClaimNext /\ at' = "run" /\ work' = Blank
    BY <1>1
  <1>2. ASSUME current' = current, current # 0, Me.kind = "archive"
        PROVE  /\ Me'.arg = Me.arg /\ Me.arg \in 1..Len(rows) /\ Row = rows[Me.arg] /\ Row.ref \in 1..Len(history)
               /\ rows'[Me.arg].ref = Row.ref
    <2>1. Me'.arg = Me.arg /\ Me.arg \in 1..Len(rows) /\ Row = rows[Me.arg] /\ Row.ref \in 1..Len(history)
      BY <1>0, <1>2, MeStays, RowType DEF Row
    <2>. QED
      BY <2>1 DEF Follows, RowsFollow
  <1>3. ASSUME NEW r \in 1..Len(rows), UNCHANGED history \/ WriteMeta \/ (\E p \in Pages : HandCommits(p)),
               \A k \in (rows[r].ref + 1)..Len(history) : history[k].proposal = 0
        PROVE  \A k \in (rows[r].ref + 1)..Len(history') : history'[k].proposal = 0
    <2>1. CASE UNCHANGED history
      BY <1>3, <2>1
    <2>2. CASE WriteMeta \/ (\E p \in Pages : HandCommits(p))
      <3>1. \E t, by : history' = Append(history, [tree |-> t, by |-> by, proposal |-> 0])
        BY <2>2 DEF WriteMeta, HandCommits, Commit
      <3>2. /\ Len(history') = Len(history) + 1 /\ history'[Len(history) + 1].proposal = 0
            /\ \A i \in 1..Len(history) : history'[i] = history[i]
        BY <1>0, <3>1, NewTree
      <3>3. rows[r].ref \in Nat /\ Len(history) \in Nat
        BY <1>0 DEF Base, Types, LaneKept
      <3>. QED
        BY <1>3, <3>2, <3>3
    <2>. QED
      BY <1>3, <2>1, <2>2
  <1>4. CASE UNCHANGED <<current, at, work>>
    <2>1. current # 0 /\ Me.kind = "archive" /\ current' = current
      BY <1>0, <1>4, MeStays
    <2>r. PICK r \in 1..Len(rows) : r = Me.arg
      BY <1>2, <2>1
    <2>2. Standing /\ Me.arg = r /\ Me'.arg = r /\ Row = rows[r] /\ rows'[r].ref = rows[r].ref
      BY <1>2, <2>1, <2>r
    <2>3. rows[r].status = "confirmed"
      BY <1>4, <2>1, <2>2 DEF Standing
    <2>4. ~RecordTerminal /\ ~GivesUp /\ ~Breaks
      BY <1>4, <2>1 DEF RecordTerminal, GivesUp, Breaks, ArchiveStale, ArchiveFails, SyncRefused, Goto, End, Running
    <2>5. rows'[r].status = "confirmed" /\ rows'[r].moves = rows[r].moves
      BY <2>3, <2>4 DEF RowsOnward, Undecided
    <2>6. work.ref # 0 /\ at # "move" => ~(Unmoved(r)')
      BY <1>0, <1>4, <2>1, <2>2, MovedStays DEF Standing
    <2>7. UNCHANGED history \/ WriteMeta \/ (\E p \in Pages : HandCommits(p))
      BY <1>4, Committing DEF CompileCommits, GroomCommits, MoveDocuments, Running
    <2>8. work.ref = 0 \/ at = "move" => \A k \in (rows[r].ref + 1)..Len(history') : history'[k].proposal = 0
      BY <1>3, <1>4, <2>1, <2>2, <2>7 DEF Standing
    <2>9. /\ at = "move" => rows[r].moves
          /\ work.ref = 0 /\ at # "move" => ~rows[r].moves
      BY <1>4, <2>1, <2>2 DEF Standing
    <2>. QED
      BY <1>4, <2>2, <2>5, <2>6, <2>8, <2>9
  <1>5. ASSUME current' = current, current # 0, Me.kind = "archive",
               \/ ArchiveStates \/ ArchiveProceeds \/ ArchiveResumes \/ MoveDocuments
               \/ SetSourceArchived \/ MarksSet \/ SyncPlan \/ WriteLexical \/ WriteVectors
               \/ AdvanceManifest \/ RecordTerminal
        PROVE  /\ rows'[Me'.arg].status = "confirmed"
               /\ at' = "move" => rows'[Me'.arg].moves
               /\ work'.ref # 0 /\ at' # "move" => ~(Unmoved(Me.arg)')
               /\ work'.ref = 0 /\ at' # "move" => ~rows'[Me'.arg].moves
               /\ work'.ref = 0 \/ at' = "move" =>
                    \A k \in (rows'[Me'.arg].ref + 1)..Len(history') : history'[k].proposal = 0
    <2>r. PICK r \in 1..Len(rows) : r = Me.arg
      BY <1>2, <1>5
    <2>0. /\ Me.arg = r /\ Me'.arg = r /\ Row = rows[r] /\ rows'[r].ref = rows[r].ref
          /\ rows \in Seq(Proposals) /\ rows[r] \in Proposals /\ rows[r].ref \in 1..Len(history)
      BY <1>0, <1>2, <1>5, <2>r DEF Base, Types
    <2>1. CASE ArchiveStates
      <3>1. /\ rows' = [rows EXCEPT ![r].statement = TRUE] /\ UNCHANGED history /\ at' = "move"
            /\ rows[r].status = "confirmed" /\ rows[r].moves /\ rows[r].ref = Len(history)
        BY <2>0, <2>1 DEF ArchiveStates, Goto, HEAD
      <3>2. rows'[r].status = "confirmed" /\ rows'[r].moves
        BY <2>0, <3>1 DEF Proposals
      <3>3. ~\E k : k \in (rows[r].ref + 1)..Len(history)
        BY <2>0, <3>1
      <3>. QED
        BY <2>0, <3>1, <3>2, <3>3
    <2>2. CASE ArchiveProceeds
      <3>1. /\ UNCHANGED <<rows, history>> /\ rows[r].status = "confirmed" /\ rows[r].ref = Len(history)
            /\ \/ at' = "move" /\ rows[r].moves
               \/ at' = "marks" /\ ~rows[r].moves /\ work'.ref = 0
        BY <2>0, <2>2 DEF ArchiveProceeds, LeaveStores, HEAD, Blank
      <3>3. ~\E k : k \in (rows[r].ref + 1)..Len(history)
        BY <2>0, <3>1
      <3>. QED
        BY <2>0, <3>1, <3>3
    <2>3. CASE ArchiveResumes
      <3>1. /\ UNCHANGED <<rows, history>> /\ rows[r].status = "confirmed" /\ at' = "marks" /\ work'.ref # 0
        BY <1>0, <2>0, <2>3 DEF ArchiveResumes, LeaveStores, Blank
      <3>2. PICK i \in Landed : TRUE
        BY <2>3 DEF ArchiveResumes
      <3>3. i \in 1..Len(history) /\ history[i].proposal = r
        BY <1>0, <2>0, <3>2 DEF Landed, HEAD, Base, Types
      <3>4. ~(Unmoved(r)')
        BY <3>1, <3>3 DEF Unmoved
      <3>. QED
        BY <2>0, <3>1, <3>4
    <2>4. CASE MoveDocuments
      <3>1. /\ UNCHANGED rows /\ rows[r].status = "confirmed" /\ at' = "marks" /\ work'.ref = HEAD + 1
        BY <1>5, <2>0, <2>4 DEF MoveDocuments, Standing, Blank, Running
      <3>2. \E t : history' = Append(history, [tree |-> t, by |-> "archive", proposal |-> r])
        BY <2>0, <2>4 DEF MoveDocuments, Commit
      <3>3. Len(history') = Len(history) + 1 /\ history'[Len(history) + 1].proposal = r
        BY <1>0, <3>2, NewTree
      <3>4. Len(history) + 1 \in 1..Len(history')
        BY <1>0, <3>3 DEF Base, Types
      <3>5. ~(Unmoved(r)')
        BY <3>3, <3>4 DEF Unmoved
      <3>. QED
        BY <1>0, <2>0, <3>1, <3>5
    <2>5. CASE SetSourceArchived \/ MarksSet \/ SyncPlan \/ WriteLexical \/ WriteVectors \/ AdvanceManifest
      <3>1. /\ UNCHANGED <<rows, history>> /\ work'.ref = work.ref /\ at # "move" /\ at' # "move"
            /\ at \in {"marks", "sync", "index"}
        BY <1>0, <1>5, <2>5 DEF SetSourceArchived, MarksSet, SyncPlan, WriteLexical, WriteVectors, AdvanceManifest,
           LeaveStores, Goto, Running, Fields
      <3>2. Unmoved(r)' <=> Unmoved(r)
        BY <3>1 DEF Unmoved
      <3>3. Standing /\ Me.kind = "archive" /\ current # 0
        BY <1>5
      <3>. QED
        BY <2>0, <3>1, <3>2, <3>3 DEF Standing
    <2>6. CASE RecordTerminal
      BY <2>6 DEF RecordTerminal, Goto
    <2>. QED
      BY <1>5, <2>1, <2>2, <2>3, <2>4, <2>5, <2>6
  <1>. QED
    BY <1>0, <1>1, <1>4, <1>5, ArchiveSteps
-----------------------------------------------------------------------------
(* The commits that rows name, and the grooms that are answered for. *)

\* The commits the rows of the queue name in snapshot_ref, and those the bodies hold.
Signed ==
    /\ \A i \in 1..Len(history) : history[i].by = "groom" => history[i].proposal = 0
    /\ \A j \in 1..Len(jobs) : jobs[j].ref \in 0..Len(history)
    /\ current # 0 /\ Me.kind = "groom" /\ work.ref # 0 =>
          /\ work.ref \in 1..Len(history) /\ history[work.ref].by = "groom"
          /\ \A j \in 1..Len(jobs) : jobs[j].ref # work.ref
    /\ current # 0 /\ work.wrote => work.ref \in 1..Len(history) /\ history[work.ref].by = "compile"

\* How a row comes to name a commit.
Naming(j, i) ==
    /\ j = current
    /\ \/ CompileCompletes /\ work.wrote /\ i = work.ref
       \/ GroomCompletes /\ i = work.ref
       \/ ArchiveCompletes /\ i \in 1..Len(history) /\ history[i].proposal = Me.arg

LEMMA EndNames ==
  ASSUME Base, current # 0, NEW st, NEW ref, jobs' = Ended(st, ref)
  PROVE  /\ Len(jobs') = Len(jobs) /\ jobs'[current].ref = ref
         /\ \A j \in 1..Len(jobs) : j # current => jobs'[j] = jobs[j]
  <1>1. current \in 1..Len(jobs) /\ jobs \in Seq(JobRows) /\ jobs[current] \in JobRows
    BY DEF Base, Types
  <1>2. DOMAIN jobs[current] = {"kind", "arg", "again", "status", "tries", "ref", "cut"}
    BY <1>1 DEF JobRows
  <1>. QED
    BY <1>1, <1>2 DEF Ended

LEMMA RefSteps ==
  ASSUME Base, [Next]_vars
  PROVE  /\ \A j \in 1..Len(jobs) : jobs'[j].ref \in {jobs[j].ref, 0} \/ Naming(j, jobs'[j].ref)
         /\ \A j \in 1..Len(jobs') : j > Len(jobs) => jobs'[j].ref = 0
  <1>0. jobs \in Seq(JobRows) /\ Len(jobs) \in Nat /\ DOMAIN jobs = 1..Len(jobs)
        /\ \A j \in 1..Len(jobs) : DOMAIN jobs[j] = {"kind", "arg", "again", "status", "tries", "ref", "cut"}
    <2>1. jobs \in Seq(JobRows)
      BY DEF Base, Types
    <2>2. \A j \in 1..Len(jobs) : jobs[j] \in JobRows
      BY <2>1
    <2>. QED
      BY <2>1, <2>2 DEF JobRows
  <1>1. CASE UNCHANGED jobs
    BY <1>0, <1>1
  <1>2. ASSUME NEW row, jobs' = Append(jobs, row), row.ref = 0
        PROVE  /\ \A j \in 1..Len(jobs) : jobs'[j].ref = jobs[j].ref
               /\ \A j \in 1..Len(jobs') : j > Len(jobs) => jobs'[j].ref = 0
    BY <1>0, <1>2, JobJoins
  <1>3. ASSUME NEW j \in 1..Len(jobs), NEW new, jobs' = [jobs EXCEPT ![j] = new], new.ref = jobs[j].ref
        PROVE  /\ \A i \in 1..Len(jobs) : jobs'[i].ref = jobs[i].ref
               /\ \A i \in 1..Len(jobs') : i > Len(jobs) => jobs'[i].ref = 0
    BY <1>0, <1>3, JobPut
  <1>4. ASSUME NEW s \in Sources, RequestCompile(s) PROVE \E row : jobs' = Append(jobs, row) /\ row.ref = 0
    BY <1>4 DEF RequestCompile, Job
  <1>5. ASSUME NEW r \in DOMAIN rows, ConfirmWrites(r)
        PROVE  UNCHANGED jobs \/ \E row : jobs' = Append(jobs, row) /\ row.ref = 0
    <2>1. UNCHANGED jobs \/ jobs' = Append(jobs, Job("archive", r, FALSE))
      BY <1>5 DEF ConfirmWrites
    <2>2. Job("archive", r, FALSE).ref = 0
      BY DEF Job
    <2>. QED
      BY <2>1, <2>2
  <1>6. CASE MaybeTriggerRollover \/ MaybeTriggerChallenge \/ ChallengeCompensates
    <2>1. UNCHANGED jobs \/ \E kind, arg, again : jobs' = Append(jobs, Job(kind, arg, again))
      BY <1>6 DEF MaybeTriggerRollover, MaybeTriggerChallenge, ChallengeCompensates
    <2>2. \A kind, arg, again : Job(kind, arg, again).ref = 0
      BY DEF Job
    <2>. QED
      BY <1>1, <1>2, <2>1, <2>2
  <1>7. ASSUME NEW j \in DOMAIN jobs, WaitElapses(j)
        PROVE  \E new : jobs' = [jobs EXCEPT ![j] = new] /\ new.ref = jobs[j].ref
    <2>1. jobs' = [jobs EXCEPT ![j] = [jobs[j] EXCEPT !.status = "queued"]]
      BY <1>7 DEF WaitElapses
    <2>2. [jobs[j] EXCEPT !.status = "queued"].ref = jobs[j].ref
      BY <1>0
    <2>. QED
      BY <2>1, <2>2
  <1>8. CASE ClaimNext
    <2>1. PICK j \in DOMAIN jobs : jobs' = [jobs EXCEPT ![j] = [jobs[j] EXCEPT !.status = "claimed"]]
      BY <1>8 DEF ClaimNext
    <2>2. [jobs[j] EXCEPT !.status = "claimed"].ref = jobs[j].ref
      BY <1>0
    <2>. QED
      BY <1>0, <1>3, <2>1, <2>2
  <1>9. CASE Interrupted \/ RoundFails \/ StoreAway \/ (SyncRefused /\ Me.kind # "archive")
    <2>0. current # 0 /\ current \in 1..Len(jobs) /\ Me = jobs[current]
      BY <1>9, MeType DEF Interrupted, RoundFails, StoreAway, SyncRefused, LeaveJob, Me
    <2>1. UNCHANGED jobs \/ jobs' = [jobs EXCEPT ![current] = Requeued(Me)]
          \/ jobs' = [jobs EXCEPT ![current] = Parked(Me)]
      BY <1>9, <2>0 DEF Interrupted, RoundFails, StoreAway, SyncRefused, LeaveJob
    <2>2. Requeued(Me).ref = Me.ref /\ Parked(Me).ref = Me.ref
      BY <1>0, <2>0 DEF Requeued, Parked
    <2>. QED
      BY <1>1, <1>3, <2>0, <2>1, <2>2
  <1>10. CASE Ending
    <2>1. current # 0 /\ current \in 1..Len(jobs)
      BY <1>10, EndedRow
    <2>2. \E st, ref : jobs' = Ended(st, ref) /\ (ref = 0 \/ Naming(current, ref))
      <3>1. CASE CompileCompletes
        <4>1. (jobs' = Ended("done", work.ref) /\ work.wrote) \/ jobs' = Ended("done", 0)
          BY <3>1 DEF CompileCompletes, End
        <4>. QED
          BY <3>1, <4>1 DEF Naming
      <3>2. CASE GroomCompletes
        BY <3>2 DEF GroomCompletes, End, Naming
      <3>3. CASE ArchiveCompletes
        <4>1. CASE Landed = {}
          BY <3>3, <4>1 DEF ArchiveCompletes, End
        <4>2. CASE Landed # {}
          <5>1. PICK i : i \in Landed /\ jobs' = Ended("done", i)
            BY <3>3, <4>2 DEF ArchiveCompletes, End
          <5>2. Row.ref \in Nat /\ Len(history) \in Nat
            BY <3>3, RowType DEF ArchiveCompletes, Running, Base, Types, Proposals
          <5>3. i \in 1..Len(history) /\ history[i].proposal = Me.arg
            BY <5>1, <5>2 DEF Landed, HEAD
          <5>. QED
            BY <3>3, <5>1, <5>3 DEF Naming
        <4>. QED
          BY <4>1, <4>2
      <3>. QED
        BY <1>10, <3>1, <3>2, <3>3 DEF Ending, ChallengeCompletes, GroomDeclines, GroomFails,
           ArchiveNotConfirmed, ArchiveStale, ArchiveFails, SyncRefused, End
    <2>3. PICK st, ref : jobs' = Ended(st, ref) /\ (ref = 0 \/ Naming(current, ref))
      BY <2>2
    <2>4. /\ Len(jobs') = Len(jobs) /\ jobs'[current].ref = ref
          /\ \A j \in 1..Len(jobs) : j # current => jobs'[j] = jobs[j]
      BY <2>1, <2>3, EndNames
    <2>. QED
      BY <1>0, <2>3, <2>4
  <1>11. ASSUME NEW row, jobs' = Append(jobs, row), row.ref = 0
         PROVE  /\ \A j \in 1..Len(jobs) : jobs'[j].ref \in {jobs[j].ref, 0} \/ Naming(j, jobs'[j].ref)
                /\ \A j \in 1..Len(jobs') : j > Len(jobs) => jobs'[j].ref = 0
    BY <1>2, <1>11
  <1>12. ASSUME NEW j \in 1..Len(jobs), NEW new, jobs' = [jobs EXCEPT ![j] = new], new.ref = jobs[j].ref
         PROVE  /\ \A i \in 1..Len(jobs) : jobs'[i].ref \in {jobs[i].ref, 0} \/ Naming(i, jobs'[i].ref)
                /\ \A i \in 1..Len(jobs') : i > Len(jobs) => jobs'[i].ref = 0
    BY <1>3, <1>12
  <1>13. CASE Owner \/ \E j \in DOMAIN jobs : WaitElapses(j)
    <2>1. UNCHANGED jobs \/ (\E s \in Sources : RequestCompile(s)) \/ (\E r \in DOMAIN rows : ConfirmWrites(r))
          \/ \E j \in DOMAIN jobs : WaitElapses(j)
      BY <1>13 DEF Owner, PlanArchive, ConfirmReads, ConfirmStale, Drop, lane
    <2>2. CASE \E s \in Sources : RequestCompile(s)
      BY <1>4, <1>11, <2>2
    <2>3. CASE \E r \in DOMAIN rows : ConfirmWrites(r)
      BY <1>1, <1>5, <1>11, <2>3
    <2>4. CASE \E j \in DOMAIN jobs : WaitElapses(j)
      BY <1>0, <1>7, <1>12, <2>4
    <2>. QED
      BY <1>1, <2>1, <2>2, <2>3, <2>4
  <1>14. CASE Body
    <2>1. UNCHANGED jobs \/ Ending \/ (SyncRefused /\ Me.kind # "archive")
          \/ MaybeTriggerRollover \/ MaybeTriggerChallenge \/ ChallengeCompensates
      BY <1>14 DEF Body, Ending, SyncPlan, WriteLexical, WriteVectors, AdvanceManifest, CompileNoop, RecordEvents,
         MarkDigested, ArchiveResumes, ArchiveStates, ArchiveProceeds, SetSourceArchived, MarksSet, RecordTerminal,
         LeaveStores, Goto, CompileCommits, GroomCommits, MoveDocuments
    <2>. QED
      BY <1>1, <1>6, <1>9, <1>10, <2>1
  <1>. QED
    BY <1>1, <1>8, <1>9, <1>10, <1>13, <1>14 DEF Next, Ending, vars, lane, WriteMeta, HandCommits

LEMMA SignedStep ==
  ASSUME Base, Base', Follows, [Next]_vars, Footing, Signed
  PROVE  Signed'
  <1>0. /\ history \in Seq(Commits) /\ Len(history) \in Nat /\ Len(history') >= Len(history) /\ Len(history') \in Nat
        /\ \A i \in 1..Len(history) : history'[i] = history[i]
        /\ Len(jobs) \in Nat /\ Len(jobs') >= Len(jobs) /\ Len(jobs') \in Nat
        /\ Fields \subseteq DOMAIN work /\ Blank.ref = 0 /\ ~Blank.wrote
    BY DEF Base, Types, Follows, HistoryGrows, JobsFollow, Blank
  <1>1. ASSUME NEW i \in 1..Len(history'), history'[i].by = "groom" PROVE history'[i].proposal = 0
    <2>1. CASE i \in 1..Len(history)
      BY <1>0, <1>1, <2>1 DEF Signed
    <2>2. CASE i \notin 1..Len(history)
      <3>1. ~UNCHANGED history
        BY <1>1, <2>2
      <3>2. Len(history') = Len(history) + 1
            /\ (history'[Len(history) + 1].by = "groom" => history'[Len(history) + 1].proposal = 0)
        <4>1. CASE MoveDocuments
          <5>1. \E t : history' = Append(history, [tree |-> t, by |-> "archive", proposal |-> Me.arg])
            BY <4>1 DEF MoveDocuments, Commit
          <5>2. Len(history') = Len(history) + 1 /\ history'[Len(history) + 1].by = "archive"
            BY <5>1, NewTree
          <5>. QED
            BY <5>2
        <4>2. CASE WriteMeta \/ (\E p \in Pages : HandCommits(p)) \/ CompileCommits \/ GroomCommits
          <5>1. \E t, by : history' = Append(history, [tree |-> t, by |-> by, proposal |-> 0])
            BY <4>2 DEF WriteMeta, HandCommits, CompileCommits, GroomCommits, Commit
          <5>2. Len(history') = Len(history) + 1 /\ history'[Len(history) + 1].proposal = 0
            BY <5>1, NewTree
          <5>. QED
            BY <5>2
        <4>. QED
          BY <3>1, <4>1, <4>2, Committing
      <3>3. i = Len(history) + 1
        BY <1>0, <2>2, <3>2
      <3>. QED
        BY <1>1, <3>2, <3>3
    <2>. QED
      BY <2>1, <2>2
  <1>2. /\ \A j \in 1..Len(jobs) : jobs'[j].ref \in {jobs[j].ref, 0} \/ Naming(j, jobs'[j].ref)
        /\ \A j \in 1..Len(jobs') : j > Len(jobs) => jobs'[j].ref = 0
    BY RefSteps
  <1>3. ASSUME NEW j \in 1..Len(jobs') PROVE jobs'[j].ref \in 0..Len(history')
    <2>1. CASE j \in 1..Len(jobs) /\ Naming(j, jobs'[j].ref)
      <3>1. current # 0
        BY <2>1 DEF Naming, CompileCompletes, GroomCompletes, ArchiveCompletes, Running
      <3>2. CASE GroomCompletes /\ jobs'[j].ref = work.ref
        <4>1. work.ref \in 1..Len(history)
          BY <3>1, <3>2 DEF GroomCompletes, Running, Footing, Signed
        <4>. QED
          BY <1>0, <3>2, <4>1
      <3>. QED
        BY <1>0, <2>1, <3>1, <3>2 DEF Naming, Signed
    <2>2. CASE j \in 1..Len(jobs) /\ jobs'[j].ref \in {jobs[j].ref, 0}
      <3>1. jobs[j].ref \in 0..Len(history)
        BY <2>2 DEF Signed
      <3>. QED
        BY <1>0, <2>2, <3>1
    <2>3. CASE j \notin 1..Len(jobs)
      BY <1>0, <1>2, <2>3
    <2>. QED
      BY <1>2, <2>1, <2>2, <2>3
  <1>4. ASSUME current' # 0, Me'.kind = "groom", work'.ref # 0
        PROVE  /\ work'.ref \in 1..Len(history') /\ history'[work'.ref].by = "groom"
               /\ \A j \in 1..Len(jobs') : jobs'[j].ref # work'.ref
    <2>1. CASE \/ UNCHANGED <<current, at, work>>
               \/ current' = current /\ (SyncPlan \/ WriteLexical \/ WriteVectors \/ AdvanceManifest)
      <3>1. current # 0 /\ current' = current /\ Me.kind = "groom" /\ work'.ref = work.ref
        BY <1>0, <1>4, <2>1, MeStays DEF SyncPlan, WriteLexical, WriteVectors, AdvanceManifest, Fields
      <3>2. /\ work.ref \in 1..Len(history) /\ history[work.ref].by = "groom"
            /\ \A j \in 1..Len(jobs) : jobs[j].ref # work.ref
        BY <1>4, <3>1 DEF Signed
      <3>3. ~CompileCompletes /\ ~GroomCompletes /\ ~ArchiveCompletes
        BY <1>4, <3>1 DEF CompileCompletes, GroomCompletes, ArchiveCompletes, Running, End
      <3>4. \A j \in 1..Len(jobs') : jobs'[j].ref # work.ref
        <4>. TAKE j \in 1..Len(jobs')
        <4>1. CASE j \in 1..Len(jobs)
          BY <1>2, <1>4, <3>1, <3>2, <3>3, <4>1 DEF Naming
        <4>2. CASE j \notin 1..Len(jobs)
          BY <1>0, <1>2, <1>4, <3>1, <4>2
        <4>. QED
          BY <4>1, <4>2
      <3>. QED
        BY <1>0, <3>1, <3>2, <3>4
    <2>2. CASE current' = current /\ GroomCommits
      <3>1. \E t : history' = Append(history, [tree |-> t, by |-> "groom", proposal |-> 0])
        BY <2>2 DEF GroomCommits, Commit
      <3>2. Len(history') = Len(history) + 1 /\ history'[Len(history) + 1].by = "groom"
        BY <3>1, NewTree
      <3>3. work'.ref = Len(history) + 1 /\ UNCHANGED jobs
        BY <1>0, <2>2 DEF GroomCommits, Blank, HEAD
      <3>4. \A j \in 1..Len(jobs) : jobs[j].ref \in 0..Len(history)
        BY DEF Signed
      <3>. QED
        BY <1>0, <3>2, <3>3, <3>4
    <2>3. CASE current' = current /\ Body
      <3>1. current # 0 /\ Me.kind = "groom"
        BY <1>4, <2>3, MeStays
      <3>2. SyncPlan \/ WriteLexical \/ WriteVectors \/ AdvanceManifest \/ GroomCommits
        BY <1>4, <2>3, <3>1 DEF Body, SyncRefused, End, CompileCommits, CompileNoop, RecordEvents, MarkDigested,
           CompileCompletes, MaybeTriggerRollover, MaybeTriggerChallenge, ChallengeCompensates, ChallengeCompletes,
           GroomDeclines, GroomFails, GroomCompletes, ArchiveNotConfirmed, ArchiveStale, ArchiveResumes,
           ArchiveStates, ArchiveProceeds, MoveDocuments, SetSourceArchived, MarksSet, RecordTerminal,
           ArchiveCompletes, Running
      <3>. QED
        BY <2>1, <2>2, <2>3, <3>2
    <2>4. CASE ClaimNext /\ at' = "run" /\ work' = Blank
      BY <1>0, <1>4, <2>4
    <2>. QED
      BY <1>4, <2>1, <2>3, <2>4, BodySteps
  <1>5. ASSUME current' # 0, work'.wrote PROVE work'.ref \in 1..Len(history') /\ history'[work'.ref].by = "compile"
    <2>1. CASE \/ UNCHANGED <<current, at, work>>
               \/ /\ current' = current /\ work'.wrote = work.wrote /\ work'.ref = work.ref
      <3>1. work.ref \in 1..Len(history) /\ history[work.ref].by = "compile"
        BY <1>5, <2>1 DEF Signed
      <3>. QED
        BY <1>0, <2>1, <3>1
    <2>2. CASE CompileCommits
      <3>1. \E t : history' = Append(history, [tree |-> t, by |-> "compile", proposal |-> 0])
        BY <2>2 DEF CompileCommits, Commit
      <3>2. Len(history') = Len(history) + 1 /\ history'[Len(history) + 1].by = "compile"
        BY <3>1, NewTree
      <3>3. work'.ref = Len(history) + 1
        BY <1>0, <2>2 DEF CompileCommits, Blank, HEAD
      <3>. QED
        BY <1>0, <3>2, <3>3
    <2>3. CASE GroomCommits \/ MoveDocuments \/ CompileNoop \/ ArchiveResumes
      BY <1>5, <2>3 DEF GroomCommits, MoveDocuments, CompileNoop, ArchiveResumes, Blank
    <2>4. CASE ArchiveProceeds
      <3>1. work' = work \/ ~work'.wrote
        BY <2>4 DEF ArchiveProceeds, Blank
      <3>2. work.wrote => work.ref # 0
        BY <2>4 DEF ArchiveProceeds, Running, Signed
      <3>. QED
        BY <1>5, <2>1, <2>4, <3>1 DEF ArchiveProceeds
    <2>5. CASE current' = current /\ (SyncPlan \/ WriteLexical \/ WriteVectors \/ SetSourceArchived)
      <3>1. work'.wrote = work.wrote /\ work'.ref = work.ref
        BY <1>0, <2>5 DEF SyncPlan, WriteLexical, WriteVectors, SetSourceArchived, Fields
      <3>. QED
        BY <2>1, <2>5, <3>1
    <2>6. CASE current' = current /\ Body
      <3>1. work' = work \/ CompileCommits \/ GroomCommits \/ MoveDocuments \/ CompileNoop \/ ArchiveResumes \/ ArchiveProceeds
            \/ SyncPlan \/ WriteLexical \/ WriteVectors \/ SetSourceArchived
        BY <1>5, <2>6 DEF Body, SyncRefused, End, RecordEvents, MarkDigested, AdvanceManifest,
           CompileCompletes, MaybeTriggerRollover, MaybeTriggerChallenge, ChallengeCompensates, ChallengeCompletes,
           GroomDeclines, GroomFails, GroomCompletes, ArchiveNotConfirmed, ArchiveStale,
           ArchiveStates, MarksSet, RecordTerminal, ArchiveCompletes, Goto
      <3>. QED
        BY <2>1, <2>2, <2>3, <2>4, <2>5, <2>6, <3>1
    <2>7. CASE ClaimNext /\ at' = "run" /\ work' = Blank
      BY <1>0, <1>5, <2>7
    <2>. QED
      BY <1>5, <2>1, <2>6, <2>7, BodySteps
  <1>. QED
    BY <1>1, <1>3, <1>4, <1>5 DEF Signed

\* A groom whose commit nobody answers for any more was finished before.
LEMMA GroomsWereFinished ==
  ASSUME Base, Base', Follows, [Next]_vars, Signed, GroomsFinished'
  PROVE  GroomsFinished
  <1>0. /\ history \in Seq(Commits) /\ DOMAIN history = 1..Len(history) /\ DOMAIN history' = 1..Len(history')
        /\ DOMAIN jobs = 1..Len(jobs) /\ DOMAIN jobs' = 1..Len(jobs') /\ Len(history') >= Len(history)
        /\ \A i \in 1..Len(history) : history'[i] = history[i] /\ i \in 1..Len(history')
        /\ Len(jobs) \in Nat /\ Len(jobs') \in Nat
    BY DEF Base, Types, Follows, HistoryGrows, JobsFollow
  <1>. SUFFICES ASSUME NEW i \in 1..Len(history), history[i].by = "groom"
                PROVE  \/ \E j \in 1..Len(jobs) : jobs[j].ref = i
                       \/ current # 0 /\ Me.kind = "groom" /\ work.ref = i
    BY <1>0 DEF GroomsFinished
  <1>1. CASE \E j \in 1..Len(jobs') : jobs'[j].ref = i
    <2>1. PICK j \in 1..Len(jobs') : jobs'[j].ref = i
      BY <1>1
    <2>2. j \in 1..Len(jobs) /\ (jobs[j].ref = i \/ Naming(j, i))
      BY <1>0, <2>1, RefSteps
    <2>3. CASE Naming(j, i)
      <3>1. CASE CompileCompletes /\ work.wrote /\ i = work.ref
        BY <3>1 DEF CompileCompletes, Running, Signed
      <3>2. CASE GroomCompletes /\ i = work.ref
        BY <3>2 DEF GroomCompletes, Running
      <3>3. CASE ArchiveCompletes /\ history[i].proposal = Me.arg
        <4>1. Me.arg \in Nat \ {0}
          BY <3>3, RowType DEF ArchiveCompletes, Running, Base, Types
        <4>. QED
          BY <3>3, <4>1 DEF Signed
      <3>. QED
        BY <2>3, <3>1, <3>2, <3>3 DEF Naming
    <2>. QED
      BY <2>2, <2>3
  <1>2. CASE current' # 0 /\ Me'.kind = "groom" /\ work'.ref = i
    <2>1. CASE \/ UNCHANGED <<current, at, work>>
      BY <1>2, <2>1, MeStays
    <2>2. CASE ClaimNext /\ at' = "run" /\ work' = Blank
      BY <1>2, <2>2 DEF Blank
    <2>3. CASE current' = current /\ Body
      <3>1. current # 0 /\ Me.kind = "groom"
        BY <1>2, <2>3, MeStays
      <3>2. CASE work'.ref = work.ref
        BY <1>2, <3>1, <3>2
      <3>3. CASE GroomCommits
        BY <1>2, <3>3 DEF GroomCommits, Blank, HEAD
      <3>4. SyncPlan \/ WriteLexical \/ WriteVectors \/ AdvanceManifest \/ GroomCommits
        BY <1>2, <2>3, <3>1 DEF Body, SyncRefused, End, CompileCommits, CompileNoop, RecordEvents, MarkDigested,
           CompileCompletes, MaybeTriggerRollover, MaybeTriggerChallenge, ChallengeCompensates, ChallengeCompletes,
           GroomDeclines, GroomFails, GroomCompletes, ArchiveNotConfirmed, ArchiveStale, ArchiveResumes,
           ArchiveStates, ArchiveProceeds, MoveDocuments, SetSourceArchived, MarksSet, RecordTerminal,
           ArchiveCompletes, Running
      <3>5. SyncPlan \/ WriteLexical \/ WriteVectors \/ AdvanceManifest => work'.ref = work.ref
        BY DEF Base, Types, SyncPlan, WriteLexical, WriteVectors, AdvanceManifest, Fields
      <3>. QED
        BY <3>2, <3>3, <3>4, <3>5
    <2>. QED
      BY <1>2, <2>1, <2>2, <2>3, BodySteps
  <1>. QED
    BY <1>0, <1>1, <1>2 DEF GroomsFinished
-----------------------------------------------------------------------------
(* How a row is left, cut short and tried again. *)

\* How the row whose body runs is left.
LEMMA Leaving ==
  ASSUME Base, [Next]_vars, current # 0
  PROVE  \/ /\ jobs'[current].tries = Me.tries /\ jobs'[current].cut = Me.cut
            /\ current' = 0 => Ending \/ at \in {"rollover", "challenge"}
         \/ /\ current' = 0 /\ UNCHANGED <<history, rows, pg, lex, vec, marks>>
            /\ \/ Interrupted /\ jobs'[current] = Requeued(Me)
               \/ /\ RoundFails \/ StoreAway \/ (SyncRefused /\ Me.kind # "archive")
                  /\ jobs'[current] = Parked(Me)
  <1>1. current \in 1..Len(jobs) /\ Me = jobs[current]
    BY MeType DEF Me
  <1>2. CASE Ending
    <2>1. PICK new : /\ jobs' = [jobs EXCEPT ![current] = new] /\ new.tries = Me.tries /\ new.cut = Me.cut
      BY <1>2, EndedRow
    <2>2. jobs'[current] = new
      BY <1>1, <2>1, JobPut
    <2>. QED
      BY <1>2, <2>1, <2>2
  <1>3. CASE Interrupted \/ RoundFails \/ StoreAway
    <2>1. CASE Me.status = "claimed"
      <3>1. UNCHANGED <<history, rows, pg, lex, vec, marks>> /\ current' = 0
        BY <1>3 DEF Interrupted, RoundFails, StoreAway, LeaveJob, stores
      <3>2. CASE Interrupted
        <4>1. jobs' = [jobs EXCEPT ![current] = Requeued(Me)]
          BY <1>1, <2>1, <3>2 DEF Interrupted, LeaveJob
        <4>2. jobs'[current] = Requeued(Me)
          BY <1>1, <4>1, JobPut
        <4>. QED
          BY <3>1, <3>2, <4>2
      <3>3. CASE RoundFails \/ StoreAway
        <4>1. jobs' = [jobs EXCEPT ![current] = Parked(Me)]
          BY <1>1, <2>1, <3>3 DEF RoundFails, StoreAway, LeaveJob
        <4>2. jobs'[current] = Parked(Me)
          BY <1>1, <4>1, JobPut
        <4>. QED
          BY <3>1, <3>3, <4>2
      <3>. QED
        BY <1>3, <3>2, <3>3
    <2>2. CASE Me.status # "claimed"
      <3>1. at \in {"rollover", "challenge"}
        BY <1>1, <2>2 DEF Base, LaneKept
      <3>2. UNCHANGED jobs
        BY <1>3, <2>2 DEF Interrupted, RoundFails, StoreAway, LeaveJob
      <3>. QED
        BY <1>1, <3>1, <3>2
    <2>. QED
      BY <2>1, <2>2
  <1>4. CASE SyncRefused /\ Me.kind # "archive"
    <2>1. /\ jobs' = [jobs EXCEPT ![current] = Parked(Me)] /\ current' = 0
          /\ UNCHANGED <<history, rows, pg, lex, vec, marks>>
      BY <1>1, <1>4 DEF SyncRefused, stores
    <2>2. jobs'[current] = Parked(Me)
      BY <1>1, <2>1, JobPut
    <2>. QED
      BY <1>4, <2>1, <2>2
  <1>5. CASE UNCHANGED jobs /\ (current' = 0 => at \in {"rollover", "challenge"})
    BY <1>1, <1>5
  <1>6. ASSUME NEW row, jobs' = Append(jobs, row), current' = 0 => at \in {"rollover", "challenge"}
        PROVE  /\ jobs'[current].tries = Me.tries /\ jobs'[current].cut = Me.cut
               /\ current' = 0 => Ending \/ at \in {"rollover", "challenge"}
    BY <1>1, <1>6, JobJoins
  <1>7. ASSUME NEW j \in DOMAIN jobs, WaitElapses(j)
        PROVE  /\ jobs'[current].tries = Me.tries /\ jobs'[current].cut = Me.cut
               /\ current' = 0 => Ending \/ at \in {"rollover", "challenge"}
    <2>1. jobs' = [jobs EXCEPT ![j].status = "queued"] /\ current' = current
      BY <1>7 DEF WaitElapses
    <2>2. jobs \in Seq(JobRows) /\ jobs[current] \in JobRows
      BY <1>1 DEF Base, Types
    <2>. QED
      BY <1>1, <2>1, <2>2 DEF JobRows
  <1>8. CASE Owner
    <2>1. CASE UNCHANGED jobs
      BY <1>5, <1>8, <2>1 DEF Owner, RequestCompile, PlanArchive, ConfirmReads, ConfirmStale, ConfirmWrites, Drop, lane
    <2>2. CASE ~UNCHANGED jobs
      <3>1. current' = current /\ \E row : jobs' = Append(jobs, row)
        BY <1>8, <2>2 DEF Owner, RequestCompile, PlanArchive, ConfirmReads, ConfirmStale, ConfirmWrites, Drop, lane
      <3>. QED
        BY <1>6, <3>1
    <2>. QED
      BY <2>1, <2>2
  <1>9. CASE MaybeTriggerRollover \/ MaybeTriggerChallenge \/ ChallengeCompensates
    <2>1. (current' = 0 => at = "challenge") /\ (UNCHANGED jobs \/ \E row : jobs' = Append(jobs, row))
      BY <1>9 DEF MaybeTriggerRollover, MaybeTriggerChallenge, ChallengeCompensates, Running
    <2>. QED
      BY <1>5, <1>6, <2>1
  <1>10. CASE Body
    <2>1. CASE UNCHANGED <<jobs, current>>
      BY <1>5, <2>1
    <2>2. \/ UNCHANGED <<jobs, current>> \/ Ending \/ (SyncRefused /\ Me.kind # "archive")
          \/ MaybeTriggerRollover \/ MaybeTriggerChallenge \/ ChallengeCompensates
      BY <1>10 DEF Body, Ending, SyncPlan, WriteLexical, WriteVectors, AdvanceManifest, CompileNoop, RecordEvents,
         MarkDigested, ArchiveResumes, ArchiveStates, ArchiveProceeds, SetSourceArchived, MarksSet, RecordTerminal,
         LeaveStores, Goto, CompileCommits, GroomCommits, MoveDocuments
    <2>. QED
      BY <1>2, <1>4, <1>9, <2>1, <2>2
  <1>11. CASE UNCHANGED <<jobs, current>>
    BY <1>5, <1>11
  <1>. QED
    BY <1>2, <1>3, <1>7, <1>8, <1>10, <1>11 DEF Next, Ending, ClaimNext, vars, lane, WriteMeta, HandCommits

LEMMA LeftRows ==
  ASSUME Base, current # 0
  PROVE  /\ Requeued(Me).tries = Me.tries /\ Requeued(Me).cut = Cut(Me, EarlierOpen) /\ Requeued(Me).status = "queued"
         /\ Parked(Me).tries = Me.tries + 1 /\ Parked(Me).cut = Cut(Me, TRUE)
         /\ Parked(Me).status \in {"waiting", "paused"}
  <1>1. Me \in JobRows
    BY MeType
  <1>. QED
    BY <1>1 DEF Requeued, Parked, JobRows

\* A row once cut stays cut, and it is cut where its body writes the indexes.
LEMMA CutSteps ==
  ASSUME Base, [Next]_vars, QueueOnward, NEW j \in 1..Len(jobs)
  PROVE  /\ jobs[j].cut # "no" => jobs'[j].cut # "no"
         /\ jobs'[j].cut # "no" /\ jobs[j].cut = "no" => j = current /\ at = "index" /\ current' = 0
         /\ jobs'[j].tries # jobs[j].tries =>
              j = current /\ current' = 0 /\ (RoundFails \/ StoreAway \/ (SyncRefused /\ Me.kind # "archive"))
  <1>1. CASE j # current
    BY <1>1 DEF QueueOnward
  <1>2. CASE j = current
    <2>1. current # 0 /\ Me = jobs[j] /\ Me \in JobRows
      BY <1>2, MeType DEF Me
    <2>2. Me.cut \in {"no", "midway", "behind"}
      BY <2>1 DEF JobRows
    <2>3. \/ jobs'[j].tries = Me.tries /\ jobs'[j].cut = Me.cut
          \/ current' = 0 /\ jobs'[j].tries = Me.tries /\ jobs'[j].cut = Cut(Me, EarlierOpen)
          \/ /\ current' = 0 /\ jobs'[j].cut = Cut(Me, TRUE)
             /\ RoundFails \/ StoreAway \/ (SyncRefused /\ Me.kind # "archive")
      BY <1>2, <2>1, Leaving, LeftRows
    <2>. QED
      BY <1>2, <2>1, <2>2, <2>3 DEF Cut
  <1>. QED
    BY <1>1, <1>2

\* A row behind which others run has left no delta half written since it last waited, one that has
\* is the first of those still to end, and an archive is cut short only past its move.
Tried ==
    \A j \in 1..Len(jobs) :
        /\ j < current /\ Opened(j) => jobs[j].cut # "midway"
        /\ Arch(j) /\ jobs[j].cut # "no" => ~Unmoved(jobs[j].arg)
        /\ Opened(j) /\ jobs[j].cut = "midway" => \A i \in 1..(j - 1) : ~Opened(i)
        /\ jobs[j].kind = "challenge" => jobs[j].cut = "no"

LEMMA TriedStep ==
  ASSUME QueueInv, Base', Follows, RowsOnward, QueueOnward, [Next]_vars, Footing, Standing, Tried
  PROVE  Tried'
  <1>0. Base /\ Waited /\ Asked /\ jobs \in Seq(JobRows) /\ Len(jobs) \in Nat
    BY DEF QueueInv, DecisionInv, Base, Types
  <1>. SUFFICES ASSUME NEW j \in 1..Len(jobs')
                PROVE  /\ j < current' /\ jobs'[j].status \in Open => jobs'[j].cut # "midway"
                       /\ jobs'[j].kind = "archive" /\ jobs'[j].cut # "no" => ~(Unmoved(jobs[j].arg)')
                       /\ jobs'[j].status \in Open /\ jobs'[j].cut = "midway" =>
                             \A i \in 1..(j - 1) : jobs'[i].status \notin Open
                       /\ jobs'[j].kind = "challenge" => jobs'[j].cut = "no"
    BY DEF Tried, Opened, Arch
  <1>1. CASE j \notin 1..Len(jobs)
    <2>1. /\ j = Len(jobs) + 1 /\ jobs'[j].tries = 0 /\ jobs'[j].cut = "no"
      BY <1>0, <1>1, Joined
    <2>. QED
      BY <2>1
  <1>2. CASE j \in 1..Len(jobs)
    <2>1. /\ jobs'[j].kind = jobs[j].kind /\ jobs'[j].arg = jobs[j].arg
          /\ jobs[j] \in JobRows
      BY <1>0, <1>2 DEF Follows, JobsFollow
    <2>2. ASSUME j < current', jobs'[j].status \in Open PROVE jobs'[j].cut # "midway"
      <3>1. CASE current' = current
        <4>1. j # current /\ jobs'[j].cut = jobs[j].cut /\ jobs[j].status \in Open
          BY <1>2, <2>2, <3>1 DEF QueueOnward, Onward, Base, Types
        <4>. QED
          BY <1>2, <2>2, <3>1, <4>1 DEF Tried, Opened
      <3>2. CASE ClaimNext
        <4>1. PICK i \in DOMAIN jobs : /\ jobs[i].status = "queued" /\ \A h \in 1..(i - 1) : jobs[h].status # "queued"
                                       /\ jobs' = [jobs EXCEPT ![i].status = "claimed"] /\ current' = i /\ current = 0
          BY <3>2 DEF ClaimNext
        <4>2. i \in 1..Len(jobs) /\ j \in 1..(i - 1) /\ jobs'[j] = jobs[j]
          BY <1>0, <1>2, <2>2, <4>1
        <4>3. jobs[j].status \in {"waiting", "paused"}
          BY <1>0, <1>2, <2>2, <4>1, <4>2 DEF Open, Base, LaneKept
        <4>. QED
          BY <1>0, <1>2, <4>2, <4>3 DEF Waited
      <3>3. current' # 0
        BY <1>2, <2>2 DEF Base, Types
      <3>. QED
        BY <3>1, <3>2, <3>3 DEF QueueOnward
    <2>m. PICK r : r = jobs[j].arg
      OBVIOUS
    <2>3. ~Unmoved(r) => ~(Unmoved(r)')
      BY <1>0, MovedStays
    <2>5. ASSUME jobs'[j].kind = "archive", jobs'[j].cut # "no" PROVE ~(Unmoved(r)')
      <3>1. CASE jobs[j].cut # "no"
        BY <1>2, <2>1, <2>3, <2>5, <2>m, <3>1 DEF Tried, Arch
      <3>2. CASE jobs[j].cut = "no"
        <4>1. j = current /\ at = "index" /\ current # 0
          BY <1>0, <1>2, <2>5, <3>2, CutSteps
        <4>2. Me.kind = "archive" /\ Me.arg = r /\ work.ref # 0
          BY <2>1, <2>5, <2>m, <4>1 DEF Me, Footing
        <4>. QED
          BY <2>3, <4>1, <4>2 DEF Standing
      <3>. QED
        BY <3>1, <3>2
    <2>6. ASSUME jobs'[j].status \in Open, jobs'[j].cut = "midway", NEW i \in 1..(j - 1), jobs'[i].status \in Open
          PROVE  FALSE
      <3>1. /\ i \in 1..Len(jobs) /\ jobs[i].status \in Open /\ jobs[j].status \in Open
        BY <1>0, <1>2, <2>6 DEF QueueOnward, Onward
      <3>2. CASE jobs[j].cut = "midway"
        BY <1>2, <2>6, <3>1, <3>2 DEF Tried, Opened
      <3>3. CASE jobs[j].cut # "midway"
        <4>1. j = current /\ current # 0 /\ Me = jobs[j]
          BY <1>2, <2>6, <3>3 DEF QueueOnward, Me
        <4>2. \/ jobs'[j] = Requeued(Me) /\ Requeued(Me).cut = Cut(Me, EarlierOpen)
              \/ jobs'[j] = Parked(Me) /\ Parked(Me).cut = Cut(Me, TRUE)
          BY <1>0, <2>6, <3>3, <4>1, Leaving, LeftRows
        <4>3. Cut(Me, TRUE) # "midway" /\ (Cut(Me, EarlierOpen) = "midway" => ~EarlierOpen)
          BY <3>3, <4>1 DEF Cut
        <4>. QED
          BY <2>6, <3>1, <4>1, <4>2, <4>3 DEF EarlierOpen
      <3>. QED
        BY <3>2, <3>3
    <2>7. ASSUME jobs'[j].kind = "challenge" PROVE jobs'[j].cut = "no"
      <3>1. jobs[j].cut = "no"
        BY <1>2, <2>1, <2>7 DEF Tried
      <3>2. ~(j = current /\ at = "index" /\ current # 0)
        BY <2>1, <2>7 DEF Footing, InPhase, Me
      <3>3. j # 0
        BY <1>2
      <3>. QED
        BY <1>0, <1>2, <3>1, <3>2, <3>3, CutSteps
    <2>. QED
      BY <2>1, <2>2, <2>5, <2>6, <2>7, <2>m
  <1>. QED
    BY <1>1, <1>2
-----------------------------------------------------------------------------
(* The archive's plans and marks. *)

\* The archive's rows are in the order of their plans, select sources of their page, and say
\* executed of a move only when it was made.
Planned ==
    /\ \A q, r \in 1..Len(rows) : q <= r => rows[q].ref <= rows[r].ref
    /\ \A r \in 1..Len(rows) : /\ \A s \in rows[r].sources : About[s] = rows[r].page
                               /\ rows[r].status = "executed" /\ rows[r].moves => ~Unmoved(r)

LEMMA PlanSteps ==
  ASSUME Base, [Next]_vars
  PROVE  /\ \A r \in 1..Len(rows) : rows'[r].sources \subseteq rows[r].sources
         /\ \A r \in 1..Len(rows') : r > Len(rows) =>
               rows'[r].ref = Len(history) /\ \A s \in rows'[r].sources : About[s] = rows'[r].page
  <1>0. rows \in Seq(Proposals) /\ Len(rows) \in Nat /\ \A r \in 1..Len(rows) : rows[r] \in Proposals
    <2>1. rows \in Seq(Proposals)
      BY DEF Base, Types
    <2>. QED
      BY <2>1
  <1>1. CASE UNCHANGED rows
    BY <1>0, <1>1
  <1>2. ASSUME NEW p \in Pages, PlanArchive(p)
        PROVE  /\ \A r \in 1..Len(rows) : rows'[r].sources \subseteq rows[r].sources
               /\ \A r \in 1..Len(rows') : r > Len(rows) =>
                     rows'[r].ref = Len(history) /\ \A s \in rows'[r].sources : About[s] = rows'[r].page
    <2>. DEFINE new == [page |-> p, action |-> IF p \in Tree.archived THEN "unarchive" ELSE "archive",
                        sources |-> Filed(Tree, p), moves |-> TRUE, ref |-> HEAD,
                        status |-> "proposed", statement |-> FALSE, broken |-> FALSE]
    <2>1. rows' = Append(rows, new) /\ new.ref = Len(history) /\ \A s \in new.sources : About[s] = new.page
      BY <1>2 DEF PlanArchive, HEAD, Filed
    <2>. HIDE DEF new
    <2>2. Len(rows') = Len(rows) + 1 /\ rows'[Len(rows) + 1] = new
          /\ \A r \in 1..Len(rows) : rows'[r] = rows[r]
      BY <1>0, <2>1, AppendProperties
    <2>. QED
      BY <1>0, <2>1, <2>2
  <1>3. ASSUME NEW r \in 1..Len(rows), NEW new, rows' = [rows EXCEPT ![r] = new], new.sources \subseteq rows[r].sources
        PROVE  /\ \A q \in 1..Len(rows) : rows'[q].sources \subseteq rows[q].sources
               /\ \A q \in 1..Len(rows') : q > Len(rows) =>
                     rows'[q].ref = Len(history) /\ \A s \in rows'[q].sources : About[s] = rows'[q].page
    <2>1. Len(rows') = Len(rows) /\ rows'[r] = new /\ \A i \in 1..Len(rows) : i # r => rows'[i] = rows[i]
      BY <1>0, <1>3
    <2>. QED
      BY <1>0, <1>3, <2>1
  <1>4. ASSUME NEW r \in DOMAIN rows, ConfirmStale(r) \/ Drop(r) \/ ConfirmWrites(r)
        PROVE  UNCHANGED rows \/ \E new : rows' = [rows EXCEPT ![r] = new] /\ new.sources \subseteq rows[r].sources
    <2>0. r \in 1..Len(rows) /\ rows[r] \in Proposals
      BY <1>0
    <2>1. CASE ConfirmStale(r) \/ Drop(r)
      <3>1. PICK st : rows' = [rows EXCEPT ![r] = [rows[r] EXCEPT !.status = st]]
        BY <2>1 DEF ConfirmStale, Drop
      <3>2. [rows[r] EXCEPT !.status = st].sources = rows[r].sources
        BY <2>0 DEF Proposals
      <3>. QED
        BY <3>1, <3>2
    <2>2. CASE ConfirmWrites(r) /\ ~UNCHANGED rows
      <3>0. PICK mv \in BOOLEAN, kept \in {{}, rows[r].sources} :
              rows' = [rows EXCEPT ![r].status = "confirmed", ![r].moves = mv, ![r].sources = kept]
        BY <2>2 DEF ConfirmWrites
      <3>1. rows' = [rows EXCEPT ![r] = [rows[r] EXCEPT !.status = "confirmed", !.moves = mv, !.sources = kept]]
        BY <1>0, <2>0, <3>0
      <3>2. [rows[r] EXCEPT !.status = "confirmed", !.moves = mv, !.sources = kept].sources = kept
        BY <2>0 DEF Proposals
      <3>. QED
        BY <3>0, <3>1, <3>2
    <2>. QED
      BY <1>4, <2>1, <2>2
  <1>5. CASE ArchiveStates \/ RecordTerminal \/ ArchiveStale \/ ArchiveFails \/ (SyncRefused /\ Me.kind = "archive")
    <2>1. PICK r \in 1..Len(rows) : r = Me.arg
      BY <1>5, RowType DEF ArchiveStates, RecordTerminal, ArchiveStale, ArchiveFails, SyncRefused, Running
    <2>2. UNCHANGED rows \/ \E new : rows' = [rows EXCEPT ![r] = new] /\ new.sources = rows[r].sources
      <3>0. rows[r] \in Proposals
        BY <1>0
      <3>1. CASE ArchiveStates
        <4>1. rows' = [rows EXCEPT ![r] = [rows[r] EXCEPT !.statement = TRUE]]
          BY <2>1, <3>1 DEF ArchiveStates
        <4>2. [rows[r] EXCEPT !.statement = TRUE].sources = rows[r].sources
          BY <3>0 DEF Proposals
        <4>. QED
          BY <4>1, <4>2
      <3>2. CASE RecordTerminal \/ ArchiveStale
        <4>1. UNCHANGED rows \/ \E st : rows' = [rows EXCEPT ![r] = [rows[r] EXCEPT !.status = st]]
          BY <2>1, <3>2 DEF RecordTerminal, ArchiveStale
        <4>2. \A st : [rows[r] EXCEPT !.status = st].sources = rows[r].sources
          BY <3>0 DEF Proposals
        <4>. QED
          BY <4>1, <4>2
      <3>3. CASE SyncRefused /\ Me.kind = "archive"
        <4>1. rows' = [rows EXCEPT ![r] = [rows[r] EXCEPT !.status = "failed", !.broken = TRUE]]
          BY <1>0, <2>1, <3>3 DEF SyncRefused
        <4>2. [rows[r] EXCEPT !.status = "failed", !.broken = TRUE].sources = rows[r].sources
          BY <3>0 DEF Proposals
        <4>. QED
          BY <4>1, <4>2
      <3>4. CASE ArchiveFails
        <4>1. \E b : rows' = [rows EXCEPT ![r] = [rows[r] EXCEPT !.status = "failed", !.broken = b]]
          BY <1>0, <2>1, <3>4 DEF ArchiveFails
        <4>2. \A b : [rows[r] EXCEPT !.status = "failed", !.broken = b].sources = rows[r].sources
          BY <3>0 DEF Proposals
        <4>. QED
          BY <4>1, <4>2
      <3>. QED
        BY <1>5, <3>1, <3>2, <3>3, <3>4
    <2>. QED
      BY <1>1, <1>3, <2>2
  <1>6. CASE SyncRefused /\ Me.kind # "archive"
    BY <1>1, <1>6 DEF SyncRefused
  <1>7. ASSUME NEW r \in DOMAIN rows, ConfirmStale(r) \/ Drop(r) \/ ConfirmWrites(r)
        PROVE  /\ \A q \in 1..Len(rows) : rows'[q].sources \subseteq rows[q].sources
               /\ \A q \in 1..Len(rows') : q > Len(rows) =>
                     rows'[q].ref = Len(history) /\ \A s \in rows'[q].sources : About[s] = rows'[q].page
    <2>1. r \in 1..Len(rows)
      BY <1>0
    <2>. QED
      BY <1>1, <1>3, <1>4, <1>7, <2>1
  <1>. QED
    BY <1>1, <1>2, <1>5, <1>6, <1>7 DEF Next, Owner, Body, vars, RequestCompile, ConfirmReads,
     ClaimNext, WaitElapses, Interrupted, RoundFails, StoreAway, LeaveJob,
     SyncPlan, WriteLexical, WriteVectors, AdvanceManifest, CompileNoop, RecordEvents,
     MarkDigested, CompileCompletes, MaybeTriggerRollover, MaybeTriggerChallenge,
     ChallengeCompensates, ChallengeCompletes, GroomDeclines, GroomFails, GroomCompletes,
     ArchiveNotConfirmed, ArchiveResumes, ArchiveProceeds,
     SetSourceArchived, MarksSet, ArchiveCompletes, LeaveStores,
     CompileCommits, GroomCommits, MoveDocuments, WriteMeta, HandCommits

LEMMA PlannedStep ==
  ASSUME Base, Base', Follows, RowsOnward, [Next]_vars, Standing, Planned
  PROVE  Planned'
  <1>0. /\ Len(rows) \in Nat /\ Len(rows') \in Nat /\ Len(rows') >= Len(rows) /\ Len(history) \in Nat
        /\ \A r \in 1..Len(rows) : /\ rows'[r].ref = rows[r].ref /\ rows'[r].page = rows[r].page
                                   /\ rows[r].ref \in 1..Len(history)
    BY DEF Base, Types, LaneKept, Follows, RowsFollow
  <1>1. ASSUME NEW q \in 1..Len(rows'), NEW r \in 1..Len(rows'), q <= r PROVE rows'[q].ref <= rows'[r].ref
    <2>1. CASE r \in 1..Len(rows)
      BY <1>0, <1>1, <2>1 DEF Planned
    <2>2. CASE r \notin 1..Len(rows)
      <3>1. rows'[r].ref = Len(history)
        BY <1>0, <2>2, PlanSteps
      <3>2. rows'[q].ref <= Len(history)
        <4>1. CASE q \in 1..Len(rows)
          BY <1>0, <4>1
        <4>2. CASE q \notin 1..Len(rows)
          BY <1>0, <4>2, PlanSteps
        <4>. QED
          BY <4>1, <4>2
      <3>. QED
        BY <3>1, <3>2
    <2>. QED
      BY <2>1, <2>2
  <1>2. ASSUME NEW r \in 1..Len(rows'), NEW s \in rows'[r].sources PROVE About[s] = rows'[r].page
    BY <1>0, PlanSteps DEF Planned
  <1>3. ASSUME NEW r \in 1..Len(rows'), rows'[r].status = "executed", rows'[r].moves PROVE ~(Unmoved(r)')
    <2>1. r \in 1..Len(rows) /\ rows[r].status \notin Undecided
      BY <1>0, <1>3 DEF RowsOnward, Undecided
    <2>2. rows'[r].moves = rows[r].moves
      BY <2>1 DEF RowsOnward
    <2>3. CASE rows[r].status = "executed"
      BY <1>3, <2>1, <2>2, <2>3, MovedStays DEF Planned
    <2>4. CASE rows[r].status # "executed"
      <3>1. Running("archive", at) /\ r = Me.arg /\ RecordTerminal
        BY <1>3, <2>1, <2>4 DEF RowsOnward
      <3>2. ~Unmoved(r)
        BY <1>3, <2>2, <3>1 DEF Standing, RecordTerminal, Running, Row
      <3>. QED
        BY <2>1, <3>2, MovedStays
    <2>. QED
      BY <2>3, <2>4
  <1>. QED
    BY <1>1, <1>2, <1>3 DEF Planned

\* What the current decision has marked so far.
Marked(r, left) ==
    IF rows[r].action = "archive" THEN rows[r].sources \ left \subseteq marks
    ELSE (rows[r].sources \ left) \cap marks = {}

Marking ==
    current # 0 /\ Me.kind = "archive" /\ at \in {"marks", "sync", "index", "terminal"} =>
        /\ at # "marks" => work.left = {}
        /\ Marked(Me.arg, work.left) /\ work.left \subseteq Row.sources

LEMMA MarkingStep ==
  ASSUME Base, Base', Follows, RowsOnward, [Next]_vars, Standing, Marking
  PROVE  Marking'
  <1>. SUFFICES ASSUME current' # 0, Me'.kind = "archive", at' \in {"marks", "sync", "index", "terminal"}
                PROVE  /\ at' # "marks" => work'.left = {}
                       /\ IF rows'[Me'.arg].action = "archive"
                          THEN rows'[Me'.arg].sources \ work'.left \subseteq marks'
                          ELSE (rows'[Me'.arg].sources \ work'.left) \cap marks' = {}
                       /\ work'.left \subseteq rows'[Me'.arg].sources
    BY DEF Marking, Marked, Row
  <1>0. Fields \subseteq DOMAIN work
    BY DEF Base, Types
  <1>1. CASE ClaimNext /\ at' = "run" /\ work' = Blank
    BY <1>1
  <1>2. ASSUME current' = current, current # 0, Me.kind = "archive"
        PROVE  \E r \in 1..Len(rows) : Me'.arg = r /\ Me.arg = r /\ Row = rows[r] /\ rows'[r].action = rows[r].action
    <2>1. Me'.arg = Me.arg /\ Me.arg \in 1..Len(rows) /\ Row = rows[Me.arg]
      BY <1>2, MeStays, RowType DEF Row
    <2>. QED
      BY <2>1 DEF Follows, RowsFollow
  <1>3. CASE UNCHANGED <<current, at, work>>
    <2>1. current # 0 /\ Me.kind = "archive" /\ current' = current
      BY <1>3, MeStays
    <2>r. PICK r \in 1..Len(rows) : Me'.arg = r /\ Me.arg = r /\ Row = rows[r] /\ rows'[r].action = rows[r].action
      BY <1>2, <2>1
    <2>2. rows[r].status = "confirmed" /\ Marked(r, work.left) /\ work.left \subseteq rows[r].sources
          /\ (at # "marks" => work.left = {})
      BY <1>3, <2>1, <2>r DEF Standing, Marking
    <2>3. rows'[r].sources = rows[r].sources
      BY <2>2 DEF RowsOnward, Undecided
    <2>4. UNCHANGED marks
      BY <1>0, <1>3 DEF Next, Owner, vars, lane, RequestCompile, PlanArchive, ConfirmReads, ConfirmStale, ConfirmWrites,
         Drop, ClaimNext, WaitElapses, Interrupted, RoundFails, StoreAway, ArchiveFails, LeaveJob, WriteMeta, HandCommits,
         Body, SyncPlan, SyncRefused, WriteLexical, WriteVectors, AdvanceManifest, CompileCommits, CompileNoop,
         RecordEvents, MarkDigested, CompileCompletes, MaybeTriggerRollover, MaybeTriggerChallenge,
         ChallengeCompensates, ChallengeCompletes, GroomCommits, GroomDeclines, GroomFails, GroomCompletes,
         ArchiveNotConfirmed, ArchiveStale, ArchiveResumes, ArchiveStates, ArchiveProceeds, MoveDocuments,
         SetSourceArchived, MarksSet, RecordTerminal, ArchiveCompletes, LeaveStores, End, Fields
    <2>. QED
      BY <1>3, <2>r, <2>2, <2>3, <2>4 DEF Marked
  <1>5. ASSUME current' = current, current # 0, Me.kind = "archive",
               \/ ArchiveStates \/ ArchiveProceeds \/ ArchiveResumes \/ MoveDocuments
               \/ SetSourceArchived \/ MarksSet \/ SyncPlan \/ WriteLexical \/ WriteVectors
               \/ AdvanceManifest \/ RecordTerminal
        PROVE  /\ at' # "marks" => work'.left = {}
               /\ IF rows'[Me'.arg].action = "archive"
                  THEN rows'[Me'.arg].sources \ work'.left \subseteq marks'
                  ELSE (rows'[Me'.arg].sources \ work'.left) \cap marks' = {}
               /\ work'.left \subseteq rows'[Me'.arg].sources
    <2>r. PICK r \in 1..Len(rows) : Me'.arg = r /\ Me.arg = r /\ Row = rows[r] /\ rows'[r].action = rows[r].action
      BY <1>2, <1>5
    <2>1. CASE ArchiveStates \/ RecordTerminal
      BY <2>1 DEF ArchiveStates, RecordTerminal, Goto
    <2>2. CASE ArchiveProceeds \/ ArchiveResumes \/ MoveDocuments
      <3>1. UNCHANGED rows /\ at' = "marks" /\ work'.left = rows[r].sources
        BY <1>5, <2>r, <2>2 DEF ArchiveProceeds, ArchiveResumes, MoveDocuments, LeaveStores, Blank
      <3>. QED
        BY <2>r, <3>1
    <2>3. CASE SetSourceArchived
      <3>1. PICK s \in work.left : /\ marks' = (IF rows[r].action = "archive" THEN marks \cup {s} ELSE marks \ {s})
                                   /\ work'.left = work.left \ {s}
        BY <1>0, <2>r, <2>3 DEF SetSourceArchived, Fields
      <3>2. UNCHANGED rows /\ at = "marks" /\ at' = "marks"
        BY <2>3 DEF SetSourceArchived, Running
      <3>3. Marked(r, work.left) /\ work.left \subseteq rows[r].sources
        BY <1>5, <2>r, <3>2 DEF Marking
      <3>. QED
        BY <2>r, <3>1, <3>2, <3>3 DEF Marked
    <2>4. CASE MarksSet \/ SyncPlan \/ WriteLexical \/ WriteVectors \/ AdvanceManifest
      <3>1. /\ UNCHANGED <<rows, marks>> /\ work'.left = work.left /\ at \in {"marks", "sync", "index"}
            /\ at = "marks" => work.left = {}
        BY <1>0, <2>4 DEF MarksSet, SyncPlan, WriteLexical, WriteVectors, AdvanceManifest, LeaveStores, Goto,
           Running, Fields
      <3>2. Marked(r, work.left) /\ work.left \subseteq rows[r].sources /\ work.left = {}
        BY <1>5, <2>r, <3>1 DEF Marking
      <3>. QED
        BY <2>r, <3>1, <3>2 DEF Marked
    <2>. QED
      BY <1>5, <2>1, <2>2, <2>3, <2>4
  <1>. QED
    BY <1>1, <1>3, <1>5, ArchiveSteps
-----------------------------------------------------------------------------
(* What is owed to the indexes and to the manifest. *)

Steady == Calm /\ GroomsFinished

BodyInv == SearchInv /\ Footing /\ Standing /\ Signed /\ Tried

\* What a step from there has in hand.
Stepped == Base' /\ Follows /\ QueueOnward /\ RowsOnward /\ Footing' /\ Steady'

LEMMA BodyParts ==
  ASSUME BodyInv
  PROVE  /\ Base /\ SearchInv /\ QueueInv /\ PublishedInv /\ DecisionInv /\ HoldsNow /\ IsProjected /\ Delta
         /\ Waited /\ Once /\ Asked /\ Awaited /\ Fresh /\ InOrder /\ Knows /\ Decided
         /\ Footing /\ Standing /\ Signed /\ Tried
         /\ Serves(lex, work.lex) /\ Serves(vec, work.vec) /\ Sides
  BY DEF BodyInv, SearchInv, QueueInv, PublishedInv

LEMMA SteadyWas ==
  ASSUME BodyInv, [Next]_vars, Steady'
  PROVE  Stepped /\ Steady /\ Calm /\ Calm' /\ OwnCommits /\ OwnCommits' /\ NoneBroken' /\ NoneOvertaken
  <1>1. Base /\ Follows /\ Base' /\ QueueOnward /\ RowsOnward /\ Footing'
    BY BodyParts, StepBase, QueueSteps, RowSteps, FootingStep
  <1>2. Calm /\ GroomsFinished
    BY <1>1, BodyParts, CalmWas, GroomsWereFinished DEF Steady
  <1>. QED
    BY <1>1, <1>2 DEF Stepped, Steady, Calm

\* While every groom is answered for, one that has committed leaves the lane only by its end.
LEMMA GroomStays ==
  ASSUME BodyInv, [Next]_vars, Stepped, current # 0, Me.kind = "groom", at # "run", current' = 0
  PROVE  GroomCompletes
  <1>1. Base /\ Signed /\ work.ref # 0 /\ GroomsFinished'
    BY BodyParts DEF Footing, Stepped, Steady
  <1>2. /\ work.ref \in 1..Len(history) /\ history[work.ref].by = "groom"
        /\ \A j \in 1..Len(jobs) : jobs[j].ref # work.ref
    BY <1>1 DEF Signed
  <1>i. PICK i \in 1..Len(history) : i = work.ref
    BY <1>2
  <1>3. i \in DOMAIN history' /\ history'[i].by = "groom" /\ i # 0 /\ DOMAIN jobs' = 1..Len(jobs')
        /\ Len(jobs) \in Nat /\ Len(jobs') \in Nat
    BY <1>1, <1>2, <1>i DEF Stepped, Follows, HistoryGrows, JobsFollow, Base, Types
  <1>4. PICK j \in 1..Len(jobs') : jobs'[j].ref = i
    BY <1>1, <1>3 DEF GroomsFinished
  <1>5. j \in 1..Len(jobs) /\ Naming(j, i)
    BY <1>1, <1>2, <1>i, <1>3, <1>4, RefSteps
  <1>6. ~CompileCompletes /\ ~ArchiveCompletes
    BY DEF CompileCompletes, ArchiveCompletes, Running
  <1>. QED
    BY <1>5, <1>6 DEF Naming

\* A groom that has not committed has no delta half written.
FreshGrooms ==
    Steady => \A j \in 1..Len(jobs) :
        jobs[j].kind = "groom" /\ Opened(j) /\ (j = current => at = "run") => jobs[j].cut = "no"

LEMMA NotRunAgain ==
  ASSUME Body PROVE at' # "run"
  BY DEF Body, SyncPlan, SyncRefused, WriteLexical, WriteVectors, AdvanceManifest, CompileCommits, CompileNoop,
     RecordEvents, MarkDigested, CompileCompletes, MaybeTriggerRollover, MaybeTriggerChallenge,
     ChallengeCompensates, ChallengeCompletes, GroomCommits, GroomDeclines, GroomFails, GroomCompletes,
     ArchiveNotConfirmed, ArchiveStale, ArchiveResumes, ArchiveStates, ArchiveProceeds, MoveDocuments,
     SetSourceArchived, MarksSet, RecordTerminal, ArchiveCompletes, End, Goto, Running

LEMMA FreshGroomsStep ==
  ASSUME BodyInv, [Next]_vars, FreshGrooms
  PROVE  FreshGrooms'
  <1>. SUFFICES ASSUME Steady', NEW j \in 1..Len(jobs'), jobs'[j].kind = "groom", jobs'[j].status \in Open,
                       j = current' => at' = "run"
                PROVE  jobs'[j].cut = "no"
    BY DEF FreshGrooms, Opened
  <1>1. Stepped /\ Steady /\ Base /\ Follows /\ QueueOnward
    BY SteadyWas, BodyParts DEF Stepped
  <1>2. CASE j \notin 1..Len(jobs)
    BY <1>1, <1>2, Joined
  <1>3. CASE j \in 1..Len(jobs)
    <2>1. jobs[j].kind = "groom" /\ Opened(j)
      BY <1>1, <1>3 DEF Follows, JobsFollow, QueueOnward, Onward, Opened
    <2>2. CASE j # current
      <3>1. jobs[j].cut = "no"
        BY <1>1, <1>3, <2>1, <2>2 DEF FreshGrooms
      <3>. QED
        BY <1>1, <1>3, <2>2, <3>1 DEF QueueOnward
    <2>3. CASE j = current /\ at = "run"
      <3>1. jobs[j].cut = "no"
        BY <1>1, <1>3, <2>1, <2>3 DEF FreshGrooms
      <3>. QED
        BY <1>1, <1>3, <2>3, <3>1, CutSteps
    <2>4. CASE j = current /\ at # "run"
      <3>1. current # 0 /\ Me.kind = "groom"
        BY <1>3, <2>1, <2>4 DEF Me
      <3>2. CASE current' = 0
        <4>1. GroomCompletes
          BY <1>1, <2>4, <3>1, <3>2, GroomStays
        <4>2. jobs' = [jobs EXCEPT ![current] = [jobs[current] EXCEPT !.status = "done", !.ref = work.ref]]
          BY <4>1 DEF GroomCompletes, End, Ended
        <4>3. jobs'[j].status = "done"
          <5>1. jobs \in Seq(JobRows) /\ jobs[j] \in JobRows
            BY <1>1, <1>3 DEF Base, Types
          <5>. QED
            BY <1>3, <2>4, <4>2, <5>1 DEF JobRows
        <4>. QED
          BY <4>3 DEF Open
      <3>3. CASE current' # 0
        <4>1. current' = current
          BY <1>1, <3>1, <3>3 DEF QueueOnward, ClaimNext
        <4>2. at' = "run"
          BY <2>4, <4>1
        <4>. QED
          BY <1>1, <2>4, <3>1, <3>3, <4>2, BodySteps, NotRunAgain DEF ClaimNext
      <3>. QED
        BY <3>2, <3>3
    <2>. QED
      BY <2>2, <2>3, <2>4
  <1>. QED
    BY <1>2, <1>3

\* A row whose body was cut short among its index writes, and that will project again.
Owes(j) == Opened(j) /\ jobs[j].cut # "no" /\ (Arch(j) => rows[jobs[j].arg].status = "confirmed")

\* Nothing but a digest commits over a delta half written.
LEMMA NoneOwes ==
  ASSUME BodyInv, FreshGrooms, Steady, GroomCommits \/ MoveDocuments, NEW j \in 1..Len(jobs)
  PROVE  ~Owes(j)
  <1>. SUFFICES ASSUME Owes(j) PROVE FALSE
    OBVIOUS
  <1>1. /\ Base /\ InOrder /\ Tried /\ Standing /\ NoneOvertaken /\ DecisionInv
        /\ DOMAIN jobs = 1..Len(jobs) /\ Len(jobs) \in Nat /\ jobs[j] \in JobRows
    BY BodyParts DEF Steady, Calm, Base, Types
  <1>2. current # 0 /\ current \in 1..Len(jobs) /\ Me = jobs[current] /\ Opened(current)
    BY <1>1, MeType DEF GroomCommits, MoveDocuments, Running, Me, Base, LaneKept, Opened, Open
  <1>3. jobs[current].cut = "no"
    <2>1. CASE GroomCommits
      <3>1. Me.kind = "groom" /\ at = "run"
        BY <2>1 DEF GroomCommits, Running
      <3>. QED
        BY <1>2, <3>1 DEF FreshGrooms
    <2>2. CASE MoveDocuments
      <3>1. Arch(current) /\ Unmoved(jobs[current].arg)
        BY <1>1, <1>2, <2>2 DEF MoveDocuments, Running, Arch, DecisionInv, Moving
      <3>. QED
        BY <1>1, <1>2, <3>1 DEF Tried
    <2>. QED
      BY <2>1, <2>2
  <1>4. Opened(j) /\ jobs[j].cut = "midway"
    <2>1. Opened(j) /\ jobs[j].cut # "no" /\ jobs[j].cut # "behind"
      BY <1>1 DEF Owes, NoneOvertaken
    <2>2. jobs[j].cut \in {"no", "midway", "behind"}
      BY <1>1 DEF JobRows
    <2>. QED
      BY <2>1, <2>2
  <1>5. CASE j < current
    BY <1>1, <1>4, <1>5 DEF Tried
  <1>6. CASE current < j
    <2>1. current \in 1..(j - 1)
      BY <1>1, <1>2, <1>6
    <2>. QED
      BY <1>1, <1>2, <1>4, <2>1 DEF Tried
  <1>7. j # current
    BY <1>3, <1>4
  <1>. QED
    BY <1>1, <1>2, <1>5, <1>6, <1>7

\* A row cut short owes its projection until the manifest is the library's.
LEMMA OwesStep ==
  ASSUME BodyInv, [Next]_vars, Stepped, FreshGrooms, Steady, NEW j \in 1..Len(jobs), Owes(j)
  PROVE  pg = Keys(Tree) \/ (j \in 1..Len(jobs') /\ Owes(j)')
  <1>. SUFFICES ASSUME pg # Keys(Tree) PROVE j \in 1..Len(jobs') /\ Owes(j)'
    OBVIOUS
  <1>0. /\ Base /\ SearchInv /\ QueueInv /\ IsProjected /\ Decided /\ Footing /\ Tried /\ DecisionInv
        /\ Follows /\ QueueOnward /\ RowsOnward /\ Calm' /\ OwnCommits /\ NoneBroken'
    BY BodyParts DEF Stepped, Steady, Calm
  <1>1. /\ Base /\ SearchInv /\ QueueInv /\ IsProjected /\ Decided /\ Footing /\ Tried /\ DecisionInv
        /\ Follows /\ QueueOnward /\ RowsOnward /\ Calm' /\ OwnCommits /\ NoneBroken'
        /\ j \in 1..Len(jobs') /\ jobs'[j].kind = jobs[j].kind /\ jobs'[j].arg = jobs[j].arg
    <2>1. JobsFollow /\ Len(jobs) \in Nat
      BY <1>0 DEF Follows, Base, Types
    <2>2. j \in 1..Len(jobs') /\ jobs'[j].kind = jobs[j].kind /\ jobs'[j].arg = jobs[j].arg
      BY <2>1 DEF JobsFollow
    <2>. QED
      BY <1>0, <2>2
  <1>2. /\ jobs[j].cut # "no" /\ jobs[j].status \in Open /\ jobs'[j].cut # "no"
        /\ Arch(j) => rows[jobs[j].arg].status = "confirmed"
    BY <1>1, CutSteps DEF Owes, Opened
  <1>3. ASSUME Arch(j)
        PROVE  ~Unmoved(jobs[j].arg) /\ rows'[jobs[j].arg].status = "confirmed"
    <2>1. jobs[j].arg \in 1..Len(rows) /\ ~Unmoved(jobs[j].arg)
      BY <1>1, <1>2, <1>3 DEF Tried, Arch, Base, LaneKept
    <2>r. PICK r \in 1..Len(rows) : r = jobs[j].arg
      BY <2>1
    <2>2. Underway(r)
      BY <1>2, <1>3, <2>1, <2>r DEF Underway
    <2>3. Underway(r)'
      BY <1>1, <2>2, UnderwayStays
    <2>. QED
      BY <2>1, <2>r, <2>3 DEF Underway
  <1>4. jobs'[j].status \in Open
    <2>. SUFFICES ASSUME jobs'[j].status \notin Open PROVE FALSE
      OBVIOUS
    <2>1. Ending /\ j = current /\ current # 0 /\ Me = jobs[j]
      BY <1>1, <1>2 DEF QueueOnward, Me, Base, Types
    <2>2. ~CompileCompletes /\ ~GroomCompletes
      BY <1>1, <2>1 DEF CompileCompletes, GroomCompletes, Running, Footing, IsProjected, Projected
    <2>3. ~ChallengeCompletes
      BY <1>1, <1>2, <2>1 DEF ChallengeCompletes, Tried
    <2>4. ~GroomDeclines /\ ~GroomFails
      BY <1>2, <2>1 DEF GroomDeclines, GroomFails, Running, FreshGrooms, Opened
    <2>5. CASE Arch(j)
      <3>1. Me.arg = jobs[j].arg /\ Row = rows[jobs[j].arg] /\ Row.status = "confirmed"
        BY <1>2, <2>1, <2>5 DEF Row
      <3>2. ~ArchiveNotConfirmed /\ ~ArchiveCompletes
        BY <1>1, <3>1 DEF ArchiveNotConfirmed, ArchiveCompletes, Decided
      <3>3. ~ArchiveStale
        BY <1>1, <1>3, <2>5, <3>1, NotLanded DEF ArchiveStale, Running
      <3>4. ~SyncRefused /\ ~ArchiveFails
        <4>. SUFFICES ASSUME SyncRefused \/ ArchiveFails PROVE FALSE
          OBVIOUS
        <4>1. Me.arg \in 1..Len(rows) /\ rows \in Seq(Proposals) /\ rows[Me.arg] \in Proposals
          BY <1>1, <2>1, <2>5, RowType DEF Arch, Row, Base, Types
        <4>2. \E b : rows' = [rows EXCEPT ![Me.arg].status = "failed", ![Me.arg].broken = b]
          BY <2>1, <2>5, <4>1 DEF SyncRefused, ArchiveFails, Arch
        <4>3. rows'[Me.arg].status = "failed"
          BY <4>1, <4>2 DEF Proposals
        <4>. QED
          BY <1>3, <2>5, <3>1, <4>3
      <3>. QED
        BY <2>1, <2>2, <2>3, <2>4, <3>2, <3>3, <3>4 DEF Ending
    <2>6. CASE ~Arch(j)
      BY <2>1, <2>2, <2>3, <2>4, <2>6 DEF Ending, Arch, ArchiveNotConfirmed, ArchiveStale, ArchiveFails,
         ArchiveCompletes, Running
    <2>. QED
      BY <2>5, <2>6
  <1>. QED
    BY <1>1, <1>2, <1>3, <1>4 DEF Owes, Opened, Arch

\* While the manifest is not the library's, somebody is still to bring it there.
Behindhand ==
    Steady => \/ pg = Keys(Tree)
              \/ \E j \in 1..Len(jobs) : jobs[j].kind = "compile" /\ Opened(j)
              \/ current # 0 /\ Me.kind = "groom" /\ work.ref # 0
              \/ \E r \in 1..Len(rows) : Underway(r)

\* A compile that is open ends with the manifest at the library's tree.
LEMMA CompileStays ==
  ASSUME BodyInv, [Next]_vars, Stepped, OwnCommits, NEW j \in 1..Len(jobs), jobs[j].kind = "compile", Opened(j)
  PROVE  pg = Keys(Tree) \/ (j \in 1..Len(jobs') /\ jobs'[j].kind = "compile" /\ jobs'[j].status \in Open)
  <1>0. Base /\ IsProjected /\ Footing /\ QueueOnward /\ Follows
    BY BodyParts DEF Stepped
  <1>1. Base /\ IsProjected /\ Footing /\ QueueOnward /\ j \in 1..Len(jobs') /\ jobs'[j].kind = "compile"
    <2>1. JobsFollow /\ Len(jobs) \in Nat
      BY <1>0 DEF Follows, Base, Types
    <2>2. j \in 1..Len(jobs') /\ jobs'[j].kind = jobs[j].kind
      BY <2>1 DEF JobsFollow
    <2>. QED
      BY <1>0, <2>2
  <1>2. CASE jobs'[j].status \notin Open
    <2>0. Ending /\ j = current
      BY <1>1, <1>2 DEF QueueOnward, Opened
    <2>1. Ending /\ j = current /\ current # 0 /\ Me.kind = "compile"
      BY <2>0 DEF Me
    <2>2. CompileCompletes
      BY <2>1 DEF Ending, ChallengeCompletes, GroomDeclines, GroomFails, GroomCompletes, ArchiveNotConfirmed,
         ArchiveStale, ArchiveFails, ArchiveCompletes, Running
    <2>. QED
      BY <1>1, <2>1, <2>2 DEF CompileCompletes, Running, Footing, IsProjected, Projected
  <1>. QED
    BY <1>1, <1>2

\* The move about to be made.
LEMMA AboutToMove ==
  ASSUME DecisionInv, Standing, MoveDocuments
  PROVE  \E m \in 1..Len(rows) :
            /\ m = Me.arg /\ Row = rows[m] /\ current # 0 /\ Me.kind = "archive" /\ Me.status = "claimed"
            /\ UNCHANGED rows /\ rows[m].status = "confirmed" /\ Unmoved(m) /\ ~(Unmoved(m)')
            /\ \A k \in (rows[m].ref + 1)..Len(history) : history[k].proposal = 0
  <1>1. Base
    BY DEF DecisionInv
  <1>2. /\ Me.arg \in 1..Len(rows) /\ Row = rows[Me.arg] /\ current # 0 /\ Me.kind = "archive" /\ Me.status = "claimed"
        /\ UNCHANGED rows /\ at = "move"
    BY <1>1, RowType DEF MoveDocuments, Running, Base, LaneKept, Me, Row
  <1>m. PICK m \in 1..Len(rows) : m = Me.arg
    BY <1>2
  <1>3. rows[m].status = "confirmed" /\ (\A k \in (rows[m].ref + 1)..Len(history) : history[k].proposal = 0)
    BY <1>2, <1>m DEF Standing
  <1>4. Unmoved(m)
    BY <1>2, <1>m DEF DecisionInv, Moving, MoveDocuments
  <1>5. ~(Unmoved(m)')
    <2>1. \E t : history' = Append(history, [tree |-> t, by |-> "archive", proposal |-> m])
      BY <1>m DEF MoveDocuments, Commit
    <2>2. Len(history') = Len(history) + 1 /\ history'[Len(history) + 1].proposal = m
      BY <1>1, <2>1, NewTree
    <2>3. Len(history) + 1 \in 1..Len(history')
      BY <1>1, <2>2 DEF Base, Types
    <2>. QED
      BY <2>2, <2>3 DEF Unmoved
  <1>. QED
    BY <1>2, <1>m, <1>3, <1>4, <1>5

LEMMA BehindhandStep ==
  ASSUME BodyInv, [Next]_vars, Behindhand
  PROVE  Behindhand'
  <1>. SUFFICES ASSUME Steady', pg' # Keys(Tree'),
                       ~\E j \in 1..Len(jobs') : jobs'[j].kind = "compile" /\ jobs'[j].status \in Open,
                       ~(current' # 0 /\ Me'.kind = "groom" /\ work'.ref # 0),
                       ~\E r \in 1..Len(rows') : Underway(r)'
                PROVE  FALSE
    BY DEF Behindhand, Opened
  <1>1. /\ Base /\ SearchInv /\ IsProjected /\ DecisionInv /\ Footing /\ Stepped /\ Steady /\ Calm' /\ OwnCommits /\ OwnCommits'
        /\ Base' /\ Footing' /\ Follows /\ Standing
    BY SteadyWas, BodyParts DEF Stepped
  <1>2. IsProjected'
    BY <1>1, StepSearch DEF SearchInv
  <1>3. pg' = pg /\ Tree' = Tree
    <2>1. ~AdvanceManifest
      <3>. SUFFICES ASSUME AdvanceManifest PROVE FALSE
        OBVIOUS
      <3>1. /\ current # 0 /\ current' = current /\ work' = work /\ work.ref # 0
            /\ at' = (CASE Me.kind = "compile" -> "digest" [] Me.kind = "groom" -> "complete" [] OTHER -> "terminal")
        BY <1>1 DEF AdvanceManifest, Footing, Base, LaneKept
      <3>2. Me'.kind = Me.kind
        BY <1>1, <3>1, MeStays
      <3>. QED
        BY <1>1, <1>2, <3>1, <3>2 DEF IsProjected, Projected
    <2>2. ~CompileCommits
      <3>. SUFFICES ASSUME CompileCommits PROVE FALSE
        OBVIOUS
      <3>1. current # 0 /\ Me.kind = "compile" /\ UNCHANGED jobs /\ current \in 1..Len(jobs)
        BY <1>1 DEF CompileCommits, Running, Base, Types
      <3>2. jobs[current].status = "claimed"
        BY <1>1, <3>1 DEF CompileCommits, Running, Base, LaneKept
      <3>. QED
        BY <3>1, <3>2 DEF Me, Open
    <2>3. ~GroomCommits
      <3>. SUFFICES ASSUME GroomCommits PROVE FALSE
        OBVIOUS
      <3>1. current # 0 /\ Me.kind = "groom" /\ current' = current /\ work'.ref = HEAD + 1
        BY <1>1 DEF GroomCommits, Running, Blank
      <3>2. Me'.kind = "groom" /\ work'.ref # 0
        BY <1>1, <3>1, MeStays, TreeType
      <3>. QED
        BY <3>1, <3>2
    <2>4. ~MoveDocuments
      <3>. SUFFICES ASSUME MoveDocuments PROVE FALSE
        OBVIOUS
      <3>1. PICK m \in 1..Len(rows) : UNCHANGED rows /\ rows[m].status = "confirmed" /\ ~(Unmoved(m)')
        BY <1>1, AboutToMove
      <3>. QED
        BY <3>1 DEF Underway
    <2>. QED
      BY <1>1, <2>1, <2>2, <2>3, <2>4, Writing, TreeSteps
  <1>4. pg # Keys(Tree)
    BY <1>3
  <1>5. ~\E j \in 1..Len(jobs) : jobs[j].kind = "compile" /\ Opened(j)
    BY <1>1, <1>4, CompileStays
  <1>6. ~\E r \in 1..Len(rows) : Underway(r)
    BY <1>1, <1>4, UnderwayStays
  <1>7. current # 0 /\ Me.kind = "groom" /\ work.ref # 0
    BY <1>1, <1>4, <1>5, <1>6 DEF Behindhand
  <1>8. at # "run"
    BY <1>1, <1>7 DEF Footing
  <1>9. CASE current' = 0
    <2>1. GroomCompletes
      BY <1>1, <1>7, <1>8, <1>9, GroomStays
    <2>. QED
      BY <1>1, <1>4, <1>7, <2>1 DEF GroomCompletes, Running, IsProjected, Projected
  <1>10. CASE current' # 0
    <2>1. current' = current /\ Me'.kind = "groom"
      BY <1>1, <1>7, <1>10, MeStays DEF Stepped, QueueOnward, ClaimNext
    <2>2. at' # "run"
      <3>1. UNCHANGED at \/ Body
        BY <1>1, <1>7, <1>10, BodySteps DEF ClaimNext
      <3>. QED
        BY <1>8, <3>1, NotRunAgain
    <2>. QED
      BY <1>1, <1>10, <2>1, <2>2 DEF Footing
  <1>. QED
    BY <1>9, <1>10

\* What an index has beyond the manifest: nothing but the library's keys, and those only while a body
\* writes the indexes or a row cut short there is still to run.
Clean(ix, phase) ==
    Steady => /\ ix \subseteq pg \cup Keys(Tree)
              /\ at = "index" /\ phase # "delete" => ix \subseteq Keys(Tree)
              /\ ix \subseteq pg \/ at = "index" \/ \E j \in 1..Len(jobs) : Owes(j)

\* A body that leaves its index writes before their end leaves its row cut short.
LEMMA LeftOwing ==
  ASSUME BodyInv, [Next]_vars, Stepped, at = "index", at' # "index", ~AdvanceManifest
  PROVE  \E j \in 1..Len(jobs') : Owes(j)'
  <1>1. /\ Base /\ Footing /\ Standing /\ Follows /\ current # 0 /\ current \in 1..Len(jobs) /\ Me = jobs[current]
        /\ current \in 1..Len(jobs') /\ jobs'[current].kind = Me.kind /\ jobs'[current].arg = Me.arg
    BY BodyParts, MeType DEF Stepped, Me, Follows, JobsFollow, Base, Types, LaneKept
  <1>2. InPhase(Me.kind, "index") /\ Me.kind # "challenge"
    BY <1>1 DEF Footing, InPhase
  <1>3. current' = 0
    <2>. SUFFICES ASSUME current' # 0 PROVE FALSE
      OBVIOUS
    <2>1. Body /\ current' = current
      BY <1>1, BodySteps DEF ClaimNext
    <2>. QED
      BY <1>1, <2>1 DEF Body, SyncPlan, SyncRefused, WriteLexical, WriteVectors, CompileCommits, CompileNoop,
         RecordEvents, MarkDigested, CompileCompletes, MaybeTriggerRollover, MaybeTriggerChallenge,
         ChallengeCompensates, ChallengeCompletes, GroomCommits, GroomDeclines, GroomFails, GroomCompletes,
         ArchiveNotConfirmed, ArchiveStale, ArchiveResumes, ArchiveStates, ArchiveProceeds, MoveDocuments,
         SetSourceArchived, MarksSet, RecordTerminal, ArchiveCompletes, End, Running
  <1>4. ~Ending
    <2>1. ~ArchiveFails
      <3>. SUFFICES ASSUME ArchiveFails PROVE FALSE
        OBVIOUS
      <3>1. Me.kind = "archive" /\ ~Unmoved(Me.arg)
        BY <1>1 DEF ArchiveFails, Standing, Footing, Base, LaneKept
      <3>2. Landed # {} /\ Me.arg \in DOMAIN rows' /\ rows'[Me.arg].broken
        <4>1. Landed # {}
          BY <1>1, <3>1, NotLanded, BodyParts
        <4>2. rows'[Me.arg].broken /\ Me.arg \in 1..Len(rows) /\ Len(rows') = Len(rows) /\ Base'
          BY <1>1, <4>1, FailuresBase
        <4>. QED
          BY <4>1, <4>2 DEF Base, Types
      <3>. QED
        BY <3>2 DEF Stepped, Steady, Calm, NoneBroken
    <2>. QED
      BY <1>2, <2>1 DEF Ending, CompileCompletes, ChallengeCompletes, GroomDeclines, GroomFails, GroomCompletes,
         ArchiveNotConfirmed, ArchiveStale, ArchiveCompletes, SyncRefused, Running
  <1>5. UNCHANGED rows /\ jobs'[current] \in {Requeued(Me), Parked(Me)}
    BY <1>1, <1>3, <1>4, Leaving
  <1>6. Cut(Me, TRUE) # "no" /\ Cut(Me, EarlierOpen) # "no"
    BY DEF Cut
  <1>7. jobs'[current].cut # "no" /\ jobs'[current].status \in Open
    BY <1>1, <1>5, <1>6, LeftRows DEF Open
  <1>8. Me.kind = "archive" => rows'[Me.arg].status = "confirmed"
    BY <1>1, <1>5 DEF Standing, Row
  <1>. QED
    BY <1>1, <1>7, <1>8 DEF Owes, Opened, Arch

LEMMA CompileAdds ==
  ASSUME Base, CompileCommits
  PROVE  Keys(Tree) \subseteq Keys(Tree')
  <1>. SUFFICES ASSUME NEW k \in Keys(Tree) PROVE k \in Keys(Tree')
    OBVIOUS
  <1>1. /\ Tree.shelf[Me.arg] = "absent" /\ Tree'.archived = Tree.archived
        /\ \A s \in Sources : s # Me.arg => Tree'.shelf[s] = Tree.shelf[s]
    BY CompileTree
  <1>2. ASSUME NEW s \in Sources, Tree.shelf[s] # "absent", k = ClaimKey(Tree, s) PROVE k \in Keys(Tree')
    <2>1. Tree'.shelf[s] = Tree.shelf[s]
      BY <1>1, <1>2
    <2>2. ClaimKey(Tree, s) = ClaimKey(Tree', s)
      BY <1>1, <2>1, ClaimKeySame
    <2>. QED
      BY <1>2, <2>1, <2>2, KeysAre
  <1>3. ASSUME NEW p \in Tree.archived, NEW a \in Record(p), k = RecordKey(a) PROVE k \in Keys(Tree')
    BY <1>1, <1>3, KeysAre
  <1>. QED
    BY <1>2, <1>3, KeysAre

LEMMA CleanStep ==
  ASSUME BodyInv, FreshGrooms, [Next]_vars, NEW ix, NEW new, NEW phase, NEW next, Clean(ix, phase),
         AdvanceManifest => phase = "done",
         \/ new = ix /\ (at' = "index" => (at = "index" /\ next = phase) \/ next = "delete")
         \/ /\ at = "index" /\ phase # "done" /\ new = Indexed(ix, phase) /\ next = After(phase)
            /\ UNCHANGED <<history, pg, at>>
  PROVE  Steady' => /\ new \subseteq pg' \cup Keys(Tree')
                    /\ at' = "index" /\ next # "delete" => new \subseteq Keys(Tree')
                    /\ new \subseteq pg' \/ at' = "index" \/ \E j \in 1..Len(jobs') : Owes(j)'
  <1>. SUFFICES ASSUME Steady'
                PROVE  /\ new \subseteq pg' \cup Keys(Tree')
                       /\ at' = "index" /\ next # "delete" => new \subseteq Keys(Tree')
                       /\ new \subseteq pg' \/ at' = "index" \/ \E j \in 1..Len(jobs') : Owes(j)'
    OBVIOUS
  <1>1. Base /\ HoldsNow /\ Delta /\ Stepped /\ Steady /\ OwnCommits /\ OwnCommits'
    BY SteadyWas, BodyParts
  <1>2. /\ ix \subseteq pg \cup Keys(Tree)
        /\ at = "index" /\ phase # "delete" => ix \subseteq Keys(Tree)
        /\ ix \subseteq pg \/ at = "index" \/ \E j \in 1..Len(jobs) : Owes(j)
    BY <1>1 DEF Clean
  <1>3. at = "index" => history[work.ref].tree = Tree
    <2>1. at = "index" => work.ref # 0
      BY <1>1, BodyParts DEF Footing, Base, LaneKept
    <2>. QED
      BY <1>1, <2>1 DEF HoldsNow
  <1>4. CASE new = ix /\ (at' = "index" => (at = "index" /\ next = phase) \/ next = "delete")
    <2>1. CASE AdvanceManifest
      <3>1. at = "index" /\ phase = "done" /\ Tree' = Tree
        BY <1>1, <2>1, SameHistory DEF AdvanceManifest
      <3>2. pg' = Keys(Tree)
        BY <1>1, <1>3, <2>1, <3>1 DEF AdvanceManifest, Delta
      <3>. QED
        BY <1>2, <1>4, <3>1, <3>2
    <2>2. CASE ~AdvanceManifest
      <3>1. UNCHANGED pg
        BY <2>2, Writing
      <3>2. ASSUME GroomCommits \/ MoveDocuments PROVE ix \subseteq pg
        <4>1. at # "index"
          BY <3>2 DEF GroomCommits, MoveDocuments, Running
        <4>2. ~\E j \in 1..Len(jobs) : Owes(j)
          BY <1>1, <3>2, NoneOwes
        <4>. QED
          BY <1>2, <4>1, <4>2
      <3>3. new \subseteq pg' \cup Keys(Tree')
        <4>1. CASE GroomCommits \/ MoveDocuments
          BY <1>4, <3>1, <3>2, <4>1
        <4>2. CASE CompileCommits \/ Tree' = Tree
          BY <1>1, <1>2, <1>4, <3>1, <4>2, CompileAdds
        <4>. QED
          BY <1>1, <4>1, <4>2, TreeSteps
      <3>4. at' = "index" => Tree' = Tree
        BY <1>1, TreeSteps DEF CompileCommits, GroomCommits, MoveDocuments
      <3>5. at' = "index" /\ next # "delete" => new \subseteq Keys(Tree')
        BY <1>2, <1>4, <3>4
      <3>6. CASE at = "index" /\ at' # "index"
        BY <1>1, <2>2, <3>3, <3>5, <3>6, LeftOwing
      <3>7. ASSUME NEW j \in 1..Len(jobs), Owes(j)
            PROVE  new \subseteq pg' \/ \E i \in 1..Len(jobs') : Owes(i)'
        <4>1. pg = Keys(Tree) \/ (j \in 1..Len(jobs') /\ Owes(j)')
          BY <1>1, <3>7, OwesStep
        <4>. QED
          BY <1>2, <1>4, <3>1, <4>1
      <3>. QED
        BY <1>2, <1>4, <3>1, <3>3, <3>5, <3>6, <3>7
    <2>. QED
      BY <2>1, <2>2
  <1>5. CASE /\ at = "index" /\ phase # "done" /\ new = Indexed(ix, phase) /\ next = After(phase)
             /\ UNCHANGED <<history, pg, at>>
    <2>1. Tree' = Tree
      BY <1>1, <1>5, SameHistory
    <2>2. work.upserts = Keys(Tree) \ pg /\ work.deleted = pg \ Keys(Tree)
      BY <1>1, <1>3, <1>5 DEF Delta
    <2>3. new \subseteq Keys(Tree)
      <3>1. CASE phase = "delete"
        BY <1>2, <1>5, <2>2, <3>1 DEF Indexed
      <3>2. CASE phase # "delete"
        BY <1>2, <1>5, <2>2, <3>2 DEF Indexed
      <3>. QED
        BY <3>1, <3>2
    <2>. QED
      BY <1>5, <2>1, <2>3
  <1>. QED
    BY <1>4, <1>5

\* With nothing left to run, nobody owes anything.
LEMMA NothingOwed ==
  ASSUME BodyInv, Behindhand, Settled, Steady, NEW ix, NEW phase, Clean(ix, phase), Serves(ix, phase)
  PROVE  pg = Keys(Tree) /\ ix = Keys(Tree)
  <1>1. Base /\ Awaited /\ Calm /\ DOMAIN jobs = 1..Len(jobs)
    BY BodyParts DEF Steady, Base, Types
  <1>2. \A j \in 1..Len(jobs) : ~Opened(j)
    BY <1>1 DEF Settled, Opened
  <1>3. current = 0 /\ at # "index"
    BY <1>1 DEF Settled, Base, LaneKept
  <1>4. \A r \in 1..Len(rows) : ~Underway(r)
    BY <1>1, <1>2 DEF Awaited, Underway
  <1>5. pg = Keys(Tree)
    BY <1>2, <1>3, <1>4 DEF Behindhand
  <1>6. ix \subseteq pg
    BY <1>2, <1>3 DEF Clean, Owes
  <1>. QED
    BY <1>1, <1>5, <1>6 DEF Serves
-----------------------------------------------------------------------------
(* The page of a moved document, and the marks of a decision. *)

\* The page of a moved document is on the side of its last move.
OneUnderway ==
    Calm => \A q, r \in 1..Len(rows) : rows[q].page = rows[r].page /\ Underway(q) /\ ~Unmoved(r) => r <= q
Sided ==
    OwnCommits => \A r \in 1..Len(rows) : ~Unmoved(r) =>
        \/ rows[r].action = "archive" <=> rows[r].page \in Tree.archived
        \/ \E n \in (r + 1)..Len(rows) : rows[n].page = rows[r].page /\ ~Unmoved(n)
\* An executed decision has its marks, unless its page was decided on again.
MarksKept ==
    Calm => \A r \in 1..Len(rows) : rows[r].status = "executed" /\ rows[r].moves =>
        \/ Marked(r, {})
        \/ \E n \in (r + 1)..Len(rows) : rows[n].page = rows[r].page /\ rows[n].status \notin Undecided

DecidedInv == SearchInv /\ Standing /\ Planned /\ Marking /\ OneUnderway /\ Sided /\ MarksKept

\* A row that has a commit was planned before it.
LEMMA MovedLater ==
  ASSUME DecisionInv, NEW r \in 1..Len(rows), ~Unmoved(r)
  PROVE  \E i \in 1..Len(history) : history[i].proposal = r /\ rows[r].ref < i
  BY DEF DecisionInv, Decisions, Backed, Unmoved

\* While a body knows that no proposal's commit lies above its plan, no row planned later has moved.
LEMMA NoneMovedSince ==
  ASSUME DecisionInv, Planned, NEW m \in 1..Len(rows), NEW r \in 1..Len(rows), ~Unmoved(r),
         \A k \in (rows[m].ref + 1)..Len(history) : history[k].proposal = 0
  PROVE  r < m
  <1>. SUFFICES ASSUME m <= r PROVE FALSE
    OBVIOUS
  <1>1. rows[m].ref <= rows[r].ref
    BY DEF Planned
  <1>2. PICK i \in 1..Len(history) : history[i].proposal = r /\ rows[r].ref < i
    BY MovedLater
  <1>3. rows[m].ref \in Nat /\ rows[r].ref \in Nat /\ Len(history) \in Nat
    BY DEF DecisionInv, Base, Types, LaneKept
  <1>4. i \in (rows[m].ref + 1)..Len(history)
    BY <1>1, <1>2, <1>3
  <1>. QED
    BY <1>2, <1>4

\* A row with a commit is as old as the step, or the step is its commit.
LEMMA MovedWas ==
  ASSUME QueueInv, QueueInv', [Next]_vars, NEW r \in 1..Len(rows'), ~(Unmoved(r)')
  PROVE  r \in 1..Len(rows) /\ (~Unmoved(r) \/ (MoveDocuments /\ r = Me.arg))
  <1>1. Base /\ Base' /\ Fresh' /\ RowsOnward /\ Follows
    BY StepBase, RowSteps DEF QueueInv, DecisionInv
  <1>2. r \in 1..Len(rows)
    <2>. SUFFICES ASSUME r \notin 1..Len(rows) PROVE FALSE
      OBVIOUS
    <2>1. rows'[r].status = "proposed"
      BY <1>1 DEF RowsOnward, Base, Types
    <2>. QED
      BY <1>1, <2>1 DEF Fresh, Undecided
  <1>. QED
    BY <1>1, <1>2, UnmovedStays DEF Base, Types

LEMMA OneUnderwayStep ==
  ASSUME SearchInv, SearchInv', [Next]_vars, Standing, Planned, OneUnderway
  PROVE  OneUnderway'
  <1>. SUFFICES ASSUME Calm', NEW q \in 1..Len(rows'), NEW r \in 1..Len(rows'), rows'[q].page = rows'[r].page,
                       rows'[q].status = "confirmed", ~(Unmoved(q)'), ~(Unmoved(r)')
                PROVE  r <= q
    BY DEF OneUnderway, Underway
  <1>1. /\ QueueInv /\ QueueInv' /\ DecisionInv /\ Base /\ Follows /\ RowsOnward /\ Fresh /\ Calm /\ NoneOvertaken
    <2>1. QueueInv /\ QueueInv' /\ DecisionInv /\ Base /\ Fresh
      BY DEF SearchInv, QueueInv, DecisionInv
    <2>2. Follows /\ QueueOnward /\ RowsOnward
      BY <2>1, StepBase, QueueSteps, RowSteps
    <2>. QED
      BY <2>1, <2>2, CalmWas DEF Calm
  <1>2. /\ q \in 1..Len(rows) /\ r \in 1..Len(rows)
        /\ ~Unmoved(q) \/ (MoveDocuments /\ q = Me.arg)
        /\ ~Unmoved(r) \/ (MoveDocuments /\ r = Me.arg)
    BY <1>1, MovedWas
  <1>3. rows[q].page = rows[r].page
    BY <1>1, <1>2 DEF Follows, RowsFollow
  <1>4. rows[q].status = "confirmed"
    <2>1. rows[q].status \notin Undecided
      BY <1>1, <1>2, AboutToMove DEF Fresh, Undecided
    <2>. QED
      BY <1>1, <1>2, <2>1 DEF RowsOnward
  <1>5. CASE ~Unmoved(q) /\ ~Unmoved(r)
    BY <1>1, <1>2, <1>3, <1>4, <1>5 DEF OneUnderway, Underway
  <1>6. CASE MoveDocuments /\ r = Me.arg /\ ~Unmoved(q)
    <2>1. current # 0 /\ Me.kind = "archive" /\ Me.status = "claimed" /\ Row = rows[r]
      BY <1>1, <1>6, AboutToMove
    <2>2. Underway(q) /\ rows[q].page = Row.page
      BY <1>3, <1>4, <1>6, <2>1 DEF Underway
    <2>3. q = r
      BY <1>1, <1>2, <1>6, <2>1, <2>2, AloneOnPage
    <2>. QED
      BY <1>2, <2>3
  <1>7. CASE MoveDocuments /\ q = Me.arg /\ ~Unmoved(r)
    <2>1. \A k \in (rows[q].ref + 1)..Len(history) : history[k].proposal = 0
      BY <1>1, <1>7, AboutToMove
    <2>2. r < q
      BY <1>1, <1>2, <1>7, <2>1, NoneMovedSince
    <2>. QED
      BY <2>2
  <1>. QED
    BY <1>2, <1>5, <1>6, <1>7

LEMMA SidedStep ==
  ASSUME QueueInv, QueueInv', [Next]_vars, Standing, Planned, Sided
  PROVE  Sided'
  <1>. SUFFICES ASSUME OwnCommits', NEW r \in 1..Len(rows'), ~(Unmoved(r)')
                PROVE  \/ rows'[r].action = "archive" <=> rows'[r].page \in Tree'.archived
                       \/ \E n \in (r + 1)..Len(rows') : rows'[n].page = rows'[r].page /\ ~(Unmoved(n)')
    BY DEF Sided
  <1>1. DecisionInv /\ Base /\ Follows /\ OwnCommits
    BY StepBase, OwnCommitsWere DEF QueueInv, DecisionInv
  <1>2. r \in 1..Len(rows) /\ (~Unmoved(r) \/ (MoveDocuments /\ r = Me.arg))
    BY MovedWas
  <1>3. /\ rows'[r].page = rows[r].page /\ rows'[r].action = rows[r].action
        /\ rows[r].page \in Pages /\ Len(rows) \in Nat
    <2>1. rows'[r].page = rows[r].page /\ rows'[r].action = rows[r].action
      BY <1>1, <1>2 DEF Follows, RowsFollow
    <2>2. rows[r] \in Proposals /\ Len(rows) \in Nat
      BY <1>1, <1>2 DEF Base, Types
    <2>. QED
      BY <2>1, <2>2 DEF Proposals
  <1>4. CASE MoveDocuments /\ r = Me.arg
    <2>1. Row = rows[r]
      BY <1>1, <1>4, AboutToMove
    <2>. QED
      BY <1>1, <1>3, <1>4, <2>1, MoveTree
  <1>5. CASE ~Unmoved(r) /\ ~(MoveDocuments /\ r = Me.arg)
    <2>1. ASSUME NEW n \in (r + 1)..Len(rows), rows[n].page = rows[r].page, ~Unmoved(n)
          PROVE  \E m \in (r + 1)..Len(rows') : rows'[m].page = rows'[r].page /\ ~(Unmoved(m)')
      <3>1. n \in 1..Len(rows) /\ n \in (r + 1)..Len(rows')
        BY <1>1, <1>2 DEF Follows, RowsFollow, Base, Types
      <3>2. rows'[n].page = rows[n].page
        BY <1>1, <3>1 DEF Follows, RowsFollow
      <3>3. ~(Unmoved(n)')
        BY <1>1, <2>1, MovedStays
      <3>. QED
        BY <1>3, <2>1, <3>1, <3>2, <3>3
    <2>2. CASE MoveDocuments /\ rows[r].page = Row.page
      <3>1. PICK m \in 1..Len(rows) : /\ m = Me.arg /\ Row = rows[m] /\ UNCHANGED rows /\ ~(Unmoved(m)')
                                      /\ \A k \in (rows[m].ref + 1)..Len(history) : history[k].proposal = 0
        BY <1>1, <2>2, AboutToMove
      <3>2. r < m
        BY <1>1, <1>2, <1>5, <3>1, NoneMovedSince
      <3>3. m \in (r + 1)..Len(rows')
        BY <1>2, <1>3, <3>1, <3>2
      <3>. QED
        BY <2>2, <3>1, <3>3
    <2>3. CASE ~(MoveDocuments /\ rows[r].page = Row.page)
      <3>1. rows[r].page \in Tree'.archived <=> rows[r].page \in Tree.archived
        BY <1>1, <1>3, <2>3, TreeSteps, CompileTree, GroomTree, MoveTree
      <3>2. CASE rows[r].action = "archive" <=> rows[r].page \in Tree.archived
        BY <1>3, <3>1, <3>2
      <3>. QED
        BY <1>1, <1>2, <1>5, <2>1, <3>2 DEF Sided
    <2>. QED
      BY <2>2, <2>3
  <1>. QED
    BY <1>2, <1>4, <1>5

LEMMA MarkWrites ==
  [Next]_vars => UNCHANGED marks \/ SetSourceArchived
  BY DEF Next, Owner, Body, vars, RequestCompile, PlanArchive, ConfirmReads, ConfirmStale,
     ConfirmWrites, Drop, ClaimNext, WaitElapses, Interrupted, RoundFails, StoreAway, LeaveJob,
     SyncPlan, SyncRefused, WriteLexical, WriteVectors, AdvanceManifest, CompileNoop, RecordEvents,
     MarkDigested, CompileCompletes, MaybeTriggerRollover, MaybeTriggerChallenge,
     ChallengeCompensates, ChallengeCompletes, GroomDeclines, GroomFails, GroomCompletes,
     ArchiveNotConfirmed, ArchiveStale, ArchiveFails, ArchiveResumes, ArchiveStates, ArchiveProceeds,
     MarksSet, RecordTerminal, ArchiveCompletes, LeaveStores,
     CompileCommits, GroomCommits, MoveDocuments, WriteMeta, HandCommits

LEMMA MarksKeptStep ==
  ASSUME SearchInv, SearchInv', [Next]_vars, Standing, Planned, Marking, OneUnderway, MarksKept
  PROVE  MarksKept'
  <1>. SUFFICES ASSUME Calm', NEW r \in 1..Len(rows'), rows'[r].status = "executed", rows'[r].moves
                PROVE  \/ IF rows'[r].action = "archive" THEN rows'[r].sources \subseteq marks'
                          ELSE rows'[r].sources \cap marks' = {}
                       \/ \E n \in (r + 1)..Len(rows') : rows'[n].page = rows'[r].page /\ rows'[n].status \notin Undecided
    <2>1. \A S : S \ {} = S
      OBVIOUS
    <2>. QED
      BY <2>1 DEF MarksKept, Marked
  <1>1. /\ QueueInv /\ DecisionInv /\ Base /\ Follows /\ RowsOnward /\ Calm
    <2>1. QueueInv /\ DecisionInv /\ Base
      BY DEF SearchInv, QueueInv, DecisionInv
    <2>2. Follows /\ QueueOnward /\ RowsOnward
      BY <2>1, StepBase, QueueSteps, RowSteps
    <2>. QED
      BY <2>1, <2>2, CalmWas
  <1>2. r \in 1..Len(rows)
    BY <1>1 DEF RowsOnward, Base, Types, Follows, RowsFollow
  <1>3. rows[r].status \notin Undecided
    BY <1>1, <1>2 DEF RowsOnward, Undecided
  <1>4. /\ rows'[r].sources = rows[r].sources /\ rows'[r].moves = rows[r].moves
        /\ rows'[r].action = rows[r].action /\ rows'[r].page = rows[r].page /\ Len(rows) \in Nat
    <2>1. rows'[r].sources = rows[r].sources /\ rows'[r].moves = rows[r].moves
      BY <1>1, <1>2, <1>3 DEF RowsOnward
    <2>2. rows'[r].action = rows[r].action /\ rows'[r].page = rows[r].page
      BY <1>1, <1>2 DEF Follows, RowsFollow
    <2>3. Len(rows) \in Nat
      BY <1>1 DEF Base, Types
    <2>. QED
      BY <2>1, <2>2, <2>3
  <1>5. CASE rows[r].status # "executed"
    <2>1. RecordTerminal /\ Running("archive", at) /\ r = Me.arg
      BY <1>1, <1>2, <1>3, <1>5 DEF RowsOnward
    <2>2. current # 0 /\ Me.kind = "archive" /\ at = "terminal" /\ UNCHANGED marks
      BY <2>1 DEF RecordTerminal, Running
    <2>3. Marked(r, work.left) /\ work.left = {}
      BY <2>1, <2>2 DEF Marking
    <2>. QED
      BY <1>4, <2>2, <2>3 DEF Marked
  <1>6. CASE rows[r].status = "executed"
    <2>1. CASE \E n \in (r + 1)..Len(rows) : rows[n].page = rows[r].page /\ rows[n].status \notin Undecided
      <3>1. PICK n \in (r + 1)..Len(rows) : rows[n].page = rows[r].page /\ rows[n].status \notin Undecided
        BY <2>1
      <3>2. n \in 1..Len(rows) /\ n \in (r + 1)..Len(rows')
        BY <1>1, <1>2 DEF Follows, RowsFollow, Base, Types
      <3>3. rows'[n].page = rows[n].page /\ rows'[n].status \notin Undecided
        BY <1>1, <3>1, <3>2 DEF RowsOnward, Follows, RowsFollow, Undecided
      <3>. QED
        BY <1>4, <3>1, <3>2, <3>3
    <2>2. CASE Marked(r, {}) /\ UNCHANGED marks
      BY <1>4, <2>2 DEF Marked
    <2>3. CASE Marked(r, {}) /\ SetSourceArchived
      <3>1. /\ current # 0 /\ Me.kind = "archive" /\ at = "marks" /\ UNCHANGED rows
            /\ Me.arg \in 1..Len(rows) /\ Row = rows[Me.arg]
        BY <1>1, <2>3, RowType DEF SetSourceArchived, Running, Row
      <3>m. PICK m \in 1..Len(rows) : m = Me.arg
        BY <3>1
      <3>2. PICK s \in work.left : marks' = (IF Row.action = "archive" THEN marks \cup {s} ELSE marks \ {s})
        BY <2>3 DEF SetSourceArchived
      <3>3. s \in rows[m].sources /\ rows[m].status = "confirmed"
        BY <3>1, <3>m DEF Marking, Standing
      <3>4. About[s] = rows[m].page
        BY <3>3 DEF Planned
      <3>5. CASE s \notin rows[r].sources
        <4>1. rows[r].sources \ {} = rows[r].sources
          OBVIOUS
        <4>. QED
          BY <1>4, <2>3, <3>2, <3>5, <4>1 DEF Marked
      <3>6. CASE s \in rows[r].sources
        <4>1. rows[m].page = rows[r].page
          BY <1>2, <3>4, <3>6 DEF Planned
        <4>2. ~Unmoved(r)
          BY <1>2, <1>4, <1>6 DEF Planned
        <4>3. r <= m
          <5>1. CASE ~Unmoved(m)
            <6>1. Underway(m)
              BY <3>3, <5>1 DEF Underway
            <6>. QED
              BY <1>1, <1>2, <4>1, <4>2, <6>1 DEF OneUnderway
          <5>2. CASE Unmoved(m)
            <6>1. work.ref = 0
              BY <3>1, <3>m, <5>2 DEF Standing
            <6>2. \A k \in (rows[m].ref + 1)..Len(history) : history[k].proposal = 0
              BY <3>1, <3>m, <6>1 DEF Standing
            <6>3. r < m
              BY <1>1, <1>2, <4>2, <6>2, NoneMovedSince
            <6>. QED
              BY <6>3
          <5>. QED
            BY <5>1, <5>2
        <4>4. m # r
          BY <1>6, <3>3
        <4>5. m \in (r + 1)..Len(rows')
          BY <1>2, <1>4, <3>1, <4>3, <4>4
        <4>. QED
          BY <3>1, <3>3, <4>1, <4>5 DEF Undecided
      <3>. QED
        BY <3>5, <3>6
    <2>. QED
      BY <1>1, <1>2, <1>4, <1>6, <2>1, <2>2, <2>3, MarkWrites DEF MarksKept
  <1>. QED
    BY <1>5, <1>6
-----------------------------------------------------------------------------
(* The theorems. *)

LibraryInv ==
    /\ BodyInv /\ FreshGrooms /\ Behindhand
    /\ Clean(lex, work.lex) /\ Clean(vec, work.vec)
    /\ Planned /\ Marking /\ OneUnderway /\ Sided /\ MarksKept

LEMMA InitLibrary == Init => LibraryInv
  <1>. SUFFICES ASSUME Init PROVE LibraryInv
    OBVIOUS
  <1>1. SearchInv
    BY InitSearch
  <1>2. /\ Len(history) = 1 /\ history[1].by = "init" /\ history[1].proposal = 0 /\ Len(rows) = 0 /\ Len(jobs) = 0
        /\ current = 0 /\ at = "idle" /\ work.ref = 0 /\ ~work.wrote
        /\ Tree = Start /\ pg = Keys(Tree) /\ lex = Keys(Tree) /\ vec = Keys(Tree)
    BY DEF Init, Blank, Tree, HEAD
  <1>3. Footing /\ Standing /\ Signed /\ Tried
    BY <1>2 DEF Footing, Standing, Signed, Tried
  <1>4. FreshGrooms /\ Behindhand
    BY <1>2 DEF FreshGrooms, Behindhand
  <1>5. Clean(lex, work.lex) /\ Clean(vec, work.vec)
    BY <1>2 DEF Clean
  <1>6. Planned /\ Marking /\ OneUnderway /\ Sided /\ MarksKept
    BY <1>2 DEF Planned, Marking, OneUnderway, Sided, MarksKept
  <1>. QED
    BY <1>1, <1>3, <1>4, <1>5, <1>6 DEF LibraryInv, BodyInv

LEMMA StepLibrary == LibraryInv /\ [Next]_vars => LibraryInv'
  <1>. SUFFICES ASSUME LibraryInv, [Next]_vars PROVE LibraryInv'
    OBVIOUS
  <1>1. BodyInv /\ SearchInv /\ QueueInv /\ DecisionInv /\ Base /\ Footing /\ Standing /\ Signed /\ Tried
    BY BodyParts DEF LibraryInv
  <1>2. /\ Base' /\ Follows /\ QueueOnward /\ RowsOnward /\ SearchInv' /\ QueueInv' /\ DecisionInv'
    <2>1. Base' /\ Follows /\ QueueOnward /\ RowsOnward /\ SearchInv'
      BY <1>1, StepBase, QueueSteps, RowSteps, StepSearch
    <2>. QED
      BY <2>1 DEF SearchInv, QueueInv
  <1>3. Footing' /\ Standing' /\ Signed' /\ Tried'
    BY <1>1, <1>2, FootingStep, StandingStep, SignedStep, TriedStep
  <1>4. BodyInv'
    BY <1>2, <1>3 DEF BodyInv
  <1>5. FreshGrooms' /\ Behindhand'
    BY <1>1, FreshGroomsStep, BehindhandStep DEF LibraryInv
  <1>6. Planned' /\ Marking'
    BY <1>1, <1>2, PlannedStep, MarkingStep DEF LibraryInv
  <1>7. OneUnderway' /\ Sided' /\ MarksKept'
    BY <1>1, <1>2, OneUnderwayStep, SidedStep, MarksKeptStep DEF LibraryInv
  <1>8. Fields \subseteq DOMAIN work /\ (AdvanceManifest => work.lex = "done" /\ work.vec = "done")
    BY <1>1 DEF Base, Types, AdvanceManifest, IndexesWritten
  <1>9. PICK a, b, c, d : a = lex /\ b = lex' /\ c = work.lex /\ d = work'.lex
    OBVIOUS
  <1>10. Clean(lex, work.lex)'
    <2>1. Clean(a, c) /\ FreshGrooms
      BY <1>9 DEF LibraryInv
    <2>2. \/ b = a /\ (at' = "index" => (at = "index" /\ d = c) \/ d = "delete")
          \/ /\ at = "index" /\ c # "done" /\ b = Indexed(a, c) /\ d = After(c)
             /\ UNCHANGED <<history, pg, at>>
      BY <1>8, <1>9, IndexSteps
    <2>3. Steady' => /\ b \subseteq pg' \cup Keys(Tree')
                     /\ at' = "index" /\ d # "delete" => b \subseteq Keys(Tree')
                     /\ b \subseteq pg' \/ at' = "index" \/ \E j \in 1..Len(jobs') : Owes(j)'
      BY <1>1, <1>8, <1>9, <2>1, <2>2, CleanStep
    <2>. QED
      BY <1>9, <2>3 DEF Clean
  <1>11. PICK e, f, g, h : e = vec /\ f = vec' /\ g = work.vec /\ h = work'.vec
    OBVIOUS
  <1>12. Clean(vec, work.vec)'
    <2>1. Clean(e, g) /\ FreshGrooms
      BY <1>11 DEF LibraryInv
    <2>2. \/ f = e /\ (at' = "index" => (at = "index" /\ h = g) \/ h = "delete")
          \/ /\ at = "index" /\ g # "done" /\ f = Indexed(e, g) /\ h = After(g)
             /\ UNCHANGED <<history, pg, at>>
      BY <1>8, <1>11, IndexSteps
    <2>3. Steady' => /\ f \subseteq pg' \cup Keys(Tree')
                     /\ at' = "index" /\ h # "delete" => f \subseteq Keys(Tree')
                     /\ f \subseteq pg' \/ at' = "index" \/ \E j \in 1..Len(jobs') : Owes(j)'
      BY <1>1, <1>8, <1>11, <2>1, <2>2, CleanStep
    <2>. QED
      BY <1>11, <2>3 DEF Clean
  <1>. QED
    BY <1>4, <1>5, <1>6, <1>7, <1>10, <1>12 DEF LibraryInv

LEMMA LibraryAlways == Spec => []LibraryInv
  BY InitLibrary, StepLibrary, PTL DEF Spec

\* With the lane drained the manifest and both indexes hold exactly the library's claims, whatever
\* died, was away or waited, and wherever a retry began again (sync_projection, persist_compile_result,
\* run_archive_job): no hand commits, no archive that fails behind its own,
\* no row overtaken, every groom ended.
THEOREM RetriesAgree == Spec => []RetriedStoresAgree
  <1>1. LibraryInv => RetriedStoresAgree
    <2>. SUFFICES ASSUME LibraryInv, Settled, Steady PROVE StoresAgree
      BY DEF RetriedStoresAgree, Steady, Calm
    <2>1. BodyInv /\ Behindhand /\ Clean(lex, work.lex) /\ Clean(vec, work.vec)
      BY DEF LibraryInv
    <2>2. Serves(lex, work.lex) /\ Serves(vec, work.vec)
      BY <2>1, BodyParts
    <2>. QED
      BY <2>1, <2>2, NothingOwed DEF StoresAgree
  <1>. QED
    BY <1>1, LibraryAlways, PTL

\* Where a row says executed and nobody has decided on its page since, every store answers on the
\* side the page is on, and the sources it selected have its mark (_record_terminal comes last), as
\* long as no archive ends failed behind its own commit and the other premises above hold.
THEOREM ExecutedIsEverywhere == Spec => []ExecutedEverywhere
  <1>1. LibraryInv => ExecutedEverywhere
    <2>. SUFFICES ASSUME LibraryInv, NEW r \in DOMAIN rows, rows[r].status = "executed", rows[r].moves, Steady,
                         \A n \in DOMAIN rows : n > r /\ rows[n].page = rows[r].page =>
                                                  rows[n].status \in {"proposed", "stale", "dropped"}
                  PROVE  /\ \A k \in lex \cup vec \cup pg :
                              /\ rows[r].action = "archive" => ~(k.anchor \in rows[r].sources /\ ~k.archived)
                              /\ rows[r].action = "unarchive" => k.anchor \notin Record(rows[r].page)
                         /\ IF rows[r].action = "archive" THEN rows[r].sources \subseteq marks
                            ELSE rows[r].sources \cap marks = {}
      BY DEF ExecutedEverywhere, Steady, Calm
    <2>1. /\ BodyInv /\ Base /\ Fresh /\ Sides /\ Calm /\ OwnCommits /\ Planned /\ OneUnderway /\ Sided /\ MarksKept
          /\ Clean(lex, work.lex) /\ Clean(vec, work.vec)
      BY BodyParts DEF LibraryInv, Steady, Calm
    <2>2. /\ DOMAIN rows = 1..Len(rows) /\ Len(rows) \in Nat /\ r \in 1..Len(rows) /\ rows[r] \in Proposals
          /\ rows[r].page \in Pages /\ rows[r].sources \subseteq Sources
      <3>1. DOMAIN rows = 1..Len(rows) /\ Len(rows) \in Nat /\ r \in 1..Len(rows) /\ rows[r] \in Proposals
        BY <2>1 DEF Base, Types
      <3>. QED
        BY <3>1 DEF Proposals
    <2>p. PICK p \in Pages : p = rows[r].page
      BY <2>2
    <2>3. ~\E n \in (r + 1)..Len(rows) : rows[n].page = p /\ rows[n].status \notin Undecided
      BY <2>2, <2>p DEF Undecided
    <2>4. ~Unmoved(r)
      BY <2>1, <2>2 DEF Planned
    <2>5. rows[r].action = "archive" <=> p \in Tree.archived
      <3>1. ~\E n \in (r + 1)..Len(rows) : rows[n].page = p /\ ~Unmoved(n)
        BY <2>1, <2>2, <2>3 DEF Fresh
      <3>. QED
        BY <2>1, <2>2, <2>p, <2>4, <3>1 DEF Sided
    <2>6. \A k \in pg : ~OtherSide(k, p)
      <3>1. ~\E q \in 1..Len(rows) : rows[q].page = p /\ Underway(q)
        <4>. SUFFICES ASSUME NEW q \in 1..Len(rows), rows[q].page = p, Underway(q) PROVE FALSE
          OBVIOUS
        <4>1. r <= q
          BY <2>1, <2>2, <2>p, <2>4 DEF OneUnderway
        <4>2. q # r
          BY DEF Underway
        <4>3. q \in (r + 1)..Len(rows)
          BY <2>2, <4>1, <4>2
        <4>. QED
          BY <2>3, <4>3 DEF Underway, Undecided
      <3>. QED
        BY <2>1, <3>1 DEF Sides
    <2>7. \A k \in lex \cup vec \cup pg : ~OtherSide(k, p)
      <3>1. lex \cup vec \cup pg \subseteq pg \cup Keys(Tree)
        BY <2>1 DEF Clean
      <3>. QED
        BY <2>1, <2>6, <3>1, OwnSide
    <2>8. ASSUME NEW k \in lex \cup vec \cup pg
          PROVE  /\ rows[r].action = "archive" => ~(k.anchor \in rows[r].sources /\ ~k.archived)
                 /\ rows[r].action = "unarchive" => k.anchor \notin Record(rows[r].page)
      <3>1. k.anchor \in rows[r].sources => k.anchor \in Sources /\ About[k.anchor] = p
        BY <2>1, <2>2, <2>p DEF Planned
      <3>. QED
        BY <2>5, <2>7, <2>p, <3>1 DEF OtherSide
    <2>9. Marked(r, {})
      BY <2>1, <2>2, <2>3, <2>p DEF MarksKept
    <2>10. rows[r].sources \ {} = rows[r].sources
      OBVIOUS
    <2>. QED
      BY <2>8, <2>9, <2>10 DEF Marked
  <1>. QED
    BY <1>1, LibraryAlways, PTL
=============================================================================
