--------------------------- MODULE JobQueueProofs ---------------------------
(***************************************************************************)
(* What the queue keeps for every number of rows, launches and Stewards,   *)
(* and for clients that call any operation at any time: the conjunction    *)
(* TypeOK /\ LaneReserved /\ ClaimFollowsDraft is inductive.               *)
(***************************************************************************)
EXTENDS JobQueue, FiniteSetTheorems, TLAPS

-----------------------------------------------------------------------------
(* Type correctness, one lemma per group of operations. *)

LEMMA InitType == Init => TypeOK
BY BoundsAssumption DEF Init, TypeOK, Row, Statuses, Executor

\* Rows are finitely many, so the position a new row is written at is a number.
LEMMA WrittenType == Written \in Nat
<1>1. {j \in Job : ~Is(j, "absent")} \in SUBSET Job
  OBVIOUS
<1>2. IsFiniteSet({j \in Job : ~Is(j, "absent")})
  BY <1>1, RowsAssumption, FS_Subset
<1> QED
  BY <1>2, FS_CardinalityType DEF Written

\* A step that writes one well-formed row, or none, keeps the queue's type.
LEMMA RowType ==
    ASSUME TypeOK, NEW j \in Job, NEW row \in Row, job' = [job EXCEPT ![j] = row]
    PROVE  job' \in [Job -> Row]
BY DEF TypeOK

LEMMA EnqueueType ==
    ASSUME TypeOK, NEW j \in Job, NEW at \in Job, Enqueue(j, at)
    PROVE  TypeOK'
<1> DEFINE place == IF at = j THEN Written + 1 ELSE job[at].place
<1> DEFINE row == [job[j] EXCEPT !.status = "queued", !.made = Written + 1, !.place = place]
<1>1. Written + 1 \in Nat /\ place \in Nat
  BY WrittenType DEF TypeOK, Row
<1>2. row \in Row
  <2> HIDE DEF place
  <2> QED BY <1>1 DEF TypeOK, Row, Statuses
<1>3. job' = [job EXCEPT ![j] = row]
  BY DEF Enqueue, TypeOK, Row
<1> HIDE DEF row
<1>4. job' \in [Job -> Row]
  BY <1>2, <1>3, RowType
<1> QED BY <1>4 DEF Enqueue, TypeOK

LEMMA ClaimNextType ==
    ASSUME TypeOK, NEW j \in Job, NEW lanes, NEW skip, ClaimNext(j, lanes, skip)
    PROVE  TypeOK'
<1>1. [job[j] EXCEPT !.status = "claimed", !.by = Worker] \in Row
  BY DEF TypeOK, Row, Statuses, Claimer
<1> QED BY <1>1 DEF ClaimNext, TypeOK

LEMMA ClaimType ==
    ASSUME TypeOK, NEW j \in Job, NEW x \in Claimer, Claim(j, x)
    PROVE  TypeOK'
<1>1. [job[j] EXCEPT !.status = "claimed", !.by = x] \in Row
  BY DEF TypeOK, Row, Statuses
<1> QED BY <1>1 DEF Claim, AnyLock, TypeOK

LEMMA AttachExecutorType ==
    ASSUME TypeOK, NEW j \in Job, NEW e \in Launch, AttachExecutor(j, e)
    PROVE  TypeOK'
<1>1. [job[j] EXCEPT !.by = e] \in Row
  BY DEF TypeOK, Row, Claimer, Executor
<1> QED BY <1>1 DEF AttachExecutor, UnderLock, TypeOK, Executor

\* The four columns a park or a resume rewrites.
LEMMA ReschedulesType ==
    ASSUME NEW row \in Row, NEW status \in Statuses, NEW by \in Claimer \cup {None},
           NEW wait \in BOOLEAN, NEW fails \in 0 .. MaxAttempts + 1
    PROVE  [row EXCEPT !.status = status, !.by = by, !.wait = wait, !.fails = fails] \in Row
BY DEF Row

LEMMA ParkType ==
    ASSUME TypeOK, NEW j \in Job, NEW by, Park(j, by)
    PROVE  TypeOK'
<1> DEFINE attempts == job[j].fails + 1
<1> DEFINE spent == attempts > MaxAttempts
<1> DEFINE status == IF spent THEN "paused" ELSE "queued"
<1> DEFINE fails == IF spent THEN MaxAttempts + 1 ELSE attempts
<1> DEFINE row == [job[j] EXCEPT !.status = status, !.by = None, !.wait = ~spent, !.fails = fails]
<1>1. fails \in 0 .. MaxAttempts + 1
  BY BoundsAssumption DEF TypeOK, Row
<1>2. status \in Statuses
  BY DEF Statuses
<1>3. row \in Row
  <2>1. job[j] \in Row /\ None \in Claimer \cup {None}
    BY DEF TypeOK
  <2>2. (~spent) \in BOOLEAN
    OBVIOUS
  <2> HIDE DEF status, fails, spent
  <2> QED BY <1>1, <1>2, <2>1, <2>2, ReschedulesType
<1>4. job' = [job EXCEPT ![j] = row] \/ job' = job
  BY DEF Park, Update
<1> HIDE DEF row
<1>5. job' \in [Job -> Row]
  BY <1>3, <1>4 DEF TypeOK
<1> QED BY <1>5 DEF Park, AnyLock, TypeOK

LEMMA CompleteType ==
    ASSUME TypeOK, NEW j \in Job, NEW by, NEW who \in Claimer, Complete(j, by, who)
    PROVE  TypeOK'
<1>1. [job[j] EXCEPT !.status = "done", !.outcome = who] \in Row
  BY DEF TypeOK, Row, Statuses
<1> QED BY <1>1 DEF Complete, Update, AnyLock, TypeOK

LEMMA ReleaseType ==
    ASSUME TypeOK, NEW j \in Job, Release(j)
    PROVE  TypeOK'
<1>1. [job[j] EXCEPT !.status = "queued", !.by = None] \in Row
  BY DEF TypeOK, Row, Statuses
<1> QED BY <1>1 DEF Release, AnyLock, TypeOK

LEMMA ResumeJobType ==
    ASSUME TypeOK, NEW j \in Job, ResumeJob(j)
    PROVE  TypeOK'
<1> DEFINE row == [job[j] EXCEPT !.status = "queued", !.by = None, !.wait = FALSE, !.fails = 0]
<1>1. 0 \in 0 .. MaxAttempts + 1
  BY BoundsAssumption
<1>2. row \in Row
  BY <1>1, ReschedulesType DEF TypeOK, Statuses
<1>3. job' = [job EXCEPT ![j] = row]
  BY DEF ResumeJob, TypeOK, Row
<1> HIDE DEF row
<1>4. job' \in [Job -> Row]
  BY <1>2, <1>3 DEF TypeOK
<1> QED BY <1>4 DEF ResumeJob, TypeOK

LEMMA WaitElapsesType ==
    ASSUME TypeOK, NEW j \in Job, WaitElapses(j)
    PROVE  TypeOK'
<1>1. [job[j] EXCEPT !.wait = FALSE] \in Row
  BY DEF TypeOK, Row
<1> QED BY <1>1 DEF WaitElapses, TypeOK

LEMMA RequeueClaimedType ==
    ASSUME TypeOK, NEW rows, RequeueClaimed(rows)
    PROVE  TypeOK'
<1>1. \A j \in Job : [job[j] EXCEPT !.status = "queued", !.by = None] \in Row
  BY DEF TypeOK, Row, Statuses
<1>2. \A j \in Job : Continuable(j) => [draft[j] EXCEPT !.kept = TRUE] \in Draft
  BY DEF TypeOK, Draft, Continuable
<1>3. job' \in [Job -> Row]
  BY <1>1 DEF TypeOK, RequeueClaimed
<1>4. draft' \in [Job -> Draft \cup {None}]
  BY <1>2 DEF TypeOK, RequeueClaimed
<1> QED BY <1>3, <1>4 DEF TypeOK, RequeueClaimed

LEMMA PutType ==
    ASSUME TypeOK, NEW j \in Job, NEW x \in Executor, NEW adopt, NEW body \in Bodies,
           Put(x, j, adopt, body)
    PROVE  TypeOK'
<1>1. [owner |-> x, kept |-> FALSE, body |-> body, age |-> "fresh"] \in Draft
  BY DEF Draft
<1> QED BY <1>1 DEF Put, UnderLock, TypeOK

LEMMA DeleteType ==
    ASSUME TypeOK, NEW j \in Job, NEW x \in Executor, Delete(x, j)
    PROVE  TypeOK'
BY DEF Delete, UnderLock, TypeOK

LEMMA AbandonType ==
    ASSUME TypeOK, NEW j \in Job, NEW x \in Executor, NEW takeOver, Abandon(x, j, takeOver)
    PROVE  TypeOK'
<1>1. [job[j] EXCEPT !.status = "queued", !.by = None] \in Row
  BY DEF TypeOK, Row, Statuses
<1> QED BY <1>1 DEF Abandon, Update, UnderLock, TypeOK

LEMMA DraftAgesType ==
    ASSUME TypeOK, NEW j \in Job, DraftAges(j)
    PROVE  TypeOK'
<1> DEFINE older == [draft[j] EXCEPT !.age = IF @ = "fresh" THEN "idle" ELSE "stale"]
<1>1. older \in Draft
  BY DEF TypeOK, Draft, DraftAges
<1>2. draft' = [draft EXCEPT ![j] = older]
  BY DEF DraftAges, TypeOK, Draft
<1> HIDE DEF older
<1> QED BY <1>1, <1>2 DEF DraftAges, TypeOK

LEMMA LockType ==
    ASSUME TypeOK, NEW x \in Executor, Lock(x) \/ Unlock(x)
    PROVE  TypeOK'
BY DEF Lock, Unlock, TypeOK

LEMMA LaunchType ==
    ASSUME TypeOK,
           \/ \E e \in Launch : MintLease(e)
           \/ \E es \in SUBSET Launch : DropLeases(es)
    PROVE  TypeOK'
<1>1. CASE \E e \in Launch : MintLease(e)
  BY <1>1 DEF MintLease, TypeOK
<1>2. CASE \E es \in SUBSET Launch : DropLeases(es)
  BY <1>2 DEF DropLeases, AnyLock, TypeOK
<1> QED BY <1>1, <1>2

LEMMA StepType == TypeOK /\ [Next]_queueVars => TypeOK'
<1> SUFFICES ASSUME TypeOK, [Next]_queueVars PROVE TypeOK'
  OBVIOUS
<1>1. CASE \E j \in Job : RowStep(j)
  <2>1. PICK j \in Job : RowStep(j)
    BY <1>1
  <2> QED
    BY <2>1, EnqueueType, ClaimNextType, ClaimType, AttachExecutorType, ParkType,
       CompleteType, ReleaseType, ResumeJobType, WaitElapsesType DEF RowStep
<1>2. CASE \E j \in Job : DraftStep(j)
  BY <1>2, PutType, DeleteType, AbandonType, DraftAgesType DEF DraftStep
<1>3. CASE \E rows \in SUBSET Job : RequeueClaimed(rows)
  BY <1>3, RequeueClaimedType
<1>4. CASE \E x \in Executor : Lock(x) \/ Unlock(x)
  BY <1>4, LockType
<1>5. CASE \/ \E e \in Launch : MintLease(e)
           \/ \E es \in SUBSET Launch : DropLeases(es)
  BY <1>5, LaunchType
<1>6. CASE UNCHANGED queueVars
  BY <1>6 DEF queueVars, TypeOK
<1> QED BY <1>1, <1>2, <1>3, <1>4, <1>5, <1>6 DEF Next

\* Every row, draft, lease and the lock keep their types, and no schedule counts past its end.
THEOREM TypeCorrect == Spec => []TypeOK
<1>1. Init => TypeOK
  BY InitType
<1>2. TypeOK /\ [Next]_queueVars => TypeOK'
  BY StepType
<1> QED BY <1>1, <1>2, PTL DEF Spec

-----------------------------------------------------------------------------
(* The lane invariants.  Every step is one of three: it takes a row (a     *)
(* claim or an attach), it writes a claimed row's draft, or it only lets   *)
(* go of rows and drafts.                                                  *)

\* No row is newly claimed and no draft newly open, and neither changes hands.
LetsGo ==
    \A k \in Job :
        /\ Is(k, "claimed")' => Is(k, "claimed") /\ job'[k].by = job[k].by
        /\ draft'[k] # None => /\ draft[k] # None
                               /\ draft'[k].owner = draft[k].owner
                               /\ draft[k].kept => draft'[k].kept

\* A claim of j, or an attach to it.
Takes(j) ==
    /\ NoForeignDraft(j, {Lane(j)})
    /\ Is(j, "claimed") \/ NothingInFlight({Lane(j)})
    /\ \A k \in Job \ {j} : job'[k] = job[k]
    /\ UNCHANGED draft

Writes(j) == \E x \in Executor, adopt \in BOOLEAN, body \in Bodies : Put(x, j, adopt, body)

LEMMA RowStepKinds ==
    ASSUME TypeOK, NEW j \in Job, RowStep(j)
    PROVE  LetsGo \/ Takes(j)
<1>1. CASE \E at \in Job : Enqueue(j, at)
  BY <1>1 DEF Enqueue, LetsGo, Is, TypeOK, Row
<1>2. CASE \E lanes \in (SUBSET Lanes) \ {{}}, skip \in Skips : ClaimNext(j, lanes, skip)
  BY <1>2 DEF ClaimNext, Claimable, NoForeignDraft, NothingInFlight, Takes, TypeOK
<1>3. CASE \E x \in Claimer : Claim(j, x)
  BY <1>3 DEF Claim, Takes, TypeOK
<1>4. CASE \E e \in Launch : AttachExecutor(j, e)
  BY <1>4 DEF AttachExecutor, CanAttach, Takes, TypeOK
<1>5. CASE \E by \in Claimer \cup {None} : Park(j, by)
  <2>1. job'[j] = job[j] \/ ~Is(j, "claimed")'
    BY <1>5 DEF Park, Update, Is, TypeOK, Row
  <2>2. \A k \in Job \ {j} : job'[k] = job[k]
    BY <1>5 DEF Park, Update, TypeOK
  <2> QED BY <1>5, <2>1, <2>2 DEF Park, LetsGo, Is
<1>6. CASE \E who \in Claimer : \E by \in {None, who} : Complete(j, by, who)
  BY <1>6 DEF Complete, Update, LetsGo, Is, TypeOK, Row
<1>7. CASE Release(j) \/ ResumeJob(j) \/ WaitElapses(j)
  BY <1>7 DEF Release, ResumeJob, WaitElapses, LetsGo, Is, TypeOK, Row
<1> QED BY <1>1, <1>2, <1>3, <1>4, <1>5, <1>6, <1>7 DEF RowStep

LEMMA DraftStepKinds ==
    ASSUME TypeOK, NEW j \in Job, DraftStep(j)
    PROVE  LetsGo \/ Writes(j)
<1>1. CASE Writes(j)
  BY <1>1
<1>2. CASE \E x \in Executor : Delete(x, j)
  BY <1>2 DEF Delete, LetsGo, Is, TypeOK
<1>3. CASE \E x \in Executor, takeOver \in BOOLEAN : Abandon(x, j, takeOver)
  BY <1>3 DEF Abandon, Update, LetsGo, Is, TypeOK, Row
<1>4. CASE DraftAges(j)
  BY <1>4 DEF DraftAges, LetsGo, Is, TypeOK, Draft
<1> QED BY <1>1, <1>2, <1>3, <1>4 DEF DraftStep, Writes

LEMMA SweepLetsGo ==
    ASSUME TypeOK, NEW rows, RequeueClaimed(rows)
    PROVE  LetsGo
<1> SUFFICES ASSUME NEW k \in Job
             PROVE  /\ Is(k, "claimed")' => Is(k, "claimed") /\ job'[k].by = job[k].by
                    /\ draft'[k] # None => /\ draft[k] # None
                                           /\ draft'[k].owner = draft[k].owner
                                           /\ draft[k].kept => draft'[k].kept
  BY DEF LetsGo
<1>1. job'[k] = job[k] \/ ~Is(k, "claimed")'
  BY DEF RequeueClaimed, TypeOK, Row, Is
<1>2. \/ draft'[k] \in {None, draft[k]}
      \/ Continuable(k) /\ draft'[k] = [draft[k] EXCEPT !.kept = TRUE]
  BY DEF RequeueClaimed
<1>3. Continuable(k) => draft[k] \in Draft
  BY DEF Continuable, TypeOK
<1> QED BY <1>1, <1>2, <1>3 DEF Is, Draft, Continuable

LEMMA StepKinds ==
    ASSUME TypeOK, [Next]_queueVars
    PROVE  LetsGo \/ \E j \in Job : Takes(j) \/ Writes(j)
<1>1. CASE \E j \in Job : RowStep(j) \/ DraftStep(j)
  BY <1>1, RowStepKinds, DraftStepKinds
<1>2. CASE \E rows \in SUBSET Job : RequeueClaimed(rows)
  BY <1>2, SweepLetsGo
<1>3. CASE UNCHANGED <<job, draft>>
  BY <1>3 DEF LetsGo, Is
<1>4. CASE \/ \E x \in Executor : Lock(x) \/ Unlock(x)
           \/ \E e \in Launch : MintLease(e)
           \/ \E es \in SUBSET Launch : DropLeases(es)
           \/ UNCHANGED queueVars
  BY <1>3, <1>4 DEF Lock, Unlock, MintLease, DropLeases, queueVars
<1> QED BY <1>1, <1>2, <1>4 DEF Next

\* A lane is gained only while nothing reserves it, and by one row.
GainsFree ==
    \A j \in Job : Reserves(j)' /\ ~Reserves(j) =>
        \A k \in Job : Lane(k) = Lane(j) => ~Reserves(k) /\ (Reserves(k)' => k = j)

LEMMA StepGainsFree ==
    ASSUME TypeOK, [Next]_queueVars
    PROVE  GainsFree
<1>1. CASE LetsGo
  BY <1>1 DEF LetsGo, GainsFree, Reserves
<1>2. ASSUME NEW j \in Job, Takes(j) PROVE GainsFree
  <2>1. \A k \in Job \ {j} : Reserves(k)' <=> Reserves(k)
    BY <1>2 DEF Takes, Reserves, Is
  <2>2. ~Reserves(j) => \A k \in Job : Lane(k) = Lane(j) => ~Reserves(k)
    BY <1>2 DEF Takes, Reserves, NoForeignDraft, NothingInFlight
  <2> QED BY <2>1, <2>2 DEF GainsFree
<1>3. ASSUME NEW j \in Job, Writes(j) PROVE GainsFree
  <2>1. Reserves(j)
    BY <1>3 DEF Writes, Put, MayPut, Reserves
  <2>2. \A k \in Job \ {j} : Reserves(k)' <=> Reserves(k)
    BY <1>3 DEF Writes, Put, Reserves, Is, TypeOK
  <2> QED BY <2>1, <2>2 DEF GainsFree
<1> QED BY <1>1, <1>2, <1>3, StepKinds

LEMMA InitHolds == Init => TypeOK /\ LaneReserved /\ ClaimFollowsDraft /\ Holdings = {}
<1> SUFFICES ASSUME Init PROVE LaneReserved /\ ClaimFollowsDraft /\ Holdings = {}
  BY InitType
<1>1. \A j \in Job : ~Reserves(j) /\ ~Is(j, "claimed")
  BY DEF Init, Reserves, Is
<1> QED BY <1>1 DEF LaneReserved, ClaimFollowsDraft, Holdings

LEMMA StepLaneReserved == TypeOK /\ LaneReserved /\ [Next]_queueVars => LaneReserved'
<1> SUFFICES ASSUME TypeOK, LaneReserved, [Next]_queueVars,
                    NEW j \in Job, NEW k \in Job,
                    Reserves(j)', Reserves(k)', Lane(j) = Lane(k)
             PROVE  j = k
  BY DEF LaneReserved, Lane
<1>1. GainsFree
  BY StepGainsFree
<1>2. CASE Reserves(j) /\ Reserves(k)
  BY <1>2 DEF LaneReserved
<1>3. CASE ~Reserves(j)
  BY <1>1, <1>3 DEF GainsFree
<1>4. CASE ~Reserves(k)
  BY <1>1, <1>4 DEF GainsFree
<1> QED BY <1>2, <1>3, <1>4

LEMMA StepClaimFollowsDraft == TypeOK /\ ClaimFollowsDraft /\ [Next]_queueVars => ClaimFollowsDraft'
<1> SUFFICES ASSUME TypeOK, ClaimFollowsDraft, [Next]_queueVars, NEW k \in Job,
                    Is(k, "claimed")', draft'[k] # None, ~draft'[k].kept
             PROVE  draft'[k].owner = job'[k].by
  BY DEF ClaimFollowsDraft
<1>1. CASE LetsGo
  BY <1>1 DEF LetsGo, ClaimFollowsDraft
<1>2. ASSUME NEW j \in Job, Takes(j) PROVE draft'[k].owner = job'[k].by
  <2>1. k # j
    BY <1>2 DEF Takes, NoForeignDraft
  <2> QED BY <1>2, <2>1 DEF Takes, ClaimFollowsDraft, Is
<1>3. ASSUME NEW j \in Job, Writes(j) PROVE draft'[k].owner = job'[k].by
  BY <1>3 DEF Writes, Put, MayPut, ClaimFollowsDraft, Is, TypeOK
<1> QED BY <1>1, <1>2, <1>3, StepKinds

\* At most one job holds a lane, by a claim or by an open draft: two executors never run
\* two jobs of one lane, whatever they call and in whatever order.
THEOREM LanesStayReserved == Spec => []LaneReserved
<1>1. Init => TypeOK /\ LaneReserved
  BY InitHolds
<1>2. TypeOK /\ LaneReserved /\ [Next]_queueVars => (TypeOK /\ LaneReserved)'
  BY StepType, StepLaneReserved
<1> QED BY <1>1, <1>2, PTL DEF Spec

\* A claimed row and the draft of its round name one executor, through every hand-over.
THEOREM ClaimsFollowDrafts == Spec => []ClaimFollowsDraft
<1>1. Init => TypeOK /\ ClaimFollowsDraft
  BY InitHolds
<1>2. TypeOK /\ ClaimFollowsDraft /\ [Next]_queueVars => (TypeOK /\ ClaimFollowsDraft)'
  BY StepType, StepClaimFollowsDraft
<1> QED BY <1>1, <1>2, PTL DEF Spec

-----------------------------------------------------------------------------
(* The queue implements one exclusive lock per lane. *)

LEMMA StepHandsOver ==
    TypeOK /\ [Next]_queueVars => [LaneLock!Next]_Holdings
<1> SUFFICES ASSUME TypeOK, [Next]_queueVars PROVE LaneLock!Next
  OBVIOUS
<1>1. Holdings' \subseteq Lanes \X Job
  BY DEF Holdings, Lane, LaneOf, Lanes
<1>2. ASSUME NEW h \in Holdings' \ Holdings PROVE LaneLock!Taken(h[1], h[2])
  <2>1. PICK j \in Job : h = <<Lane(j), j>> /\ Reserves(j)' /\ ~Reserves(j)
    BY <1>2 DEF Holdings, Lane
  <2>2. \A k \in Job : Lane(k) = Lane(j) => ~Reserves(k) /\ (Reserves(k)' => k = j)
    BY <2>1, StepGainsFree DEF GainsFree
  <2>3. \A o \in Job : <<Lane(j), o>> \notin Holdings
    BY <2>2 DEF Holdings
  <2>4. \A p \in Job : <<Lane(j), p>> \in Holdings' => p = j
    BY <2>2 DEF Holdings, Lane
  <2> QED BY <2>1, <2>3, <2>4 DEF LaneLock!Taken, LaneLock!Free
<1> QED BY <1>1, <1>2 DEF LaneLock!Next

\* A lane goes from one job to the next only through being free: nobody's claim or draft is
\* ever replaced by another job's in one step.
THEOREM QueueHandsLanesOver == Spec => LanesHandOver
<1>1. Init => LaneLock!Init
  BY InitHolds DEF LaneLock!Init
<1>2. TypeOK /\ [Next]_queueVars => [LaneLock!Next]_Holdings
  BY StepHandsOver
<1> QED BY <1>1, <1>2, TypeCorrect, PTL DEF Spec, LanesHandOver, LaneLock!Spec

-----------------------------------------------------------------------------
(* What has ended stays ended. *)

EndedStays ==
    \A j \in Job : /\ Is(j, "done") => Is(j, "done")'
                   /\ Is(j, "paused") => ~Is(j, "claimed")'

LEMMA StepEndedStays ==
    ASSUME TypeOK, [Next]_queueVars
    PROVE  EndedStays
<1>1. ASSUME NEW j \in Job, RowStep(j) PROVE EndedStays
  <2>1. \A k \in Job \ {j} : job'[k] = job[k]
    BY <1>1 DEF RowStep, Enqueue, ClaimNext, Claim, AttachExecutor, Park, Complete, Update,
       Release, ResumeJob, WaitElapses, TypeOK
  <2> DEFINE Stays == /\ Is(j, "done") => Is(j, "done")'
                      /\ Is(j, "paused") => ~Is(j, "claimed")'
  <2>2. ASSUME NEW at \in Job, Enqueue(j, at) PROVE Stays
    BY <2>2 DEF Enqueue, Is
  <2>3. ASSUME \/ \E lanes \in (SUBSET Lanes) \ {{}}, skip \in Skips : ClaimNext(j, lanes, skip)
               \/ \E x \in Claimer : Claim(j, x)
               \/ \E e \in Launch : AttachExecutor(j, e)
        PROVE  Stays
    BY <2>3 DEF ClaimNext, Claimable, Claim, AttachExecutor, CanAttach, Is
  <2>4. ASSUME NEW by, Park(j, by) PROVE Stays
    BY <2>4 DEF Park, Update, Open, Is, TypeOK, Row
  <2>5. ASSUME NEW by, NEW who, Complete(j, by, who) PROVE Stays
    BY <2>5 DEF Complete, Update, Is, TypeOK, Row
  <2>6. ASSUME Release(j) \/ ResumeJob(j) \/ WaitElapses(j) PROVE Stays
    BY <2>6 DEF Release, ResumeJob, WaitElapses, Is, TypeOK, Row
  <2>7. Stays
    BY <1>1, <2>2, <2>3, <2>4, <2>5, <2>6 DEF RowStep
  <2> QED BY <2>1, <2>7 DEF EndedStays, Is
<1>2. ASSUME NEW j \in Job, DraftStep(j) PROVE EndedStays
  BY <1>2 DEF DraftStep, Put, Delete, Abandon, Update, DraftAges, EndedStays, Is, TypeOK, Row
<1>3. ASSUME NEW rows, RequeueClaimed(rows) PROVE EndedStays
  BY <1>3 DEF RequeueClaimed, EndedStays, Is, TypeOK, Row
<1>4. CASE UNCHANGED job
  BY <1>4 DEF EndedStays, Is
<1>5. CASE \/ \E x \in Executor : Lock(x) \/ Unlock(x)
           \/ \E e \in Launch : MintLease(e)
           \/ \E es \in SUBSET Launch : DropLeases(es)
           \/ UNCHANGED queueVars
  BY <1>4, <1>5 DEF Lock, Unlock, MintLease, DropLeases, queueVars
<1> QED BY <1>1, <1>2, <1>3, <1>5 DEF Next

\* A finished row stays finished, and a paused one is not handed out by the way.
THEOREM EndedRowsStay == Spec => NeverRevived
<1>1. TypeOK /\ [Next]_queueVars => [EndedStays]_queueVars
  BY StepEndedStays
<1> QED BY <1>1, TypeCorrect, PTL DEF Spec, NeverRevived, EndedStays
=============================================================================
