---------------------------- MODULE RoundsProofs ----------------------------
(***************************************************************************)
(* The worker, its harnesses and the Stewards call the queue only through  *)
(* its operations, so what JobQueueProofs proves of any client holds of    *)
(* them; then one writer at a time reaches the library, and a draft to be  *)
(* continued is nobody's who could still write it.  For every number of    *)
(* rows, launches, Stewards, faults and commands.                          *)
(*                                                                         *)
(* The invariant says what each phase of a lane implies: whose row it is   *)
(* on, whether a launch was minted for it, whether it is inside a command. *)
(***************************************************************************)
EXTENDS Rounds, JobQueueProofs

\* The phases in which the lane's launch holds the command lock.
Holding == {"finishing", "parking", "failing"}

\* The phases a launch has begun for.
Launched ==
    {"leased", "attached", "first", "second", "ended", "reended", "finishing", "abandoning",
     "left", "refused", "hopeless", "dropping", "parking", "failing"}

\* A lane's phase says whose row it is on and whether a launch has begun for it.
ShapeOf(s, l) ==
    /\ s.at = "idle" => s = Idle
    /\ s.at # "idle" => s.job \in Job /\ Lane(s.job) = l
    /\ s.at \in Launched => s.exec \in Launch
    /\ s.at \in {"claimed", "running", "ran", "unsettled"} => s.exec = None
    /\ s.exec # None \/ s.at = "claimed" => KindOf[s.job] \in AgentKinds
    /\ s.at = "running" => KindOf[s.job] \notin AgentKinds
Shapes == \A l \in Lanes : ShapeOf(slot[l], l)

Down == ~up => \A l \in Lanes : slot[l] = Idle

\* Launches are minted before they are used, and one lane's launch is no other's.
Born(x) == x \in Launch => launch[x] # "unborn"
Leases ==
    /\ \A l \in Lanes : Born(slot[l].exec) /\ (At(l, {"leased"}) => Alive(slot[l].exec))
    /\ \A l, m \in Lanes : slot[l].exec = slot[m].exec /\ slot[l].exec # None => l = m
    /\ \A e \in harness : Born(e)

\* The lock names the one body that is inside a command.
Commanding ==
    /\ \A l \in Lanes : At(l, Holding) => lock = slot[l].exec
    /\ \A l \in Lanes : At(l, {"parking", "failing"}) => command = None
    /\ lock \in Launch => \E l \in Lanes : slot[l].exec = lock /\ At(l, Holding)
    /\ \A l \in Lanes : slot[l].exec \in harness => At(l, {"first", "second"})
    /\ command # None => /\ lock # None
                         /\ KindOf[command.job] \in AgentKinds
                         /\ command.step = "judged" => draft[command.job] # None

\* Only agents' rows are claimed by executors and have drafts.
Claims == \A j \in Job : job[j].by \in Executor => KindOf[j] \in AgentKinds /\ Born(job[j].by)
Drafts == \A j \in Job : draft[j] # None => KindOf[j] \in AgentKinds /\ Born(draft[j].owner)

Unwritten == \A j \in Job : unwritten[j] # None => \E l \in Lanes : At(l, {"riding"}) /\ slot[l].job = j

RunningRows == \A l \in Lanes : At(l, {"running"}) => Is(slot[l].job, "claimed")

Free == \A j \in Job : Is(j, "claimed") \/ Is(j, "done") \/ job[j].by = None

\* A launch's drafts are of its own lane's row, and one to be continued is no lane's.
Owned ==
    \A j \in Job : draft[j] # None => \A l \in Lanes : slot[l].exec = draft[j].owner => slot[l].job = j
KeptApart ==
    \A j \in Job : draft[j] # None /\ draft[j].kept => \A l \in Lanes : slot[l].exec # draft[j].owner
-----------------------------------------------------------------------------
(* Every step of the composition is one operation of the queue, or none. *)

\* A claim that passes to an executor is an agent's row, a launch's while it lives.
HandsOver ==
    \A j \in Job : \/ job'[j].by \in {job[j].by, None, Worker}
                   \/ KindOf[j] \in AgentKinds /\ (job'[j].by \in Launch => Alive(job'[j].by))

Calls == [Next]_queueVars /\ HandsOver

LEMMA StillHandsOver == ASSUME UNCHANGED job PROVE HandsOver
BY DEF HandsOver

\* One row is written, and its claim goes to nobody new.
LEMMA RowHandsOver ==
    ASSUME TypeOK, NEW j \in Job, NEW row, job' = [job EXCEPT ![j] = row],
           row.by \in {job[j].by, None, Worker}
    PROVE  HandsOver
BY DEF TypeOK, HandsOver

LEMMA RowCalls ==
    ASSUME TypeOK, NEW j \in Job,
           \/ \E at \in Job : Enqueue(j, at)
           \/ \E lanes \in (SUBSET Lanes) \ {{}}, skip \in Skips : ClaimNext(j, lanes, skip)
           \/ Release(j) \/ ResumeJob(j) \/ WaitElapses(j) \/ DraftAges(j)
    PROVE  Calls
<1>1. [Next]_queueVars
  BY DEF Next, RowStep, DraftStep
<1>2. job \in [Job -> Row]
  BY DEF TypeOK
<1>3. CASE \E at \in Job : Enqueue(j, at)
  <2>1. PICK at \in Job : Enqueue(j, at)
    BY <1>3
  <2> DEFINE place == IF at = j THEN Written + 1 ELSE job[at].place
  <2>2. job' = [job EXCEPT ![j].status = "queued", ![j].made = Written + 1, ![j].place = place]
    BY <2>1 DEF Enqueue
  <2> HIDE DEF place
  <2>3. \A k \in Job : job'[k].by = job[k].by
    BY <1>2, <2>2 DEF Row
  <2> QED BY <1>1, <2>3 DEF Calls, HandsOver
<1>4. CASE \E lanes \in (SUBSET Lanes) \ {{}}, skip \in Skips : ClaimNext(j, lanes, skip)
  <2>1. \A k \in Job : job'[k].by \in {job[k].by, Worker}
    BY <1>2, <1>4 DEF ClaimNext, Row
  <2> QED BY <1>1, <2>1 DEF Calls, HandsOver
<1>5. CASE Release(j) \/ ResumeJob(j) \/ WaitElapses(j)
  <2>1. \A k \in Job : job'[k].by \in {job[k].by, None}
    BY <1>2, <1>5 DEF Release, ResumeJob, WaitElapses, Row
  <2> QED BY <1>1, <2>1 DEF Calls, HandsOver
<1>6. CASE DraftAges(j)
  BY <1>1, <1>6, StillHandsOver DEF DraftAges, Calls
<1> QED BY <1>3, <1>4, <1>5, <1>6

LEMMA SweepCalls ==
    ASSUME TypeOK, NEW rows \in SUBSET Job, RequeueClaimed(rows)
    PROVE  Calls
<1>1. \A k \in Job : job'[k].by \in {job[k].by, None}
  BY DEF RequeueClaimed, TypeOK, Row
<1> QED BY <1>1 DEF Calls, HandsOver, Next

LEMMA LockCalls ==
    ASSUME NEW x \in Executor, Lock(x) \/ Unlock(x)
    PROVE  Calls
BY StillHandsOver DEF Calls, Next, Lock, Unlock

LEMMA LeaseCalls ==
    ASSUME \/ \E e \in Launch : MintLease(e)
           \/ \E es \in SUBSET Launch : DropLeases(es)
    PROVE  Calls
BY StillHandsOver DEF Calls, Next, MintLease, DropLeases

LEMMA NoCall == ASSUME UNCHANGED queueVars PROVE Calls
BY StillHandsOver DEF Calls, queueVars

LEMMA PutCalls ==
    ASSUME NEW x \in Executor, NEW j \in Job, NEW adopt \in BOOLEAN, NEW body \in Bodies,
           Put(x, j, adopt, body)
    PROVE  Calls
<1>1. [Next]_queueVars
  BY DEF DraftStep, Next
<1> QED BY <1>1, StillHandsOver DEF Calls, Put

LEMMA DeleteCalls ==
    ASSUME NEW x \in Executor, NEW j \in Job, Delete(x, j)
    PROVE  Calls
<1>1. [Next]_queueVars
  BY DEF DraftStep, Next
<1> QED BY <1>1, StillHandsOver DEF Calls, Delete

LEMMA AbandonCalls ==
    ASSUME TypeOK, NEW x \in Executor, NEW j \in Job, NEW takeOver \in BOOLEAN,
           Abandon(x, j, takeOver)
    PROVE  Calls
<1>1. [Next]_queueVars
  BY DEF DraftStep, Next
<1>2. \A k \in Job : job'[k].by \in {job[k].by, None}
  BY DEF Abandon, Update, TypeOK, Row
<1> QED BY <1>1, <1>2 DEF Calls, HandsOver

LEMMA ParkCalls ==
    ASSUME TypeOK, NEW j \in Job, NEW by \in Claimer \cup {None}, Park(j, by)
    PROVE  Calls
<1>1. [Next]_queueVars
  BY DEF RowStep, Next
<1>2. \A k \in Job : job'[k].by \in {job[k].by, None}
  BY DEF Park, Update, TypeOK, Row
<1> QED BY <1>1, <1>2 DEF Calls, HandsOver

LEMMA CompleteCalls ==
    ASSUME TypeOK, NEW j \in Job, NEW who \in Claimer, NEW by \in {None, who},
           Complete(j, by, who)
    PROVE  Calls
<1>1. [Next]_queueVars
  BY DEF RowStep, Next
<1>2. \A k \in Job : job'[k].by = job[k].by
  BY DEF Complete, Update, TypeOK, Row
<1> QED BY <1>1, <1>2 DEF Calls, HandsOver

\* The body of a draft is a body.
LEMMA BodyType ==
    ASSUME TypeOK, NEW j \in Job, draft[j] # None
    PROVE  draft[j] \in Draft /\ draft[j].body \in Bodies /\ draft[j].owner \in Executor
BY DEF TypeOK, Draft

\* What one lane's phase says, for the steps of that lane.
LEMMA LaneType ==
    ASSUME RoundsTypeOK, Shapes, NEW l \in Lanes
    PROVE  /\ slot[l].exec \in Launch \cup {None} /\ slot[l].at \in Phases
           /\ slot[l].job \in Job \cup {None}
           /\ ~At(l, {"idle"}) => slot[l].job \in Job /\ Lane(slot[l].job) = l
           /\ At(l, Launched) => slot[l].exec \in Launch /\ slot[l].exec \in Executor
                                 /\ slot[l].exec \in Claimer /\ slot[l].exec # None
                                 /\ KindOf[slot[l].job] \in AgentKinds
BY NamesAssumption DEF RoundsTypeOK, Shapes, ShapeOf, At, Executor, Claimer

\* Nobody's lock holder is None.
LEMMA Names ==
    /\ \A x \in Executor : x # None /\ x \in Claimer
    /\ Worker \in Claimer /\ Launch \subseteq Executor /\ Steward \subseteq Executor
BY NamesAssumption DEF Executor, Claimer

LEMMA WorldCalls ==
    ASSUME RoundsTypeOK, Import \/ TimePasses \/ Start \/ SelfHeal \/ Crash \/ StewardResumes
    PROVE  Calls
<1>t. TypeOK
  BY DEF RoundsTypeOK
<1>1. CASE Import
  <2>1. Imports[imported + 1] \in Job
    BY <1>1, ImportsAssumption DEF Import, RoundsTypeOK
  <2> QED BY <1>t, <1>1, <2>1, RowCalls DEF Import
<1>2. CASE TimePasses
  BY <1>t, <1>2, RowCalls DEF TimePasses
<1>3. CASE Start
  BY <1>t, <1>3, SweepCalls, NoCall DEF Start
<1>4. CASE SelfHeal
  BY <1>t, <1>4, SweepCalls DEF SelfHeal
<1>5. CASE Crash
  BY <1>5, LeaseCalls DEF Crash
<1>6. CASE StewardResumes
  BY <1>t, <1>6, RowCalls DEF StewardResumes
<1> QED BY <1>1, <1>2, <1>3, <1>4, <1>5, <1>6

LEMMA FinishCalls ==
    ASSUME RoundsTypeOK, Commanding, NEW x \in Executor,
           \/ \E j \in Job : FinishRefused(x, j) \/ FinishJudged(x, j)
           \/ FinishLands(x) \/ FinishRecords(x) \/ FinishCloses(x) \/ FinishEvicted(x)
    PROVE  Calls
<1>t. TypeOK
  BY DEF RoundsTypeOK
<1>1. ASSUME NEW j \in Job, FinishRefused(x, j) PROVE Calls
  <2>1. draft[j].body \in Bodies /\ "repair" \in Bodies
    BY <1>1, BodyType DEF FinishRefused, Owns, RoundsTypeOK, Bodies
  <2> QED BY <1>1, <2>1, PutCalls DEF FinishRefused
<1>2. ASSUME NEW j \in Job, FinishJudged(x, j) PROVE Calls
  <2>1. draft[j].body \in Bodies
    BY <1>2, BodyType DEF FinishJudged, Owns, RoundsTypeOK
  <2> QED BY <1>2, <2>1, PutCalls, LockCalls DEF FinishJudged
<1>3. CASE FinishLands(x)
  <2>1. command.job \in Job /\ draft[command.job].body \in Bodies
    BY <1>3, BodyType DEF FinishLands, InCommand, RoundsTypeOK, Commanding
  <2> QED BY <1>3, <2>1, PutCalls, NoCall DEF FinishLands
<1>4. CASE FinishRecords(x)
  <2>1. command.job \in Job
    BY <1>4 DEF FinishRecords, InCommand, RoundsTypeOK
  <2> QED BY <1>t, <1>4, <2>1, CompleteCalls, ParkCalls, Names DEF FinishRecords
<1>5. CASE FinishCloses(x)
  <2>1. command.job \in Job
    BY <1>5 DEF FinishCloses, InCommand, RoundsTypeOK
  <2> QED BY <1>5, <2>1, DeleteCalls DEF FinishCloses
<1>6. CASE FinishEvicted(x)
  BY <1>6, LockCalls DEF FinishEvicted
<1> QED BY <1>1, <1>2, <1>3, <1>4, <1>5, <1>6

LEMMA StewardCalls ==
    ASSUME RoundsTypeOK, Commanding, NEW x \in Steward,
           StewardTypes(x) \/ StewardGoesOn(x) \/ StewardDies(x)
    PROVE  Calls
<1>t. TypeOK
  BY DEF RoundsTypeOK
<1>0. x \in Executor /\ x \in Claimer
  BY Names
<1>1. CASE StewardOpens(x)
  <2>1. PICK j \in Job : KindOf[j] \in AgentKinds /\ Claim(j, x)
    BY <1>1 DEF StewardOpens
  <2>2. [Next]_queueVars
    BY <1>0, <2>1 DEF Next, RowStep
  <2>3. \A k \in Job : job'[k].by = job[k].by \/ (k = j /\ job'[k].by = x)
    BY <2>1 DEF Claim, RoundsTypeOK, TypeOK, Row
  <2>4. x \notin Launch
    BY NamesAssumption
  <2> QED BY <2>1, <2>2, <2>3, <2>4 DEF Calls, HandsOver
<1>2. CASE StewardPuts(x)
  <2>1. PICK j \in Job :
          \/ Owns(x, j) /\ \E body \in {draft[j].body, "written", "repair"} : Put(x, j, FALSE, body)
          \/ draft[j] # None /\ Put(x, j, TRUE, draft[j].body)
    BY <1>2 DEF StewardPuts
  <2>2. {draft[j].body, "written", "repair"} \subseteq Bodies
    BY <2>1, BodyType DEF Owns, RoundsTypeOK, Bodies
  <2> QED BY <1>0, <2>1, <2>2, PutCalls
<1>3. CASE StewardFinishes(x)
  BY <1>0, <1>3, FinishCalls DEF StewardFinishes
<1>4. CASE StewardAbandons(x)
  BY <1>t, <1>0, <1>4, AbandonCalls DEF StewardAbandons
<1>5. CASE StewardOpening(x)
  <2>1. command.job \in Job
    BY <1>5 DEF StewardOpening, InCommand, RoundsTypeOK
  <2> DEFINE body == IF draft[command.job] = None THEN "blank" ELSE draft[command.job].body
  <2>2. body \in Bodies
    BY <2>1, BodyType DEF RoundsTypeOK, Bodies
  <2>3. \/ Put(x, command.job, TRUE, body) \/ Unlock(x) \/ Release(command.job)
    BY <1>5 DEF StewardOpening
  <2> QED BY <1>t, <1>0, <2>1, <2>2, <2>3, PutCalls, LockCalls, RowCalls
<1>6. CASE StewardFinishing(x)
  BY <1>0, <1>6, FinishCalls DEF StewardFinishing
<1>7. CASE StewardDies(x)
  BY <1>0, <1>7, LockCalls DEF StewardDies
<1> QED BY <1>1, <1>2, <1>3, <1>4, <1>5, <1>6, <1>7 DEF StewardTypes, StewardGoesOn

LEMMA HarnessCalls ==
    ASSUME RoundsTypeOK, NEW e \in Launch, HarnessStep(e)
    PROVE  Calls
<1>t. TypeOK
  BY DEF RoundsTypeOK
<1>0. e \in Executor
  BY Names
<1>1. CASE HarnessPut(e)
  <2>1. PICK j \in Job :
          Owns(e, j) /\ \E body \in {draft[j].body, "written", "repair"} : Put(e, j, FALSE, body)
    BY <1>1 DEF HarnessPut
  <2>2. {draft[j].body, "written", "repair"} \subseteq Bodies
    BY <2>1, BodyType DEF Owns, RoundsTypeOK, Bodies
  <2> QED BY <1>0, <2>1, <2>2, PutCalls
<1>2. CASE HarnessAbandon(e)
  BY <1>t, <1>0, <1>2, AbandonCalls DEF HarnessAbandon
<1>3. CASE HarnessExit(e)
  BY <1>3, NoCall DEF HarnessExit
<1> QED BY <1>1, <1>2, <1>3 DEF HarnessStep

LEMMA DropDraftCalls ==
    ASSUME RoundsTypeOK, NEW e \in Executor, NEW j \in Job, NEW statuses,
           DropDraft(e, j, statuses), lock \in {None, e}
    PROVE  Calls
<1>t. TypeOK
  BY DEF RoundsTypeOK
<1>1. CASE Delete(e, j)
  BY <1>1, DeleteCalls
<1>2. CASE UNCHANGED <<job, draft, launch>> /\ lock' = None
  BY <1>2, LockCalls, NoCall DEF Unlock, queueVars
<1> QED BY <1>1, <1>2 DEF DropDraft

\* The steps of a lane up to its launch.
LEMMA OpeningCalls ==
    ASSUME RoundsTypeOK, Shapes, Leases, NEW l \in Lanes,
           \/ DrainClaim(l) \/ DrainClaimUnsettled(l) \/ TakeLease(l) \/ Attach(l) \/ OpenRound(l)
           \/ HarnessRefused(l) \/ MaterialGone(l)
    PROVE  Calls
<1>t. TypeOK
  BY DEF RoundsTypeOK
<1>1. CASE DrainClaim(l) \/ DrainClaimUnsettled(l)
  <2>1. PICK j \in Job, skip \in Skips : ClaimNext(j, {l}, skip)
    BY <1>1, BoundsAssumption DEF DrainClaim, DrainClaimUnsettled
  <2>2. {l} \in (SUBSET Lanes) \ {{}}
    OBVIOUS
  <2> QED BY <1>t, <2>1, <2>2, RowCalls
<1>2. CASE TakeLease(l)
  BY <1>2, LeaseCalls DEF TakeLease
<1>3. CASE Attach(l)
  <2>1. /\ slot[l].job \in Job /\ slot[l].exec \in Launch
        /\ KindOf[slot[l].job] \in AgentKinds /\ Alive(slot[l].exec)
    BY <1>3, LaneType DEF Attach, At, Launched, Leases
  <2>2. CASE AttachExecutor(slot[l].job, slot[l].exec)
    <3>1. [Next]_queueVars
      BY <2>1, <2>2 DEF Next, RowStep
    <3>2. \A k \in Job : \/ job'[k].by = job[k].by
                         \/ k = slot[l].job /\ job'[k].by = slot[l].exec
      BY <2>2 DEF AttachExecutor, RoundsTypeOK, TypeOK, Row
    <3> QED BY <2>1, <3>1, <3>2 DEF Calls, HandsOver
  <2> QED BY <1>3, <2>2, NoCall DEF Attach
<1>4. CASE OpenRound(l)
  <2> DEFINE j == slot[l].job
  <2> DEFINE body == IF draft[j] = None THEN "blank" ELSE draft[j].body
  <2>1. j \in Job /\ slot[l].exec \in Executor
    BY <1>4, LaneType DEF OpenRound, At, Launched
  <2>2. body \in Bodies
    BY <2>1, BodyType DEF RoundsTypeOK, Bodies
  <2>3. Put(slot[l].exec, j, TRUE, body) \/ UNCHANGED queueVars
    BY <1>4 DEF OpenRound
  <2> QED BY <2>1, <2>2, <2>3, PutCalls, NoCall
<1>5. CASE HarnessRefused(l) \/ MaterialGone(l)
  BY <1>5, NoCall DEF HarnessRefused, MaterialGone
<1> QED BY <1>1, <1>2, <1>3, <1>4, <1>5

\* From the end of its harness to the end of its command.
LEMMA ClosingCalls ==
    ASSUME RoundsTypeOK, Shapes, Commanding, NEW l \in Lanes,
           AuthorityLost(l) \/ WorkerFinish(l) \/ WorkerFinishing(l) \/ WorkerAbandons(l)
    PROVE  Calls
<1>t. TypeOK
  BY DEF RoundsTypeOK
<1>1. slot[l].job \in Job /\ slot[l].exec \in Executor
  BY LaneType DEF AuthorityLost, WorkerFinish, WorkerFinishing, WorkerAbandons, At, Launched
<1>2. CASE AuthorityLost(l)
  BY <1>1, <1>2, DeleteCalls, NoCall DEF AuthorityLost
<1>3. CASE WorkerFinish(l)
  BY <1>1, <1>3, FinishCalls, NoCall DEF WorkerFinish
<1>4. CASE WorkerFinishing(l)
  BY <1>1, <1>4, FinishCalls, DeleteCalls DEF WorkerFinishing
<1>5. CASE WorkerAbandons(l)
  BY <1>t, <1>1, <1>5, AbandonCalls, NoCall DEF WorkerAbandons
<1> QED BY <1>2, <1>3, <1>4, <1>5

\* What the drain does with its row.
LEMMA EndingCalls ==
    ASSUME RoundsTypeOK, Shapes, Commanding, NEW l \in Lanes,
           EndAttempt(l) \/ RunPlain(l) \/ PlainEnds(l) \/ RideOut(l)
    PROVE  Calls
<1>t. TypeOK
  BY DEF RoundsTypeOK
<1>1. slot[l].job \in Job /\ slot[l].exec \in Claimer \cup {None}
  BY LaneType DEF EndAttempt, RunPlain, PlainEnds, RideOut, At, Ended, Claimer, Executor
<1>2. CASE EndAttempt(l)
  <2>1. CASE UNCHANGED queueVars
    BY <2>1, NoCall
  <2>2. CASE RoundIncomplete(l)
    BY <1>t, <1>1, <2>2, ParkCalls DEF RoundIncomplete
  <2>3. CASE HarnessUnavailable(l)
    <3>1. slot[l].exec \in Claimer
      BY <2>3, LaneType DEF HarnessUnavailable, At, Launched
    <3> QED BY <1>t, <1>1, <2>3, <3>1, ParkCalls, CompleteCalls DEF HarnessUnavailable
  <2>4. CASE DropRoundDraft(l)
    <3>1. slot[l].exec \in Executor
      BY <2>4, LaneType DEF DropRoundDraft, At, Launched
    <3> QED BY <1>1, <2>4, <3>1, DropDraftCalls DEF DropRoundDraft
  <2>5. CASE ParkJob(l)
    <3>1. CASE At(l, {"failed"})
      BY <1>t, <1>1, <2>5, <3>1, ParkCalls DEF ParkJob, At
    <3>2. CASE At(l, {"parking"})
      <4>1. slot[l].exec \in Executor /\ lock = slot[l].exec
        BY <3>2, LaneType DEF At, Launched, Commanding, Holding
      <4> QED BY <1>1, <2>5, <3>2, <4>1, DropDraftCalls DEF ParkJob, At
    <3> QED BY <2>5, <3>1, <3>2 DEF ParkJob
  <2>6. CASE FailJob(l)
    <3>1. slot[l].exec \in Executor /\ slot[l].exec \in Claimer
      BY <2>6, LaneType DEF FailJob, At, Launched
    <3>2. CASE At(l, {"hopeless"})
      BY <1>t, <1>1, <2>6, <3>1, <3>2, CompleteCalls DEF FailJob, At
    <3>3. CASE At(l, {"failing"})
      <4>1. lock = slot[l].exec
        BY <3>3 DEF At, Commanding, Holding
      <4> QED BY <1>1, <2>6, <3>1, <3>3, <4>1, DropDraftCalls DEF FailJob, At
    <3> QED BY <2>6, <3>2, <3>3 DEF FailJob
  <2> QED BY <1>2, <2>1, <2>2, <2>3, <2>4, <2>5, <2>6 DEF EndAttempt
<1>3. CASE RunPlain(l)
  BY <1>t, <1>1, <1>3, RowCalls, NoCall DEF RunPlain
<1>4. CASE PlainEnds(l)
  BY <1>t, <1>1, <1>4, CompleteCalls, Names DEF PlainEnds
<1>5. CASE RideOut(l)
  <2>1. ASSUME NEW j \in Job, unwritten[j] # None, Complete(j, None, unwritten[j]) PROVE Calls
    BY <1>t, <2>1, CompleteCalls DEF RoundsTypeOK
  <2> QED BY <1>t, <1>1, <1>5, <2>1, SweepCalls, NoCall DEF RideOut
<1> QED BY <1>2, <1>3, <1>4, <1>5

\* What goes wrong: leases and the lock go, and a completion may have landed.
LEMMA FaultCalls ==
    ASSUME RoundsTypeOK, Shapes, NEW l \in Lanes,
           DropLease(l) \/ LeaseLost(l) \/ Outage(l) \/ OutageAtRecord(l) \/ Exception(l)
    PROVE  Calls
<1>t. TypeOK
  BY DEF RoundsTypeOK
<1>1. ASSUME NEW e, e \in Launch \cup {None}, CommandLost(e), UNCHANGED <<job, draft, launch>>
      PROVE  Calls
  BY <1>1, LockCalls, NoCall, Names DEF CommandLost, Unlock, queueVars
<1>2. slot[l].exec \in Launch \cup {None}
  BY LaneType
<1>3. CASE Outage(l) \/ Exception(l)
  BY <1>1, <1>2, <1>3 DEF Outage, Exception
<1>4. CASE OutageAtRecord(l)
  <2>1. slot[l].job \in Job /\ (slot[l].exec # None => slot[l].exec \in Claimer)
    BY <1>4, LaneType, Names DEF OutageAtRecord, At
  <2> DEFINE who == IF slot[l].exec = None THEN Worker ELSE slot[l].exec
  <2>2. who \in Claimer
    BY <2>1, Names
  <2>3. CommandLost(slot[l].exec)
        /\ (Complete(slot[l].job, None, who) \/ UNCHANGED <<job, draft, launch>>)
    BY <1>4 DEF OutageAtRecord
  <2> QED BY <1>t, <1>1, <1>2, <2>1, <2>2, <2>3, CompleteCalls
<1>5. CASE DropLease(l) \/ LeaseLost(l)
  <2>1. {slot[l].exec} \in SUBSET Launch
    BY <1>5 DEF DropLease, LeaseLost, Alive
  <2> QED BY <1>5, <2>1, LeaseCalls DEF DropLease, LeaseLost
<1> QED BY <1>3, <1>4, <1>5

LEMMA StepCalls ==
    ASSUME RoundsTypeOK, Shapes, Leases, Commanding, [RoundsNext]_vars
    PROVE  Calls
<1>t. TypeOK
  BY DEF RoundsTypeOK
<1>1. CASE UNCHANGED vars
  BY <1>1, NoCall DEF vars
<1>2. CASE Import \/ TimePasses \/ Start \/ SelfHeal \/ Crash \/ StewardResumes
  BY <1>2, WorldCalls
<1>3. ASSUME NEW l \in Lanes, LaneWork(l) PROVE Calls
  BY <1>3, OpeningCalls, ClosingCalls, EndingCalls, FaultCalls DEF LaneWork
<1>4. ASSUME NEW l \in Lanes, LaneFault(l) PROVE Calls
  BY <1>4, OpeningCalls, FaultCalls DEF LaneFault
<1>5. ASSUME NEW e \in Launch, HarnessStep(e) PROVE Calls
  BY <1>5, HarnessCalls
<1>6. ASSUME NEW x \in Steward, StewardTypes(x) \/ StewardGoesOn(x) \/ StewardDies(x) PROVE Calls
  BY <1>6, StewardCalls
<1> QED BY <1>1, <1>2, <1>3, <1>4, <1>5, <1>6 DEF RoundsNext

-----------------------------------------------------------------------------
(* What a step does to the lanes: one lane goes from phase to phase, or     *)
(* takes a row, a launch, or leaves its row; a death clears both.           *)

SlotRows == [job : Job \cup {None}, exec : Launch \cup {None}, at : Phases]

Arrow(a, b) ==
    \/ a = "leased" /\ b = "attached"
    \/ a = "attached" /\ b \in {"first", "hopeless"}
    \/ a = "ended" /\ b \in {"second", "refused"}
    \/ a = "reended" /\ b = "abandoning"
    \/ a \in {"ended", "reended"} /\ b \in {"left", "over", "finishing"}
    \/ a = "finishing" /\ b \in {"left", "over"}
    \/ a = "abandoning" /\ b = "over"
    \/ a = "refused" /\ b = "dropping"
    \/ a = "failed" /\ b = "parking"
    \/ a = "hopeless" /\ b = "failing"
    \/ a = "running" /\ b = "ran"
    \/ a \notin {"idle", "first", "second", "riding", "unsettled"} /\ b \in {"riding", "failed"}

Goes(l) ==
    \E b \in Phases : /\ slot'[l] = [slot[l] EXCEPT !.at = b]
                      /\ Arrow(slot[l].at, b)
                      /\ b = "parking" => slot[l].exec # None

TakesRow(l) ==
    \E j \in Job, a \in {"claimed", "running", "unsettled"} :
        /\ At(l, {"idle"}) /\ Lane(j) = l
        /\ slot'[l] = [job |-> j, exec |-> None, at |-> a]
        /\ a = "claimed" => KindOf[j] \in AgentKinds
        /\ a = "running" => KindOf[j] \notin AgentKinds /\ Is(j, "claimed")'

TakesLaunch(l) ==
    \E e \in Launch :
        /\ At(l, {"claimed"}) /\ MintLease(e)
        /\ slot'[l] = [slot[l] EXCEPT !.exec = e, !.at = "leased"]

Leaves(l) == ~At(l, {"first", "second"}) /\ slot'[l] = Idle

Moves(l) ==
    /\ slot' \in [Lanes -> SlotRows]
    /\ \A m \in Lanes : m # l => slot'[m] = slot[m]
    /\ slot'[l] = slot[l] \/ Goes(l) \/ TakesRow(l) \/ TakesLaunch(l) \/ Leaves(l)

LEMMA BecomeMoves ==
    ASSUME RoundsTypeOK, NEW l \in Lanes, NEW b \in Phases, Become(l, b),
           Arrow(slot[l].at, b), b = "parking" => slot[l].exec # None
    PROVE  Moves(l)
<1>1. slot \in [Lanes -> SlotRows]
  BY DEF RoundsTypeOK, SlotRows
<1>2. slot' = [slot EXCEPT ![l] = [slot[l] EXCEPT !.at = b]]
  BY DEF Become
<1>3. [slot[l] EXCEPT !.at = b] \in SlotRows
  BY <1>1 DEF SlotRows
<1> QED BY <1>1, <1>2, <1>3 DEF Moves, Goes

LEMMA RowMoves ==
    ASSUME RoundsTypeOK, NEW l \in Lanes, NEW s \in SlotRows, slot' = [slot EXCEPT ![l] = s]
    PROVE  /\ slot' \in [Lanes -> SlotRows] /\ slot'[l] = s
           /\ \A m \in Lanes : m # l => slot'[m] = slot[m]
BY DEF RoundsTypeOK, SlotRows

LEMMA IdleMoves ==
    ASSUME RoundsTypeOK, NEW l \in Lanes, slot' = [slot EXCEPT ![l] = Idle],
           ~At(l, {"first", "second"})
    PROVE  Moves(l)
<1>1. Idle \in SlotRows
  BY DEF Idle, SlotRows, Phases
<1> QED BY <1>1, RowMoves DEF Moves, Leaves

LEMMA StillMoves == ASSUME RoundsTypeOK, NEW l \in Lanes, UNCHANGED slot PROVE Moves(l)
BY DEF RoundsTypeOK, SlotRows, Moves

LEMMA OpeningMoves ==
    ASSUME RoundsTypeOK, NEW l \in Lanes,
           \/ DrainClaim(l) \/ DrainClaimUnsettled(l) \/ TakeLease(l) \/ Attach(l) \/ OpenRound(l)
           \/ HarnessRefused(l) \/ MaterialGone(l)
    PROVE  Moves(l)
<1>1. CASE DrainClaim(l) \/ DrainClaimUnsettled(l)
  <2>1. PICK j \in Job, skip \in Skips, a \in {"claimed", "running", "unsettled"} :
          /\ At(l, {"idle"}) /\ ClaimNext(j, {l}, skip)
          /\ slot' = [slot EXCEPT ![l] = [job |-> j, exec |-> None, at |-> a]]
          /\ a = "claimed" => KindOf[j] \in AgentKinds
          /\ a = "running" => KindOf[j] \notin AgentKinds
    <3>1. CASE DrainClaim(l)
      <4>1. PICK j \in Job, skip \in Skips :
              /\ ClaimNext(j, {l}, skip)
              /\ slot' = [slot EXCEPT ![l] =
                            [job |-> j, exec |-> None,
                             at |-> IF KindOf[j] \in AgentKinds THEN "claimed" ELSE "running"]]
        BY <3>1 DEF DrainClaim
      <4>2. CASE KindOf[j] \in AgentKinds
        BY <3>1, <4>1, <4>2 DEF DrainClaim
      <4>3. CASE KindOf[j] \notin AgentKinds
        BY <3>1, <4>1, <4>3 DEF DrainClaim
      <4> QED BY <4>2, <4>3
    <3>2. CASE DrainClaimUnsettled(l)
      BY <3>2, BoundsAssumption DEF DrainClaimUnsettled
    <3> QED BY <1>1, <3>1, <3>2
  <2>2. [job |-> j, exec |-> None, at |-> a] \in SlotRows
    BY DEF SlotRows, Phases
  <2>3. Lane(j) = l /\ Is(j, "claimed")'
    BY <2>1 DEF ClaimNext, Claimable, Is, RoundsTypeOK, TypeOK, Row
  <2> QED BY <2>1, <2>2, <2>3, RowMoves DEF Moves, TakesRow
<1>2. CASE TakeLease(l)
  <2>1. PICK e \in Launch : MintLease(e)
          /\ slot' = [slot EXCEPT ![l] = [slot[l] EXCEPT !.exec = e, !.at = "leased"]]
    <3>1. PICK e \in Launch : MintLease(e) /\ slot' = [slot EXCEPT ![l].exec = e, ![l].at = "leased"]
      BY <1>2 DEF TakeLease
    <3>2. slot' = [slot EXCEPT ![l] = [slot[l] EXCEPT !.exec = e, !.at = "leased"]]
      BY <3>1 DEF RoundsTypeOK
    <3> QED BY <3>1, <3>2
  <2>2. [slot[l] EXCEPT !.exec = e, !.at = "leased"] \in SlotRows
    BY DEF SlotRows, Phases, RoundsTypeOK
  <2> QED BY <1>2, <2>1, <2>2, RowMoves DEF Moves, TakesLaunch, TakeLease
<1>3. CASE Attach(l)
  <2>1. slot[l].at = "leased" /\ \E b \in {"attached", "failed"} : Become(l, b)
    BY <1>3 DEF Attach, At
  <2> QED BY <2>1, BecomeMoves DEF Arrow, Phases, Ended
<1>4. CASE OpenRound(l) \/ MaterialGone(l)
  <2>1. slot[l].at = "attached" /\ \E b \in {"first", "failed", "hopeless"} : Become(l, b)
    BY <1>4 DEF OpenRound, MaterialGone, At
  <2> QED BY <2>1, BecomeMoves DEF Arrow, Phases, Ended
<1>5. CASE HarnessRefused(l)
  <2>1. slot[l].at = "ended" /\ Become(l, "refused")
    BY <1>5 DEF HarnessRefused, At
  <2> QED BY <2>1, BecomeMoves DEF Arrow, Phases, Ended
<1> QED BY <1>1, <1>2, <1>3, <1>4, <1>5

LEMMA ClosingMoves ==
    ASSUME RoundsTypeOK, NEW l \in Lanes,
           AuthorityLost(l) \/ WorkerFinish(l) \/ WorkerFinishing(l) \/ WorkerAbandons(l)
    PROVE  Moves(l)
<1>1. CASE AuthorityLost(l)
  <2>1. slot[l].at \in {"ended", "reended"} /\ \E b \in {"left", "over"} : Become(l, b)
    BY <1>1 DEF AuthorityLost, At
  <2> QED BY <2>1, BecomeMoves DEF Arrow, Phases, Ended
<1>2. CASE WorkerFinish(l)
  <2>1. \/ slot[l].at = "ended" /\ Become(l, "second")
        \/ slot[l].at = "reended" /\ Become(l, "abandoning")
        \/ slot[l].at \in {"ended", "reended"} /\ Become(l, "finishing")
    BY <1>2 DEF WorkerFinish, At
  <2> QED BY <2>1, BecomeMoves DEF Arrow, Phases, Ended
<1>3. CASE WorkerFinishing(l)
  <2>1. slot[l].at = "finishing" /\ (UNCHANGED slot \/ \E b \in {"left", "over"} : Become(l, b))
    BY <1>3 DEF WorkerFinishing, At
  <2> QED BY <2>1, StillMoves, BecomeMoves DEF Arrow, Phases, Ended
<1>4. CASE WorkerAbandons(l)
  <2>1. slot[l].at = "abandoning" /\ Become(l, "over")
    BY <1>4 DEF WorkerAbandons, At
  <2> QED BY <2>1, BecomeMoves DEF Arrow, Phases, Ended
<1> QED BY <1>1, <1>2, <1>3, <1>4

LEMMA EndingMoves ==
    ASSUME RoundsTypeOK, NEW l \in Lanes,
           EndAttempt(l) \/ RunPlain(l) \/ PlainEnds(l) \/ RideOut(l)
    PROVE  Moves(l)
<1>1. CASE EndAttempt(l)
  <2>1. ~At(l, {"first", "second"})
    BY <1>1 DEF EndAttempt, At, Ended
  <2>2. \/ slot' = [slot EXCEPT ![l] = Idle]
        \/ slot[l].at = "refused" /\ Become(l, "dropping")
        \/ slot[l].at = "failed" /\ slot[l].exec # None /\ Become(l, "parking")
        \/ slot[l].at = "hopeless" /\ Become(l, "failing")
    BY <1>1 DEF EndAttempt, NextRow, RoundIncomplete, HarnessUnavailable, DropRoundDraft, ParkJob,
       FailJob, At
  <2> QED BY <2>1, <2>2, IdleMoves, BecomeMoves DEF Arrow, Phases
<1>2. CASE RunPlain(l)
  <2>1. slot[l].at = "running" /\ Become(l, "ran")
    BY <1>2 DEF RunPlain, At
  <2> QED BY <2>1, BecomeMoves DEF Arrow, Phases
<1>3. CASE PlainEnds(l) \/ RideOut(l)
  <2>1. UNCHANGED slot \/ slot' = [slot EXCEPT ![l] = Idle]
    BY <1>3 DEF PlainEnds, RideOut
  <2> QED BY <1>3, <2>1, StillMoves, IdleMoves DEF PlainEnds, RideOut, At
<1> QED BY <1>1, <1>2, <1>3

LEMMA FaultMoves ==
    ASSUME RoundsTypeOK, NEW l \in Lanes,
           DropLease(l) \/ LeaseLost(l) \/ Outage(l) \/ OutageAtRecord(l) \/ Exception(l)
    PROVE  Moves(l)
<1>1. CASE DropLease(l) \/ LeaseLost(l)
  BY <1>1, StillMoves DEF DropLease, LeaseLost, workerVars
<1>2. CASE Outage(l) \/ OutageAtRecord(l) \/ Exception(l)
  <2>1. slot[l].at \notin {"idle", "first", "second", "riding", "unsettled"}
        /\ \E b \in {"riding", "failed"} : Become(l, b)
    BY <1>2 DEF Outage, OutageAtRecord, Exception, BusyPhases, At
  <2> QED BY <2>1, BecomeMoves DEF Arrow, Phases, Ended
<1> QED BY <1>1, <1>2

LEMMA LaneMoves ==
    ASSUME RoundsTypeOK, NEW l \in Lanes, LaneWork(l) \/ LaneFault(l)
    PROVE  Moves(l)
BY OpeningMoves, ClosingMoves, EndingMoves, FaultMoves DEF LaneWork, LaneFault

\* A harness's exit is its lane's, if its lane still has it.
Exits(e) ==
    /\ slot' \in [Lanes -> SlotRows]
    /\ \A l \in Lanes :
          \/ slot'[l] = slot[l] /\ (slot[l].exec = e => ~At(l, {"first", "second"}))
          \/ slot[l].exec = e /\ At(l, {"first"}) /\ slot'[l] = [slot[l] EXCEPT !.at = "ended"]
          \/ slot[l].exec = e /\ At(l, {"second"}) /\ slot'[l] = [slot[l] EXCEPT !.at = "reended"]

LEMMA HarnessExits ==
    ASSUME RoundsTypeOK, NEW e \in Launch, HarnessExit(e)
    PROVE  Exits(e)
<1>1. slot \in [Lanes -> SlotRows]
  BY DEF RoundsTypeOK, SlotRows
<1>2. ASSUME NEW l \in Lanes
      PROVE  /\ slot'[l] \in SlotRows
             /\ \/ slot'[l] = slot[l] /\ (slot[l].exec = e => ~At(l, {"first", "second"}))
                \/ slot[l].exec = e /\ At(l, {"first"}) /\ slot'[l] = [slot[l] EXCEPT !.at = "ended"]
                \/ slot[l].exec = e /\ At(l, {"second"}) /\ slot'[l] = [slot[l] EXCEPT !.at = "reended"]
  <2>1. slot[l] \in SlotRows /\ [slot[l] EXCEPT !.at = "ended"] \in SlotRows
        /\ [slot[l] EXCEPT !.at = "reended"] \in SlotRows
        /\ slot[l] = [slot[l] EXCEPT !.at = slot[l].at]
    BY <1>1 DEF SlotRows, Phases
  <2>2. slot'[l] = IF slot[l].exec # e THEN slot[l]
                   ELSE [slot[l] EXCEPT !.at = CASE slot[l].at = "first"  -> "ended"
                                                 [] slot[l].at = "second" -> "reended"
                                                 [] OTHER -> slot[l].at]
    BY DEF HarnessExit
  <2>3. CASE slot[l].exec # e
    BY <2>1, <2>2, <2>3
  <2>4. CASE slot[l].exec = e /\ slot[l].at = "first"
    BY <2>1, <2>2, <2>4 DEF At
  <2>5. CASE slot[l].exec = e /\ slot[l].at = "second"
    BY <2>1, <2>2, <2>5 DEF At
  <2>6. CASE slot[l].exec = e /\ slot[l].at \notin {"first", "second"}
    BY <2>1, <2>2, <2>6 DEF At
  <2> QED BY <2>3, <2>4, <2>5, <2>6
<1>3. slot' \in [Lanes -> SlotRows]
  BY <1>2 DEF HarnessExit
<1> QED BY <1>2, <1>3 DEF Exits

-----------------------------------------------------------------------------
(* The shapes and the types. *)

LEMMA GoesShape ==
    ASSUME NEW l, NEW s \in SlotRows, ShapeOf(s, l), NEW b \in Phases, Arrow(s.at, b),
           b = "parking" => s.exec # None
    PROVE  ShapeOf([s EXCEPT !.at = b], l)
<1>1. s.at # "idle" /\ b \notin {"idle", "claimed", "running", "unsettled"}
  BY DEF Arrow
<1>2. s.at \in Launched => s.exec \in Launch /\ s.exec # None
  BY NamesAssumption DEF ShapeOf, Claimer, Executor
<1>3. b \in Launched => s.exec \in Launch
  <2>1. CASE s.at \in Launched \/ b = "parking"
    BY <1>2, <2>1 DEF SlotRows
  <2>2. CASE s.at \notin Launched /\ b # "parking"
    BY <2>2 DEF Arrow, Launched
  <2> QED BY <2>1, <2>2
<1>4. b = "ran" => s.exec = None
  BY DEF Arrow, ShapeOf
<1>5. s.exec # None => KindOf[s.job] \in AgentKinds
  BY DEF ShapeOf
<1>6. s.job \in Job /\ Lane(s.job) = l
  BY <1>1 DEF ShapeOf
<1> QED BY <1>1, <1>3, <1>4, <1>5, <1>6 DEF ShapeOf, SlotRows

LEMMA LaneShapes ==
    ASSUME RoundsTypeOK, Shapes, NEW l \in Lanes, Moves(l)
    PROVE  Shapes'
<1>1. slot[l] \in SlotRows /\ ShapeOf(slot[l], l)
  BY DEF RoundsTypeOK, SlotRows, Shapes
<1>2. ShapeOf(slot'[l], l)
  <2>1. CASE slot'[l] = slot[l]
    BY <1>1, <2>1
  <2>2. CASE Goes(l)
    BY <1>1, <2>2, GoesShape DEF Goes
  <2>3. CASE TakesRow(l)
    BY <2>3 DEF TakesRow, ShapeOf, Launched
  <2>4. CASE TakesLaunch(l)
    <3>1. PICK e \in Launch : At(l, {"claimed"}) /\ slot'[l] = [slot[l] EXCEPT !.exec = e, !.at = "leased"]
      BY <2>4 DEF TakesLaunch
    <3> QED BY <1>1, <3>1 DEF ShapeOf, At, SlotRows, Launched
  <2>5. CASE Leaves(l)
    BY <2>5 DEF Leaves, ShapeOf, Idle, Launched
  <2> QED BY <2>1, <2>2, <2>3, <2>4, <2>5 DEF Moves
<1>3. \A m \in Lanes : m # l => ShapeOf(slot'[m], m)
  BY DEF Moves, Shapes
<1> QED BY <1>2, <1>3 DEF Shapes

LEMMA ExitShapes ==
    ASSUME RoundsTypeOK, Shapes, NEW e \in Launch, Exits(e)
    PROVE  Shapes'
<1> SUFFICES ASSUME NEW l \in Lanes PROVE ShapeOf(slot'[l], l)
  BY DEF Shapes
<1>1. slot[l] \in SlotRows /\ ShapeOf(slot[l], l)
  BY DEF RoundsTypeOK, SlotRows, Shapes
<1>2. ASSUME NEW b \in {"ended", "reended"}, At(l, {"first", "second"}),
             slot'[l] = [slot[l] EXCEPT !.at = b]
      PROVE  ShapeOf(slot'[l], l)
  BY <1>1, <1>2 DEF ShapeOf, At, SlotRows, Launched
<1> QED BY <1>1, <1>2 DEF Exits, At

LEMMA IdleShapes ==
    ASSUME slot' = [l \in Lanes |-> Idle]
    PROVE  slot' \in [Lanes -> SlotRows] /\ Shapes'
BY DEF SlotRows, Idle, Phases, Shapes, ShapeOf, Launched

\* Every step but these four leaves the lanes alone.
Outside ==
    \/ UNCHANGED vars
    \/ Import \/ TimePasses \/ Start \/ SelfHeal \/ StewardResumes
    \/ \E x \in Steward : StewardTypes(x) \/ StewardGoesOn(x) \/ StewardDies(x)
    \/ \E e \in Launch : HarnessPut(e) \/ HarnessAbandon(e)

LEMMA StepParts ==
    ASSUME [RoundsNext]_vars
    PROVE  \/ Outside
           \/ \E l \in Lanes : LaneWork(l) \/ LaneFault(l)
           \/ \E e \in Launch : HarnessExit(e)
           \/ Crash
BY DEF RoundsNext, Outside, HarnessStep

LEMMA OutsideStill ==
    ASSUME Outside
    PROVE  UNCHANGED <<slot, unwritten>> /\ (Start \/ UNCHANGED up)
<1>1. ASSUME NEW x \in Steward, StewardTypes(x) \/ StewardGoesOn(x) \/ StewardDies(x)
      PROVE  UNCHANGED <<slot, unwritten, up>>
  BY <1>1 DEF StewardTypes, StewardGoesOn, StewardDies, StewardOpens, StewardPuts,
     StewardFinishes, StewardAbandons, StewardOpening, StewardFinishing, workerVars
<1>2. ASSUME NEW e \in Launch, HarnessPut(e) \/ HarnessAbandon(e)
      PROVE  UNCHANGED <<slot, unwritten, up>>
  BY <1>2 DEF HarnessPut, HarnessAbandon, workerVars, roundVars
<1>3. ASSUME UNCHANGED vars \/ Import \/ TimePasses \/ Start \/ SelfHeal \/ StewardResumes
      PROVE  UNCHANGED <<slot, unwritten>> /\ (Start \/ UNCHANGED up)
  BY <1>3 DEF vars, roundVars, Import, TimePasses, Start, SelfHeal, StewardResumes, workerVars
<1> QED BY <1>1, <1>2, <1>3 DEF Outside

LEMMA StepShapes ==
    ASSUME RoundsTypeOK, Shapes, [RoundsNext]_vars
    PROVE  slot' \in [Lanes -> SlotRows] /\ Shapes'
<1>1. CASE Outside
  BY <1>1, OutsideStill DEF Shapes, RoundsTypeOK, SlotRows
<1>2. ASSUME NEW l \in Lanes, LaneWork(l) \/ LaneFault(l) PROVE slot' \in [Lanes -> SlotRows] /\ Shapes'
  BY <1>2, LaneMoves, LaneShapes DEF Moves
<1>3. ASSUME NEW e \in Launch, HarnessExit(e) PROVE slot' \in [Lanes -> SlotRows] /\ Shapes'
  BY <1>3, HarnessExits, ExitShapes DEF Exits
<1>4. CASE Crash
  BY <1>4, IdleShapes DEF Crash
<1> QED BY <1>1, <1>2, <1>3, <1>4, StepParts

\* Where nothing runs, no lane is on a row: only a drain takes one.
LEMMA StepDown ==
    ASSUME RoundsTypeOK, Shapes, Down, [RoundsNext]_vars
    PROVE  Down'
<1>1. CASE Outside
  BY <1>1, OutsideStill DEF Down, Start
<1>2. ASSUME NEW l \in Lanes, LaneWork(l) \/ LaneFault(l) PROVE Down'
  <2>1. UNCHANGED up
    BY <1>2 DEF LaneWork, LaneFault, DrainClaim, DrainClaimUnsettled, TakeLease, Attach, OpenRound,
       AuthorityLost, WorkerFinish, WorkerFinishing, WorkerAbandons, DropLease, EndAttempt, RunPlain,
       PlainEnds, RideOut, HarnessRefused, Outage, OutageAtRecord, Exception, MaterialGone, LeaseLost,
       workerVars
  <2>2. CASE up
    BY <2>1, <2>2 DEF Down
  <2>3. CASE ~up
    <3>1. slot[l] = Idle
      BY <2>3 DEF Down
    <3>2. At(l, {"idle"}) /\ slot[l].exec = None /\ ~Alive(None)
      BY <3>1, NamesAssumption DEF Idle, At, Alive, Claimer, Executor
    <3>3. FALSE
      BY <1>2, <2>3, <3>2 DEF LaneWork, LaneFault, DrainClaim, DrainClaimUnsettled, TakeLease,
         Attach, OpenRound, AuthorityLost, WorkerFinish, WorkerFinishing, WorkerAbandons, DropLease,
         EndAttempt, RunPlain, PlainEnds, RideOut, HarnessRefused, Outage, OutageAtRecord, Exception,
         MaterialGone, LeaseLost, At, Ended, BusyPhases
    <3> QED BY <3>3
  <2> QED BY <2>2, <2>3
<1>3. ASSUME NEW e \in Launch, HarnessExit(e) PROVE Down'
  <2>1. Exits(e) /\ UNCHANGED up
    BY <1>3, HarnessExits DEF HarnessExit
  <2> QED BY <2>1 DEF Exits, Down, At, Idle
<1>4. CASE Crash
  BY <1>4 DEF Crash, Down
<1> QED BY <1>1, <1>2, <1>3, <1>4, StepParts

\* The variables no other part of the invariant is about.
Plain ==
    /\ up \in BOOLEAN
    /\ unwritten \in [Job -> Claimer \cup {None}]
    /\ harness \subseteq Launch
    /\ judged \subseteq Source
    /\ imported \in 0 .. Len(Imports) /\ faults \in 0 .. Faults /\ commands \in 0 .. Commands

LEMMA Budgets ==
    ASSUME RoundsTypeOK
    PROVE  /\ Fault => faults' \in 0 .. Faults
           /\ Type => commands' \in 0 .. Commands
           /\ UNCHANGED faults => faults' \in 0 .. Faults
           /\ UNCHANGED commands => commands' \in 0 .. Commands
BY RoundBoundsAssumption DEF RoundsTypeOK, Fault, Type

LEMMA FinishPlain ==
    ASSUME RoundsTypeOK, NEW x,
           \/ \E j \in Job : FinishRefused(x, j) \/ FinishJudged(x, j)
           \/ FinishLands(x) \/ FinishRecords(x) \/ FinishCloses(x) \/ FinishEvicted(x)
    PROVE  judged' \subseteq Source /\ faults' \in 0 .. Faults
<1>1. \A j \in Job : About[j] \subseteq Source
  BY KindsAssumption
<1>2. judged' \in {judged, judged \cup About[command.job]}
      /\ (UNCHANGED judged \/ command.job \in Job)
  BY DEF FinishRefused, FinishJudged, FinishLands, FinishRecords, FinishCloses, FinishEvicted,
     InCommand, RoundsTypeOK
<1>3. Fault \/ UNCHANGED faults
  BY DEF FinishRefused, FinishJudged, FinishLands, FinishRecords, FinishCloses, FinishEvicted
<1> QED BY <1>1, <1>2, <1>3, Budgets DEF RoundsTypeOK

LEMMA LanePlain ==
    ASSUME RoundsTypeOK, Shapes, NEW l \in Lanes, LaneWork(l) \/ LaneFault(l)
    PROVE  Plain'
<1>1. UNCHANGED <<up, imported, commands>>
  BY DEF LaneWork, LaneFault, DrainClaim, DrainClaimUnsettled, TakeLease, Attach, OpenRound,
     AuthorityLost, WorkerFinish, WorkerFinishing, WorkerAbandons, DropLease, EndAttempt, RunPlain,
     PlainEnds, RideOut, HarnessRefused, Outage, OutageAtRecord, Exception, MaterialGone, LeaseLost,
     workerVars, budgetVars
<1>2. judged' \subseteq Source /\ faults' \in 0 .. Faults
  <2>1. CASE WorkerFinish(l)
    <3>1. slot[l].job \in Job
      BY <2>1, LaneType DEF WorkerFinish, At
    <3>2. \/ FinishRefused(slot[l].exec, slot[l].job) \/ FinishJudged(slot[l].exec, slot[l].job)
          \/ UNCHANGED <<judged, faults>>
      BY <2>1 DEF WorkerFinish
    <3> QED BY <3>1, <3>2, FinishPlain, Budgets DEF RoundsTypeOK
  <2>2. CASE WorkerFinishing(l)
    BY <2>2, FinishPlain, Budgets DEF WorkerFinishing, RoundsTypeOK
  <2>3. CASE ~WorkerFinish(l) /\ ~WorkerFinishing(l)
    <3>1. UNCHANGED judged /\ (Fault \/ UNCHANGED faults)
      BY <2>3 DEF LaneWork, LaneFault, DrainClaim, DrainClaimUnsettled, TakeLease, Attach, OpenRound,
         AuthorityLost, WorkerAbandons, DropLease, EndAttempt, RunPlain, PlainEnds, RideOut,
         HarnessRefused, Outage, OutageAtRecord, Exception, MaterialGone, LeaseLost, budgetVars
    <3> QED BY <3>1, Budgets DEF RoundsTypeOK
  <2> QED BY <2>1, <2>2, <2>3
<1>3. harness' \subseteq Launch
  <2>1. CASE OpenRound(l) \/ WorkerFinish(l)
    <3>1. slot[l].exec \in Launch
      BY <2>1, LaneType DEF OpenRound, WorkerFinish, At, Launched
    <3> QED BY <2>1, <3>1 DEF OpenRound, WorkerFinish, RoundsTypeOK
  <2>2. CASE ~OpenRound(l) /\ ~WorkerFinish(l)
    <3>1. UNCHANGED harness
      BY <2>2 DEF LaneWork, LaneFault, DrainClaim, DrainClaimUnsettled, TakeLease, Attach,
         AuthorityLost, WorkerFinishing, WorkerAbandons, DropLease, EndAttempt, RunPlain, PlainEnds,
         RideOut, HarnessRefused, Outage, OutageAtRecord, Exception, MaterialGone, LeaseLost
    <3> QED BY <3>1 DEF RoundsTypeOK
  <2> QED BY <2>1, <2>2
<1>4. unwritten' \in [Job -> Claimer \cup {None}]
  <2>1. CASE OutageAtRecord(l)
    <3>1. slot[l].exec # None => slot[l].exec \in Claimer
      BY LaneType, Names
    <3> QED BY <2>1, <3>1, Names DEF OutageAtRecord, RoundsTypeOK
  <2>2. CASE RideOut(l)
    BY <2>2 DEF RideOut, RoundsTypeOK
  <2>3. CASE ~OutageAtRecord(l) /\ ~RideOut(l)
    <3>1. UNCHANGED unwritten
      BY <2>3 DEF LaneWork, LaneFault, DrainClaim, DrainClaimUnsettled, TakeLease, Attach, OpenRound,
         AuthorityLost, WorkerFinish, WorkerFinishing, WorkerAbandons, DropLease, EndAttempt,
         RunPlain, PlainEnds, HarnessRefused, Outage, Exception, MaterialGone, LeaseLost, workerVars
    <3> QED BY <3>1 DEF RoundsTypeOK
  <2> QED BY <2>1, <2>2, <2>3
<1> QED BY <1>1, <1>2, <1>3, <1>4, Budgets DEF Plain, RoundsTypeOK

LEMMA StewardPlain ==
    ASSUME RoundsTypeOK, NEW x \in Steward, StewardTypes(x) \/ StewardGoesOn(x) \/ StewardDies(x)
    PROVE  Plain'
<1>1. UNCHANGED <<up, unwritten, harness, imported>> /\ (Type \/ UNCHANGED commands)
  BY DEF StewardTypes, StewardGoesOn, StewardDies, StewardOpens, StewardPuts, StewardFinishes,
     StewardAbandons, StewardOpening, StewardFinishing, workerVars, budgetVars
<1>2. judged' \subseteq Source /\ faults' \in 0 .. Faults
  <2>1. CASE StewardFinishes(x) \/ StewardFinishing(x)
    BY <2>1, FinishPlain DEF StewardFinishes, StewardFinishing
  <2>2. CASE ~StewardFinishes(x) /\ ~StewardFinishing(x)
    <3>1. UNCHANGED judged /\ (Fault \/ UNCHANGED faults)
      BY <2>2 DEF StewardTypes, StewardGoesOn, StewardDies, StewardOpens, StewardPuts,
         StewardAbandons, StewardOpening, budgetVars
    <3> QED BY <3>1, Budgets DEF RoundsTypeOK
  <2> QED BY <2>1, <2>2
<1> QED BY <1>1, <1>2, Budgets DEF Plain, RoundsTypeOK

LEMMA StepPlain ==
    ASSUME RoundsTypeOK, Shapes, [RoundsNext]_vars
    PROVE  Plain'
<1>1. ASSUME NEW l \in Lanes, LaneWork(l) \/ LaneFault(l) PROVE Plain'
  BY <1>1, LanePlain
<1>2. ASSUME NEW x \in Steward, StewardTypes(x) \/ StewardGoesOn(x) \/ StewardDies(x) PROVE Plain'
  BY <1>2, StewardPlain
<1>3. ASSUME NEW e \in Launch, HarnessStep(e) PROVE Plain'
  <2>1. /\ UNCHANGED <<up, unwritten, judged, imported, commands>> /\ (Fault \/ UNCHANGED faults)
        /\ harness' \subseteq harness
    BY <1>3 DEF HarnessStep, HarnessPut, HarnessAbandon, HarnessExit, workerVars, roundVars, budgetVars
  <2> QED BY <2>1, Budgets DEF Plain, RoundsTypeOK
<1>4. CASE Import
  <2>1. imported' \in 0 .. Len(Imports) /\ UNCHANGED <<up, unwritten, harness, judged, faults, commands>>
    BY <1>4, ImportsAssumption DEF Import, workerVars, RoundsTypeOK
  <2> QED BY <2>1 DEF Plain, RoundsTypeOK
<1>5. CASE Crash
  <2>1. /\ up' = FALSE /\ unwritten' \in [Job -> Claimer \cup {None}] /\ Fault
        /\ UNCHANGED <<harness, judged, imported, commands>>
    BY <1>5 DEF Crash
  <2> QED BY <2>1, Budgets DEF Plain, RoundsTypeOK
<1>6. CASE UNCHANGED vars \/ TimePasses \/ SelfHeal \/ Start \/ StewardResumes
  <2>1. /\ up' \in BOOLEAN /\ UNCHANGED <<unwritten, harness, judged, imported, faults>>
        /\ Type \/ UNCHANGED commands
    BY <1>6 DEF vars, roundVars, TimePasses, SelfHeal, Start, StewardResumes, workerVars, budgetVars,
       RoundsTypeOK
  <2> QED BY <2>1, Budgets DEF Plain, RoundsTypeOK
<1> QED BY <1>1, <1>2, <1>3, <1>4, <1>5, <1>6 DEF RoundsNext

-----------------------------------------------------------------------------
(* Launches, claims and drafts, whatever the lanes do. *)

LEMMA LaunchesAge ==
    ASSUME TypeOK, [Next]_queueVars, NEW e \in Launch, launch[e] # "unborn"
    PROVE  launch'[e] # "unborn" /\ (launch[e] = "gone" => launch'[e] = "gone")
<1>1. CASE \E f \in Launch : MintLease(f)
  BY <1>1 DEF MintLease, TypeOK
<1>2. CASE \E es \in SUBSET Launch : DropLeases(es)
  BY <1>2 DEF DropLeases, TypeOK
<1>3. CASE UNCHANGED launch
  BY <1>3
<1>4. CASE \E j \in Job : RowStep(j) \/ DraftStep(j)
  BY <1>3, <1>4 DEF RowStep, DraftStep, Enqueue, ClaimNext, Claim, AttachExecutor, Park, Complete,
     Release, ResumeJob, WaitElapses, Put, Delete, Abandon, DraftAges
<1>5. CASE \/ \E rows \in SUBSET Job : RequeueClaimed(rows)
           \/ \E x \in Executor : Lock(x) \/ Unlock(x)
           \/ UNCHANGED queueVars
  BY <1>3, <1>5 DEF RequeueClaimed, Lock, Unlock, queueVars
<1> QED BY <1>1, <1>2, <1>4, <1>5 DEF Next

\* An executor claims only agents' rows, and a launch only once it is minted.
LEMMA StepClaims ==
    ASSUME TypeOK, Claims, Calls
    PROVE  Claims'
<1> SUFFICES ASSUME NEW j \in Job, job'[j].by \in Executor
             PROVE  KindOf[j] \in AgentKinds
                    /\ (job'[j].by \in Launch => launch'[job'[j].by] # "unborn")
  BY DEF Claims, Born
<1>1. job'[j].by \notin {None, Worker}
  BY NamesAssumption DEF Claimer
<1>2. CASE job'[j].by = job[j].by
  <2>1. KindOf[j] \in AgentKinds /\ (job[j].by \in Launch => launch[job[j].by] # "unborn")
    BY <1>2 DEF Claims, Born
  <2> QED BY <1>2, <2>1, LaunchesAge DEF Calls
<1>3. CASE job'[j].by # job[j].by
  <2>1. KindOf[j] \in AgentKinds /\ (job'[j].by \in Launch => Alive(job'[j].by))
    BY <1>1, <1>3 DEF Calls, HandsOver
  <2>2. job'[j].by \in Launch => launch[job'[j].by] # "unborn"
    BY <2>1 DEF Alive
  <2> QED BY <2>1, <2>2, LaunchesAge DEF Calls
<1> QED BY <1>2, <1>3

LEMMA StepDrafts ==
    ASSUME TypeOK, Claims, Drafts, Calls
    PROVE  Drafts'
<1> SUFFICES ASSUME NEW j \in Job, draft'[j] # None
             PROVE  KindOf[j] \in AgentKinds
                    /\ (draft'[j].owner \in Launch => launch'[draft'[j].owner] # "unborn")
  BY DEF Drafts, Born
<1>1. CASE draft[j] # None /\ draft'[j].owner = draft[j].owner
  <2>1. KindOf[j] \in AgentKinds /\ (draft[j].owner \in Launch => launch[draft[j].owner] # "unborn")
    BY <1>1 DEF Drafts, Born
  <2> QED BY <1>1, <2>1, LaunchesAge DEF Calls
<1>2. ASSUME NEW x \in Executor, NEW adopt \in BOOLEAN, NEW body \in Bodies, Put(x, j, adopt, body)
      PROVE  KindOf[j] \in AgentKinds
             /\ (draft'[j].owner \in Launch => launch'[draft'[j].owner] # "unborn")
  <2>1. draft'[j].owner = x /\ job[j].by = x
    BY <1>2 DEF Put, MayPut, TypeOK
  <2>2. KindOf[j] \in AgentKinds /\ (x \in Launch => launch[x] # "unborn")
    BY <2>1 DEF Claims, Born
  <2> QED BY <2>1, <2>2, LaunchesAge DEF Calls
<1>3. LetsGo \/ \E k \in Job : Takes(k) \/ Writes(k)
  BY StepKinds DEF Calls
<1>4. CASE LetsGo \/ \E k \in Job : Takes(k)
  BY <1>1, <1>4 DEF LetsGo, Takes
<1>5. ASSUME NEW k \in Job, Writes(k)
      PROVE  k = j \/ draft'[j] = draft[j]
  BY <1>5 DEF Writes, Put, TypeOK
<1> QED BY <1>1, <1>2, <1>3, <1>4, <1>5 DEF Writes

LEMMA StepFree ==
    ASSUME TypeOK, Free, [Next]_queueVars
    PROVE  Free'
<1>1. ASSUME UNCHANGED job PROVE Free'
  BY <1>1 DEF Free, Is
<1>2. ASSUME NEW j \in Job, RowStep(j) PROVE Free'
  <2>1. \A k \in Job \ {j} : job'[k] = job[k]
    BY <1>2 DEF RowStep, Enqueue, ClaimNext, Claim, AttachExecutor, Park, Complete, Update,
       Release, ResumeJob, WaitElapses, TypeOK
  <2> DEFINE Fine == Is(j, "claimed")' \/ Is(j, "done")' \/ job'[j].by = None
  <2>2. job[j] \in Row
    BY DEF TypeOK
  <2>3. ASSUME NEW at \in Job, Enqueue(j, at) PROVE Fine
    <3>1. job'[j].by = job[j].by /\ ~Is(j, "claimed") /\ ~Is(j, "done")
      BY <2>2, <2>3 DEF Enqueue, Is, TypeOK, Row
    <3> QED BY <3>1 DEF Free
  <2>4. ASSUME \/ \E lanes \in (SUBSET Lanes) \ {{}}, skip \in Skips : ClaimNext(j, lanes, skip)
               \/ \E x \in Claimer : Claim(j, x)
               \/ \E e \in Launch : AttachExecutor(j, e)
        PROVE  Fine
    BY <2>2, <2>4 DEF ClaimNext, Claim, AttachExecutor, CanAttach, Is, TypeOK, Row
  <2>5. ASSUME NEW by, Park(j, by) PROVE Fine
    BY <2>2, <2>5 DEF Park, Update, Is, TypeOK, Row, Free
  <2>6. ASSUME NEW by, NEW who, Complete(j, by, who) PROVE Fine
    BY <2>2, <2>6 DEF Complete, Update, Is, TypeOK, Row, Free
  <2>7. ASSUME Release(j) \/ ResumeJob(j) PROVE Fine
    BY <2>2, <2>7 DEF Release, ResumeJob, Is, TypeOK, Row
  <2>8. ASSUME WaitElapses(j) PROVE Fine
    BY <2>2, <2>8 DEF WaitElapses, Is, TypeOK, Row, Free
  <2>9. Fine
    BY <1>2, <2>3, <2>4, <2>5, <2>6, <2>7, <2>8 DEF RowStep
  <2> QED BY <2>1, <2>9 DEF Free, Is
<1>3. ASSUME NEW j \in Job, DraftStep(j) PROVE Free'
  <2>1. CASE \E x \in Executor, takeOver \in BOOLEAN : Abandon(x, j, takeOver)
    BY <2>1 DEF Abandon, Update, Free, Is, TypeOK, Row
  <2>2. CASE UNCHANGED job
    BY <1>1, <2>2
  <2> QED BY <1>3, <2>1, <2>2 DEF DraftStep, Put, Delete, DraftAges
<1>4. ASSUME NEW rows, RequeueClaimed(rows) PROVE Free'
  BY <1>4 DEF RequeueClaimed, Free, Is, TypeOK, Row
<1>5. CASE \/ \E x \in Executor : Lock(x) \/ Unlock(x)
           \/ \E e \in Launch : MintLease(e)
           \/ \E es \in SUBSET Launch : DropLeases(es)
           \/ UNCHANGED queueVars
  BY <1>1, <1>5 DEF Lock, Unlock, MintLease, DropLeases, queueVars
<1> QED BY <1>2, <1>3, <1>4, <1>5 DEF Next

\* A draft is marked to be continued by the self-heal alone, which frees its row, and a
\* marked draft's owner and body stay.
LEMMA Marks ==
    ASSUME TypeOK, Free, [Next]_queueVars, NEW j \in Job, draft'[j] # None, draft'[j].kept
    PROVE  /\ draft[j] # None /\ draft'[j].owner = draft[j].owner /\ draft'[j].body = draft[j].body
           /\ draft[j].kept \/ (Continuable(j) /\ job'[j].by = None)
<1>1. CASE draft'[j] = draft[j]
  BY <1>1
<1>2. ASSUME NEW k \in Job, RowStep(k) PROVE UNCHANGED draft
  BY <1>2 DEF RowStep, Enqueue, ClaimNext, Claim, AttachExecutor, Park, Complete, Release,
     ResumeJob, WaitElapses
<1>3. ASSUME NEW k \in Job, DraftStep(k)
      PROVE  \/ draft'[j] = draft[j]
             \/ /\ draft[j] # None /\ draft[j].kept /\ draft'[j].owner = draft[j].owner
                /\ draft'[j].body = draft[j].body
  <2>1. draft \in [Job -> Draft \cup {None}]
    BY DEF TypeOK
  <2>2. CASE \E x \in Executor, adopt \in BOOLEAN, body \in Bodies : Put(x, k, adopt, body)
    BY <2>1, <2>2 DEF Put
  <2>3. CASE \/ \E x \in Executor : Delete(x, k)
             \/ \E x \in Executor, takeOver \in BOOLEAN : Abandon(x, k, takeOver)
    BY <2>1, <2>3 DEF Delete, Abandon
  <2>4. CASE DraftAges(k)
    BY <2>1, <2>4 DEF DraftAges, Draft
  <2> QED BY <1>3, <2>2, <2>3, <2>4 DEF DraftStep
<1>4. ASSUME NEW rows \in SUBSET Job, RequeueClaimed(rows)
      PROVE  \/ draft'[j] = draft[j]
             \/ /\ draft[j] # None /\ draft'[j].owner = draft[j].owner
                /\ draft'[j].body = draft[j].body /\ Continuable(j) /\ job'[j].by = None
  <2>1. draft'[j] = draft[j]
        \/ (j \in rows /\ Orphaned(j) /\ Continuable(j) /\ draft'[j] = [draft[j] EXCEPT !.kept = TRUE])
    BY <1>4 DEF RequeueClaimed
  <2>2. CASE j \in rows /\ Orphaned(j) /\ Continuable(j) /\ draft'[j] = [draft[j] EXCEPT !.kept = TRUE]
    <3>1. draft[j] # None /\ draft[j] \in Draft
      BY <2>2 DEF Continuable, TypeOK
    <3>2. draft'[j].owner = draft[j].owner /\ draft'[j].body = draft[j].body
      BY <2>2, <3>1 DEF Draft
    <3>3. job'[j].by = None
      <4>1. CASE Is(j, "claimed")
        BY <1>4, <2>2, <4>1 DEF RequeueClaimed, TypeOK, Row
      <4>2. CASE ~Is(j, "claimed")
        <5>1. job[j].by = None
          BY <2>2, <4>2 DEF Orphaned, Free, Is
        <5>2. job'[j] = job[j]
          BY <1>4, <4>2 DEF RequeueClaimed
        <5> QED BY <5>1, <5>2
      <4> QED BY <4>1, <4>2
    <3> QED BY <2>2, <3>1, <3>2, <3>3
  <2> QED BY <2>1, <2>2
<1>5. CASE \/ \E x \in Executor : Lock(x) \/ Unlock(x)
           \/ \E e \in Launch : MintLease(e)
           \/ \E es \in SUBSET Launch : DropLeases(es)
           \/ UNCHANGED queueVars
  BY <1>1, <1>5 DEF Lock, Unlock, MintLease, DropLeases, queueVars
<1> QED BY <1>1, <1>2, <1>3, <1>4, <1>5 DEF Next

LEMMA StepKept ==
    ASSUME TypeOK, Free, Drafts, KeptIsNobodys, Calls
    PROVE  KeptIsNobodys'
<1> SUFFICES ASSUME NEW j \in Job, draft'[j] # None, draft'[j].kept
             PROVE  /\ draft'[j].owner \in Launch /\ launch'[draft'[j].owner] # "live"
                    /\ HoldsWork(j)' /\ job'[j].by # draft'[j].owner
  BY DEF KeptIsNobodys, Adoptable, Alive
<1>1. /\ draft[j] # None /\ draft'[j].owner = draft[j].owner /\ draft'[j].body = draft[j].body
      /\ draft[j].kept \/ (Continuable(j) /\ job'[j].by = None)
  BY Marks DEF Calls
<1>2. draft[j].owner \in Launch /\ launch[draft[j].owner] # "live" /\ HoldsWork(j)
  BY <1>1 DEF KeptIsNobodys, Adoptable, Alive, Continuable, Holder
<1>3. launch[draft[j].owner] = "gone"
  BY <1>1, <1>2 DEF Drafts, Born, TypeOK
<1>4. launch'[draft[j].owner] = "gone"
  BY <1>2, <1>3, LaunchesAge DEF Calls
<1>5. HoldsWork(j)'
  BY <1>1, <1>2 DEF HoldsWork
<1>6. job'[j].by # draft[j].owner
  <2>1. draft[j].owner \notin {None, Worker}
    BY <1>2, NamesAssumption DEF Claimer, Executor
  <2>2. ~Alive(draft[j].owner)
    BY <1>2 DEF Alive
  <2>3. CASE draft[j].kept
    BY <1>1, <1>2, <2>1, <2>2, <2>3 DEF KeptIsNobodys, Calls, HandsOver
  <2> QED BY <1>1, <2>1, <2>3
<1> QED BY <1>1, <1>2, <1>4, <1>5, <1>6

-----------------------------------------------------------------------------
(* Launches and lanes. *)

LEMMA LaneLaunches ==
    ASSUME NEW l \in Lanes, LaneWork(l) \/ LaneFault(l)
    PROVE  \/ UNCHANGED launch
           \/ TakeLease(l)
           \/ ~At(l, {"leased"}) /\ DropLeases({slot[l].exec}) /\ UNCHANGED slot
<1>1. CASE DropLease(l) \/ LeaseLost(l)
  BY <1>1 DEF DropLease, LeaseLost, workerVars, At, Ended
<1>2. CASE \/ DrainClaim(l) \/ Attach(l) \/ OpenRound(l) \/ AuthorityLost(l) \/ WorkerAbandons(l)
           \/ RunPlain(l) \/ PlainEnds(l) \/ RideOut(l)
  BY <1>2 DEF DrainClaim, Attach, OpenRound, AuthorityLost, WorkerAbandons, RunPlain, PlainEnds,
     RideOut, ClaimNext, AttachExecutor, Put, Delete, Abandon, Enqueue, Complete, RequeueClaimed,
     queueVars
<1>3. CASE \/ DrainClaimUnsettled(l) \/ HarnessRefused(l) \/ Outage(l) \/ OutageAtRecord(l)
           \/ Exception(l) \/ MaterialGone(l)
  BY <1>3 DEF DrainClaimUnsettled, HarnessRefused, Outage, OutageAtRecord, Exception, MaterialGone,
     ClaimNext, Complete, queueVars
<1>4. CASE WorkerFinish(l) \/ WorkerFinishing(l)
  BY <1>4 DEF WorkerFinish, WorkerFinishing, FinishRefused, FinishJudged, FinishLands,
     FinishRecords, FinishCloses, Put, Lock, Complete, Park, Delete, queueVars
<1>5. CASE EndAttempt(l)
  BY <1>5 DEF EndAttempt, RoundIncomplete, HarnessUnavailable, DropRoundDraft, ParkJob, FailJob,
     DropDraft, Park, Complete, Delete, queueVars
<1> QED BY <1>1, <1>2, <1>3, <1>4, <1>5 DEF LaneWork, LaneFault

LEMMA LaneHarness ==
    ASSUME NEW l \in Lanes, LaneWork(l) \/ LaneFault(l)
    PROVE  \/ UNCHANGED harness
           \/ /\ OpenRound(l) \/ WorkerFinish(l)
              /\ harness' = harness \cup {slot[l].exec}
              /\ Become(l, "first") \/ Become(l, "second")
<1>1. CASE OpenRound(l) \/ WorkerFinish(l)
  BY <1>1 DEF OpenRound, WorkerFinish
<1>2. CASE ~OpenRound(l) /\ ~WorkerFinish(l)
  BY <1>2 DEF LaneWork, LaneFault, DrainClaim, DrainClaimUnsettled, TakeLease, Attach,
     AuthorityLost, WorkerFinishing, WorkerAbandons, DropLease, EndAttempt, RunPlain, PlainEnds,
     RideOut, HarnessRefused, Outage, OutageAtRecord, Exception, MaterialGone, LeaseLost
<1> QED BY <1>1, <1>2

LEMMA OutsideLaunches ==
    ASSUME Outside
    PROVE  UNCHANGED <<launch, harness>>
<1>1. ASSUME NEW x \in Steward, StewardTypes(x) \/ StewardGoesOn(x) \/ StewardDies(x)
      PROVE  UNCHANGED <<launch, harness>>
  BY <1>1 DEF StewardTypes, StewardGoesOn, StewardDies, StewardOpens, StewardPuts,
     StewardFinishes, StewardAbandons, StewardOpening, StewardFinishing, FinishJudged, FinishLands,
     FinishRecords, FinishCloses, FinishEvicted, Claim, Put, Lock, Unlock, Release, Complete, Park,
     Delete, Abandon, queueVars
<1>2. ASSUME NEW e \in Launch, HarnessPut(e) \/ HarnessAbandon(e) PROVE UNCHANGED <<launch, harness>>
  BY <1>2 DEF HarnessPut, HarnessAbandon, Put, Abandon, roundVars
<1>3. ASSUME UNCHANGED vars \/ Import \/ TimePasses \/ Start \/ SelfHeal \/ StewardResumes
      PROVE  UNCHANGED <<launch, harness>>
  BY <1>3 DEF vars, queueVars, roundVars, Import, TimePasses, Start, SelfHeal, StewardResumes,
     Enqueue, WaitElapses, DraftAges, RequeueClaimed, ResumeJob
<1> QED BY <1>1, <1>2, <1>3 DEF Outside

LEMMA StepLeases ==
    ASSUME RoundsTypeOK, Shapes, Leases, Calls, [RoundsNext]_vars
    PROVE  Leases'
<1>t. TypeOK /\ \A l \in Lanes : slot[l].exec \in Launch \cup {None} /\ None \notin Launch
  BY LaneType, Names DEF RoundsTypeOK
<1> DEFINE Minted(x) == x \in Launch => launch'[x] # "unborn"
<1> DEFINE Lives(x) == x \in Launch /\ launch'[x] = "live"
<1> DEFINE Held(s) == Minted(s.exec) /\ (s.at = "leased" => Lives(s.exec))
<1>a. \A e \in Launch : launch[e] # "unborn" => launch'[e] # "unborn"
  BY <1>t, LaunchesAge DEF Calls
<1>b. \A x : Born(x) => Minted(x)
  BY <1>a DEF Born
<1>1. CASE Outside
  BY <1>1, OutsideStill, OutsideLaunches DEF Leases, Born, At, Alive
<1>2. ASSUME NEW l \in Lanes, LaneWork(l) \/ LaneFault(l) PROVE Leases'
  <2>1. Moves(l)
    BY <1>2, LaneMoves
  <2>2. \A e \in harness' : Born(e)'
    <3>1. slot[l].exec \in Launch => Born(slot[l].exec)
      BY DEF Leases
    <3>2. harness' \subseteq harness \cup {slot[l].exec}
      BY <1>2, LaneHarness
    <3> QED BY <1>b, <3>1, <3>2 DEF Leases, Born
  <2>3. CASE TakesLaunch(l)
    <3>1. PICK e \in Launch : MintLease(e) /\ slot'[l] = [slot[l] EXCEPT !.exec = e, !.at = "leased"]
      BY <2>3 DEF TakesLaunch
    <3>2. slot'[l].exec = e /\ launch'[e] = "live" /\ launch[e] = "unborn"
      BY <3>1, <1>t DEF MintLease, TypeOK, RoundsTypeOK
    <3>3. \A m \in Lanes : m # l => slot'[m] = slot[m] /\ slot[m].exec # e
      BY <2>1, <3>2 DEF Moves, Leases, Born
    <3>4. \A m \in Lanes : Held(slot'[m])
      <4>1. \A f \in Launch : launch[f] = "live" => launch'[f] = "live"
        BY <3>1, <1>t DEF MintLease, TypeOK
      <4>2. ASSUME NEW m \in Lanes, m # l
            PROVE  Held(slot'[m])
        BY <1>a, <3>3, <4>1, <4>2 DEF Leases, Born, At, Alive
      <4>3. Held(slot'[l])
        BY <3>2 DEF Born, Alive
      <4> QED BY <4>2, <4>3
    <3>5. \A m, n \in Lanes : slot'[m].exec = slot'[n].exec /\ slot'[m].exec # None => m = n
      BY <3>2, <3>3 DEF Leases
    <3> QED BY <2>2, <3>4, <3>5 DEF Leases, Born, Alive, At
  <2>4. CASE ~TakesLaunch(l)
    <3>1. slot'[l].exec \in {slot[l].exec, None} /\ (slot'[l].at = "leased" => slot'[l] = slot[l])
      <4>1. CASE slot'[l] = slot[l]
        BY <4>1
      <4>2. CASE Goes(l)
        <5>1. PICK b \in Phases : slot'[l] = [slot[l] EXCEPT !.at = b] /\ Arrow(slot[l].at, b)
          BY <4>2 DEF Goes
        <5>2. slot'[l].exec = slot[l].exec /\ slot'[l].at = b
          BY <5>1 DEF RoundsTypeOK
        <5>3. b # "leased"
          BY <5>1 DEF Arrow
        <5> QED BY <5>2, <5>3
      <4>3. CASE TakesRow(l) \/ Leaves(l)
        <5>1. CASE Leaves(l)
          BY <5>1 DEF Leaves, Idle
        <5>2. CASE TakesRow(l)
          <6>1. PICK j \in Job, a \in {"claimed", "running", "unsettled"} :
                  slot'[l] = [job |-> j, exec |-> None, at |-> a]
            BY <5>2 DEF TakesRow
          <6> QED BY <6>1
        <5> QED BY <4>3, <5>1, <5>2
      <4> QED BY <2>1, <2>4, <4>1, <4>2, <4>3 DEF Moves
    <3>2. \A m \in Lanes : m # l => slot'[m] = slot[m]
      BY <2>1 DEF Moves
    <3>3. \A m, n \in Lanes : slot'[m].exec = slot'[n].exec /\ slot'[m].exec # None => m = n
      BY <3>1, <3>2 DEF Leases
    <3>4. \A m \in Lanes : Minted(slot'[m].exec)
      BY <1>a, <1>t, <3>1, <3>2 DEF Leases, Born
    <3>5. ASSUME NEW m \in Lanes, slot'[m].at = "leased" PROVE Lives(slot'[m].exec)
      <4>1. slot'[m] = slot[m] /\ Alive(slot[m].exec) /\ At(m, {"leased"})
        BY <3>1, <3>2, <3>5 DEF Leases, At
      <4>2. CASE UNCHANGED launch
        BY <4>1, <4>2 DEF Alive
      <4>3. CASE ~At(l, {"leased"}) /\ DropLeases({slot[l].exec})
        <5>1. m # l
          BY <4>1, <4>3
        <5>2. slot[m].exec # None
          BY <4>1, Names DEF Alive
        <5>3. slot[m].exec # slot[l].exec
          BY <5>1, <5>2 DEF Leases
        <5> QED BY <4>1, <4>3, <5>3 DEF DropLeases, Alive
      <4>4. CASE TakeLease(l)
        <5>1. PICK f \in Launch : MintLease(f)
          BY <4>4 DEF TakeLease
        <5> QED BY <1>t, <4>1, <5>1 DEF MintLease, Alive, TypeOK
      <4> QED BY <1>2, <4>2, <4>3, <4>4, LaneLaunches
    <3> QED BY <2>2, <3>3, <3>4, <3>5 DEF Leases, Born, Alive, At
  <2> QED BY <2>3, <2>4
<1>3. ASSUME NEW e \in Launch, HarnessExit(e) PROVE Leases'
  <2>1. Exits(e) /\ UNCHANGED launch /\ harness' \subseteq harness
    BY <1>3, HarnessExits DEF HarnessExit, queueVars
  <2>2. \A l \in Lanes : slot'[l].exec = slot[l].exec
                         /\ (slot'[l].at = "leased" => slot[l].at = "leased")
    BY <2>1, <1>t DEF Exits, RoundsTypeOK
  <2> QED BY <2>1, <2>2 DEF Leases, Born, Alive, At
<1>4. CASE Crash
  BY <1>4, <1>b, NamesAssumption DEF Crash, Leases, Idle, At, Born, Claimer, Executor
<1> QED BY <1>1, <1>2, <1>3, <1>4, StepParts

-----------------------------------------------------------------------------
(* The command lock.  A step of a lane leaves it alone, takes it for the    *)
(* lane's launch, goes on inside that launch's command, or gives it back.   *)

CommandRows == [job : Job, step : {"opening", "judged", "committed", "noop", "aborted", "closing"}]

Keeps(l) ==
    /\ UNCHANGED <<lock, command>>
    /\ slot[l].at \in Holding \/ slot'[l].at \in Holding => slot'[l] = slot[l]
    /\ lock = None \/ UNCHANGED draft

GivesBack(l) ==
    /\ lock \in {None, slot[l].exec} /\ lock' = None /\ command' = None
    /\ slot'[l].at \notin Holding

TakesLock(l) ==
    /\ lock = None /\ lock' = slot[l].exec /\ slot[l].exec \in Launch
    /\ slot'[l].exec = slot[l].exec
    /\ \/ slot'[l].at \in {"parking", "failing"} /\ UNCHANGED command
       \/ /\ slot'[l].at = "finishing"
          /\ \E j \in Job : /\ command' = [job |-> j, step |-> "judged"]
                            /\ KindOf[j] \in AgentKinds /\ draft'[j] # None

GoesOn(l) ==
    /\ slot[l].at = "finishing" /\ UNCHANGED <<slot, lock>> /\ lock = slot[l].exec
    /\ command # None
    /\ \E step \in {"committed", "noop", "aborted", "closing"} : Proceed(step)

Locking(l) == Keeps(l) \/ GivesBack(l) \/ TakesLock(l) \/ GoesOn(l)

LEMMA OpeningLock ==
    ASSUME RoundsTypeOK, Shapes, Commanding, NEW l \in Lanes,
           \/ DrainClaim(l) \/ DrainClaimUnsettled(l) \/ TakeLease(l) \/ Attach(l) \/ OpenRound(l)
           \/ HarnessRefused(l) \/ MaterialGone(l)
    PROVE  Locking(l)
<1>1. slot[l] \in SlotRows /\ slot \in [Lanes -> SlotRows]
  BY DEF RoundsTypeOK, SlotRows
<1>2. UNCHANGED <<lock, command>>
  BY DEF DrainClaim, DrainClaimUnsettled, TakeLease, Attach, OpenRound, HarnessRefused, MaterialGone,
     ClaimNext, MintLease, queueVars
<1>3. lock = None \/ UNCHANGED draft
  BY DEF DrainClaim, DrainClaimUnsettled, TakeLease, Attach, OpenRound, HarnessRefused, MaterialGone,
     ClaimNext, MintLease, queueVars
<1>4. slot[l].at \notin Holding
  BY DEF DrainClaim, DrainClaimUnsettled, TakeLease, Attach, OpenRound, HarnessRefused, MaterialGone,
     At, Holding
<1>5. slot'[l].at \notin Holding
  <2>1. CASE DrainClaim(l) \/ DrainClaimUnsettled(l)
    <3>1. PICK j \in Job, a \in {"claimed", "running", "unsettled"} :
            slot' = [slot EXCEPT ![l] = [job |-> j, exec |-> None, at |-> a]]
      BY <2>1 DEF DrainClaim, DrainClaimUnsettled
    <3> QED BY <1>1, <3>1 DEF Holding
  <2>2. CASE TakeLease(l)
    <3>1. PICK e \in Launch : slot' = [slot EXCEPT ![l].exec = e, ![l].at = "leased"]
      BY <2>2 DEF TakeLease
    <3> QED BY <1>1, <3>1 DEF Holding, SlotRows
  <2>3. CASE Attach(l) \/ OpenRound(l) \/ HarnessRefused(l) \/ MaterialGone(l)
    <3>1. \E b \in {"attached", "first", "failed", "refused", "hopeless"} : Become(l, b)
      BY <2>3 DEF Attach, OpenRound, HarnessRefused, MaterialGone
    <3> QED BY <1>1, <3>1 DEF Become, Holding, SlotRows
  <2> QED BY <2>1, <2>2, <2>3
<1> QED BY <1>2, <1>3, <1>4, <1>5 DEF Locking, Keeps

LEMMA Became ==
    ASSUME RoundsTypeOK, NEW l \in Lanes, NEW b \in Phases, Become(l, b)
    PROVE  slot'[l].at = b /\ slot'[l].exec = slot[l].exec
BY DEF RoundsTypeOK, Become

LEMMA Idled ==
    ASSUME RoundsTypeOK, NEW l \in Lanes, slot' = [slot EXCEPT ![l] = Idle]
    PROVE  slot'[l].at = "idle"
BY DEF RoundsTypeOK, Idle

\* A judged finish has a draft, of a kind agents run.
LEMMA JudgedHasDraft ==
    ASSUME RoundsTypeOK, Drafts, NEW x \in Executor, NEW j \in Job, FinishJudged(x, j)
    PROVE  /\ lock = None /\ lock' = x /\ command' = [job |-> j, step |-> "judged"]
           /\ KindOf[j] \in AgentKinds /\ draft'[j] # None
<1>1. lock = None /\ lock' = x /\ command' = [job |-> j, step |-> "judged"] /\ Owns(x, j)
  BY DEF FinishJudged
<1>2. KindOf[j] \in AgentKinds
  BY <1>1 DEF Drafts, Owns
<1>3. CASE UNCHANGED draft
  BY <1>1, <1>2, <1>3 DEF Owns
<1>4. CASE Put(x, j, FALSE, draft[j].body)
  <2>1. draft[j].body \in Bodies
    BY <1>1, BodyType DEF RoundsTypeOK, Owns
  <2>2. draft'[j] = [owner |-> x, kept |-> FALSE, body |-> draft[j].body, age |-> "fresh"]
    BY <1>4 DEF Put, RoundsTypeOK, TypeOK
  <2>3. draft'[j] \in Draft
    BY <2>1, <2>2 DEF Draft
  <2> QED BY <1>1, <1>2, <2>3, NoDraftAssumption
<1> QED BY <1>3, <1>4 DEF FinishJudged, Lock

LEMMA ClosingLock ==
    ASSUME RoundsTypeOK, Shapes, Commanding, Drafts, NEW l \in Lanes,
           AuthorityLost(l) \/ WorkerFinish(l) \/ WorkerFinishing(l) \/ WorkerAbandons(l)
    PROVE  Locking(l)
<1>1. /\ slot[l].job \in Job /\ slot[l].exec \in Launch /\ slot[l].exec \in Executor
      /\ slot[l].exec # None
  BY LaneType DEF AuthorityLost, WorkerFinish, WorkerFinishing, WorkerAbandons, At, Launched
<1>2. CASE AuthorityLost(l) \/ WorkerAbandons(l)
  <2>1. /\ lock = None /\ lock' = None /\ UNCHANGED command
        /\ slot[l].at \notin Holding /\ \E b \in {"left", "over"} : Become(l, b)
    BY <1>2 DEF AuthorityLost, WorkerAbandons, At, Holding, queueVars
  <2> QED BY <2>1, Became DEF Locking, Keeps, Holding, Phases, Ended
<1>3. CASE WorkerFinish(l)
  <2>1. lock = None /\ slot[l].at \in {"ended", "reended"} /\ Owns(slot[l].exec, slot[l].job)
    BY <1>3 DEF WorkerFinish, At
  <2>2. CASE \/ FinishRefused(slot[l].exec, slot[l].job) /\ Become(l, "second")
             \/ FinishRefused(slot[l].exec, slot[l].job) /\ Become(l, "abandoning")
             \/ UNCHANGED <<queueVars, command>> /\ Become(l, "second")
    <3>1. lock' = None /\ UNCHANGED command
      BY <2>1, <2>2 DEF FinishRefused, queueVars
    <3>2. slot'[l].at \notin Holding
      BY <2>2, Became DEF Holding, Phases
    <3> QED BY <2>1, <3>1, <3>2 DEF Locking, Keeps, Holding
  <2>3. CASE FinishJudged(slot[l].exec, slot[l].job) /\ Become(l, "finishing")
    <3>1. /\ lock' = slot[l].exec /\ command' = [job |-> slot[l].job, step |-> "judged"]
          /\ KindOf[slot[l].job] \in AgentKinds /\ draft'[slot[l].job] # None
      BY <1>1, <2>3, JudgedHasDraft
    <3>2. slot'[l].at = "finishing" /\ slot'[l].exec = slot[l].exec
      BY <2>3, Became DEF Phases
    <3> QED BY <1>1, <2>1, <3>1, <3>2 DEF Locking, TakesLock
  <2> QED BY <1>3, <2>2, <2>3 DEF WorkerFinish, queueVars
<1>4. CASE WorkerFinishing(l)
  <2>1. slot[l].at = "finishing" /\ lock = slot[l].exec /\ lock # None
    BY <1>1, <1>4 DEF WorkerFinishing, At, Commanding, Holding
  <2>2. CASE FinishLands(slot[l].exec) /\ UNCHANGED slot
    <3>1. command # None /\ lock' = lock
          /\ \E step \in {"committed", "noop", "aborted"} : Proceed(step)
      BY <2>1, <2>2 DEF FinishLands, InCommand, queueVars
    <3> QED BY <2>1, <2>2, <3>1 DEF Locking, GoesOn
  <2>3. CASE FinishRecords(slot[l].exec) /\ UNCHANGED slot
    <3>1. command # None /\ lock' = lock /\ Proceed("closing")
      BY <2>1, <2>3 DEF FinishRecords, InCommand
    <3> QED BY <2>1, <2>3, <3>1 DEF Locking, GoesOn
  <2>4. CASE lock' = None /\ command' = None /\ \E b \in {"over", "left"} : Become(l, b)
    BY <2>1, <2>4, Became DEF Locking, GivesBack, Holding, Phases, Ended
  <2> QED BY <1>4, <2>2, <2>3, <2>4 DEF WorkerFinishing, FinishCloses
<1> QED BY <1>2, <1>3, <1>4

LEMMA EndingLock ==
    ASSUME RoundsTypeOK, Shapes, Commanding, NEW l \in Lanes,
           EndAttempt(l) \/ RunPlain(l) \/ PlainEnds(l) \/ RideOut(l)
    PROVE  Locking(l)
<1>0. lock = None => command = None
  BY DEF Commanding
<1>1. UNCHANGED command
  BY DEF EndAttempt, RunPlain, PlainEnds, RideOut
<1>2. CASE RunPlain(l) \/ PlainEnds(l) \/ RideOut(l)
  <2>1. slot[l].at \notin Holding
    BY <1>2 DEF RunPlain, PlainEnds, RideOut, At, Holding
  <2>2. UNCHANGED lock /\ (lock = None \/ UNCHANGED draft)
    BY <1>2 DEF RunPlain, PlainEnds, RideOut, Enqueue, Complete, RequeueClaimed, queueVars
  <2>3. Become(l, "ran") \/ UNCHANGED slot \/ slot' = [slot EXCEPT ![l] = Idle]
    BY <1>2 DEF RunPlain, PlainEnds, RideOut
  <2>4. slot'[l].at \notin Holding
    BY <2>1, <2>3, Became, Idled DEF Holding, Phases
  <2> QED BY <1>1, <2>1, <2>2, <2>4 DEF Locking, Keeps
<1>3. CASE EndAttempt(l)
  <2>1. CASE At(l, {"over", "left", "refused"}) \/ (At(l, {"failed"}) /\ slot[l].exec = None)
             \/ At(l, {"dropping"})
    <3>1. UNCHANGED lock /\ (lock = None \/ UNCHANGED draft)
      BY <1>3, <2>1 DEF EndAttempt, RoundIncomplete, HarnessUnavailable, DropRoundDraft, ParkJob,
         FailJob, DropDraft, Park, Complete, At, queueVars
    <3>2. slot' = [slot EXCEPT ![l] = Idle] \/ Become(l, "dropping")
      BY <1>3, <2>1 DEF EndAttempt, RoundIncomplete, HarnessUnavailable, DropRoundDraft, ParkJob,
         FailJob, NextRow, At
    <3>3. slot[l].at \notin Holding /\ slot'[l].at \notin Holding
      BY <2>1, <3>2, Became, Idled DEF At, Holding, Phases
    <3> QED BY <1>1, <3>1, <3>3 DEF Locking, Keeps
  <2>2. CASE (At(l, {"failed"}) /\ slot[l].exec # None) \/ At(l, {"hopeless"})
    <3>1. lock = None /\ lock' = slot[l].exec /\ (Become(l, "parking") \/ Become(l, "failing"))
      BY <1>3, <2>2 DEF EndAttempt, RoundIncomplete, HarnessUnavailable, DropRoundDraft, ParkJob,
         FailJob, At
    <3>2. slot[l].exec \in Launch
      BY <2>2, LaneType DEF At, Launched
    <3>3. slot'[l].at \in {"parking", "failing"} /\ slot'[l].exec = slot[l].exec
      BY <3>1, Became DEF Phases
    <3> QED BY <1>1, <3>1, <3>2, <3>3 DEF Locking, TakesLock
  <2>3. CASE At(l, {"parking", "failing"})
    <3>1. lock = slot[l].exec /\ command = None
      BY <2>3 DEF Commanding, At, Holding
    <3>2. lock' = None /\ slot' = [slot EXCEPT ![l] = Idle]
      BY <1>3, <2>3 DEF EndAttempt, RoundIncomplete, HarnessUnavailable, DropRoundDraft, ParkJob,
         FailJob, DropDraft, NextRow, At
    <3> QED BY <1>1, <3>1, <3>2, Idled DEF Locking, GivesBack, Holding
  <2> QED BY <1>3, <2>1, <2>2, <2>3 DEF EndAttempt, RoundIncomplete, HarnessUnavailable,
          DropRoundDraft, ParkJob, FailJob, At
<1> QED BY <1>2, <1>3

LEMMA FaultLock ==
    ASSUME RoundsTypeOK, Shapes, Commanding, NEW l \in Lanes,
           DropLease(l) \/ LeaseLost(l) \/ Outage(l) \/ OutageAtRecord(l) \/ Exception(l)
    PROVE  Locking(l)
<1>0. lock = None => command = None
  BY DEF Commanding
<1>1. CASE DropLease(l) \/ LeaseLost(l)
  BY <1>1 DEF DropLease, LeaseLost, DropLeases, workerVars, Locking, Keeps
<1>2. CASE Outage(l) \/ OutageAtRecord(l) \/ Exception(l)
  <2>1. CommandLost(slot[l].exec) /\ UNCHANGED draft /\ (Become(l, "riding") \/ Become(l, "failed"))
    BY <1>2 DEF Outage, OutageAtRecord, Exception, Complete
  <2>2. slot'[l].at \notin Holding
    BY <2>1, Became DEF Holding, Phases, Ended
  <2>3. CASE lock = slot[l].exec
    BY <2>1, <2>2, <2>3 DEF CommandLost, Locking, GivesBack
  <2>4. CASE lock # slot[l].exec
    <3>1. slot[l].at \notin Holding
      BY <2>4 DEF Commanding, At
    <3> QED BY <2>1, <2>2, <2>4, <3>1 DEF CommandLost, Locking, Keeps
  <2> QED BY <2>3, <2>4
<1> QED BY <1>1, <1>2

LEMMA LaneLocking ==
    ASSUME RoundsTypeOK, Shapes, Commanding, Drafts, NEW l \in Lanes, LaneWork(l) \/ LaneFault(l)
    PROVE  Locking(l)
BY OpeningLock, ClosingLock, EndingLock, FaultLock DEF LaneWork, LaneFault

\* What a lane's step does to the lock leaves what the lock says true of every lane.
LEMMA LaneHolds ==
    ASSUME RoundsTypeOK, Shapes, Leases, Commanding, NEW l \in Lanes, Moves(l), Locking(l)
    PROVE  /\ \A m \in Lanes : At(m, Holding)' => lock' = slot'[m].exec
           /\ \A m \in Lanes : At(m, {"parking", "failing"})' => command' = None
           /\ lock' \in Launch => \E m \in Lanes : slot'[m].exec = lock' /\ At(m, Holding)'
<1>1. \A m \in Lanes : At(m, Holding) => slot[m].exec \in Launch /\ lock = slot[m].exec
  BY LaneType DEF Commanding, At, Holding, Launched
<1>2. None \notin Launch
  BY NamesAssumption DEF Claimer, Executor
<1>3. \A m \in Lanes : m # l => slot'[m] = slot[m]
  BY DEF Moves
<1>4. \A m \in Lanes : At(m, {"parking", "failing"}) => command = None
  BY DEF Commanding
<1>5. CASE Keeps(l)
  <2>1. lock' = lock /\ command' = command
    BY <1>5 DEF Keeps
  <2>2. \A m \in Lanes : At(m, Holding) \/ At(m, Holding)' => slot'[m] = slot[m]
    BY <1>3, <1>5 DEF Keeps, At
  <2>3. \A m \in Lanes : At(m, Holding)' => lock' = slot'[m].exec
    BY <1>1, <2>1, <2>2 DEF At
  <2>4. \A m \in Lanes : At(m, {"parking", "failing"})' => command' = None
    BY <1>4, <2>1, <2>2 DEF At, Holding
  <2>5. lock' \in Launch => \E m \in Lanes : slot'[m].exec = lock' /\ At(m, Holding)'
    <3>1. lock \in Launch => \E m \in Lanes : slot[m].exec = lock /\ At(m, Holding)
      BY DEF Commanding
    <3> QED BY <2>1, <2>2, <3>1 DEF At
  <2> QED BY <2>3, <2>4, <2>5
<1>6. CASE GivesBack(l)
  <2>1. \A m \in Lanes : ~At(m, Holding)'
    <3>1. SUFFICES ASSUME NEW m \in Lanes, At(m, Holding)' PROVE FALSE
      OBVIOUS
    <3>2. m # l
      BY <1>6, <3>1 DEF GivesBack, At
    <3>3. slot[m].exec \in Launch /\ lock = slot[m].exec
      BY <1>1, <1>3, <3>1, <3>2 DEF At
    <3>4. slot[m].exec = slot[l].exec
      BY <1>2, <1>6, <3>3 DEF GivesBack
    <3> QED BY <1>2, <3>2, <3>3, <3>4 DEF Leases
  <2> QED BY <1>2, <1>6, <2>1 DEF GivesBack, At
<1>7. CASE TakesLock(l)
  <2>1. \A m \in Lanes : m # l => ~At(m, Holding)'
    BY <1>1, <1>2, <1>3, <1>7 DEF TakesLock, At
  <2>2. lock' = slot'[l].exec /\ At(l, Holding)'
        /\ (At(l, {"parking", "failing"})' => command' = None)
    BY <1>7 DEF TakesLock, At, Holding, Commanding
  <2> QED BY <2>1, <2>2 DEF At, Holding
<1>8. CASE GoesOn(l)
  <2>1. UNCHANGED <<slot, lock>> /\ command # None
    BY <1>8 DEF GoesOn
  <2>2. \A m \in Lanes : ~At(m, {"parking", "failing"})
    BY <1>4, <2>1
  <2>3. lock \in Launch => \E m \in Lanes : slot[m].exec = lock /\ At(m, Holding)
    BY DEF Commanding
  <2> QED BY <1>1, <2>1, <2>2, <2>3 DEF At
<1> QED BY <1>5, <1>6, <1>7, <1>8 DEF Locking

\* A command has a lock, a row agents run and, once judged, that row's draft.
Commanded ==
    /\ command \in CommandRows \cup {None}
    /\ command # None => /\ lock # None
                         /\ KindOf[command.job] \in AgentKinds
                         /\ command.step = "judged" => draft[command.job] # None

LEMMA CommandGoesOn ==
    ASSUME RoundsTypeOK, Commanded, command # None, lock' # None,
           NEW step \in {"committed", "noop", "aborted", "closing"}, Proceed(step)
    PROVE  Commanded'
<1>1. command \in CommandRows
  BY DEF Commanded
<1>2. /\ command'.job = command.job /\ command'.step = step /\ command' \in CommandRows
  BY <1>1 DEF Proceed, CommandRows
<1> QED BY <1>2 DEF Commanded

LEMMA NoCommand == ASSUME command' = None PROVE Commanded'
BY DEF Commanded

LEMMA CommandBegins ==
    ASSUME NEW j \in Job, NEW step \in {"opening", "judged"}, command' = [job |-> j, step |-> step],
           lock' # None, KindOf[j] \in AgentKinds, step = "judged" => draft'[j] # None
    PROVE  Commanded'
<1>1. command' \in CommandRows
  BY DEF CommandRows
<1> QED BY <1>1 DEF Commanded

LEMMA LaneCommanded ==
    ASSUME RoundsTypeOK, Commanded, NEW l \in Lanes, Locking(l)
    PROVE  Commanded'
<1>1. CASE Keeps(l)
  BY <1>1 DEF Keeps, Commanded
<1>2. CASE GivesBack(l)
  BY <1>2, NoCommand DEF GivesBack
<1>3. CASE TakesLock(l)
  <2>1. lock' # None
    BY <1>3, NamesAssumption DEF TakesLock, Claimer, Executor
  <2>2. CASE UNCHANGED command
    BY <1>3, <2>2, NoCommand DEF TakesLock, Commanded
  <2> QED BY <1>3, <2>1, <2>2, CommandBegins DEF TakesLock
<1>4. CASE GoesOn(l)
  BY <1>4, CommandGoesOn DEF GoesOn, Commanded
<1> QED BY <1>1, <1>2, <1>3, <1>4 DEF Locking

\* A harness runs while its lane waits for it to exit.
Waiting == \A l \in Lanes : slot[l].exec \in harness => At(l, {"first", "second"})

LEMMA LaneWaiting ==
    ASSUME RoundsTypeOK, Shapes, Leases, Waiting, NEW l \in Lanes, LaneWork(l) \/ LaneFault(l), Moves(l)
    PROVE  Waiting'
<1>1. \A m \in Lanes : m # l => slot'[m] = slot[m]
  BY DEF Moves
<1>2. None \notin harness /\ slot[l] \in SlotRows
  BY NamesAssumption DEF RoundsTypeOK, Claimer, Executor, SlotRows
<1>3. CASE UNCHANGED harness
  <2>1. SUFFICES slot'[l].exec \in harness => slot'[l].at \in {"first", "second"}
    BY <1>1, <1>3 DEF Waiting, At
  <2>2. CASE slot'[l] = slot[l]
    BY <1>3, <2>2 DEF Waiting, At
  <2>3. CASE Goes(l)
    <3>1. slot'[l].exec = slot[l].exec /\ ~At(l, {"first", "second"})
      BY <1>2, <2>3 DEF Goes, Arrow, At, SlotRows
    <3> QED BY <1>3, <3>1 DEF Waiting
  <2>4. CASE TakesRow(l)
    <3>1. slot'[l].exec = None
      BY <2>4 DEF TakesRow
    <3> QED BY <1>2, <1>3, <3>1
  <2>6. CASE Leaves(l)
    <3>1. slot'[l].exec = None
      BY <2>6 DEF Leaves, Idle
    <3> QED BY <1>2, <1>3, <3>1
  <2>5. CASE TakesLaunch(l)
    <3>1. PICK e \in Launch : launch[e] = "unborn" /\ slot'[l].exec = e
      BY <1>2, <2>5 DEF TakesLaunch, MintLease, SlotRows
    <3> QED BY <1>3, <3>1 DEF Leases, Born
  <2> QED BY <2>2, <2>3, <2>4, <2>5, <2>6 DEF Moves
<1>4. CASE harness' # harness
  <2>1. /\ OpenRound(l) \/ WorkerFinish(l)
        /\ harness' = harness \cup {slot[l].exec}
        /\ Become(l, "first") \/ Become(l, "second")
    BY <1>4, LaneHarness
  <2>2. slot[l].exec # None
    BY <2>1, LaneType DEF OpenRound, WorkerFinish, At, Launched
  <2>3. slot'[l].at \in {"first", "second"}
    BY <2>1, Became DEF Phases
  <2>4. \A m \in Lanes : m # l => slot[m].exec # slot[l].exec
    BY <2>2 DEF Leases
  <2> QED BY <1>1, <2>1, <2>3, <2>4 DEF Waiting, At
<1> QED BY <1>3, <1>4

\* A Steward's command is its own: no launch holds the lock before or after one of its steps.
LEMMA StewardCommanded ==
    ASSUME RoundsTypeOK, Commanded, Drafts, NEW x \in Steward,
           StewardTypes(x) \/ StewardGoesOn(x) \/ StewardDies(x)
    PROVE  lock \notin Launch /\ lock' \notin Launch /\ Commanded'
<1>1. x \in Executor /\ x \notin Launch /\ x # None /\ None \notin Launch
  BY NamesAssumption DEF Claimer, Executor
<1>2. CASE StewardOpens(x)
  <2>1. PICK j \in Job : KindOf[j] \in AgentKinds /\ lock' = x
                         /\ command' = [job |-> j, step |-> "opening"]
    BY <1>2 DEF StewardOpens
  <2>2. lock = None
    BY <1>2 DEF StewardOpens
  <2> QED BY <1>1, <2>1, <2>2, CommandBegins
<1>3. CASE StewardPuts(x) \/ StewardAbandons(x)
  <2>1. lock = None /\ lock' = None /\ UNCHANGED command
    BY <1>3 DEF StewardPuts, StewardAbandons
  <2> QED BY <1>1, <2>1, NoCommand DEF Commanded
<1>4. CASE StewardFinishes(x)
  <2>1. PICK j \in Job : FinishJudged(x, j)
    BY <1>4 DEF StewardFinishes
  <2>2. /\ lock = None /\ lock' = x /\ command' = [job |-> j, step |-> "judged"]
        /\ KindOf[j] \in AgentKinds /\ draft'[j] # None
    BY <1>1, <2>1, JudgedHasDraft
  <2> QED BY <1>1, <2>2, CommandBegins
<1>5. CASE StewardOpening(x)
  BY <1>1, <1>5, NoCommand DEF StewardOpening, InCommand
<1>6. CASE StewardFinishing(x)
  <2>1. lock = x /\ command # None
    BY <1>6 DEF StewardFinishing, FinishLands, FinishEvicted, FinishRecords, FinishCloses, InCommand
  <2>2. CASE FinishLands(x) \/ FinishRecords(x)
    <3>1. lock' = x /\ \E step \in {"committed", "noop", "aborted", "closing"} : Proceed(step)
      BY <2>1, <2>2 DEF FinishLands, FinishRecords, queueVars
    <3> QED BY <1>1, <2>1, <3>1, CommandGoesOn
  <2>3. CASE FinishEvicted(x) \/ FinishCloses(x)
    BY <1>1, <2>1, <2>3, NoCommand DEF FinishEvicted, FinishCloses, Unlock
  <2> QED BY <1>6, <2>2, <2>3 DEF StewardFinishing
<1>7. CASE StewardDies(x)
  BY <1>1, <1>7, NoCommand DEF StewardDies, Unlock
<1> QED BY <1>2, <1>3, <1>4, <1>5, <1>6, <1>7 DEF StewardTypes, StewardGoesOn

\* Whatever else happens outside the lanes leaves the lock and a running command's draft.
LEMMA OutsideCommanded ==
    ASSUME RoundsTypeOK, Commanded, Commanding,
           \/ UNCHANGED vars
           \/ Import \/ TimePasses \/ Start \/ SelfHeal \/ StewardResumes
           \/ \E e \in Launch : HarnessPut(e) \/ HarnessAbandon(e)
    PROVE  UNCHANGED <<lock, command>> /\ Commanded'
<1>1. lock = None => command = None
  BY DEF Commanded
<1>2. CASE UNCHANGED vars \/ Import \/ StewardResumes
  <2>1. UNCHANGED <<lock, command, draft>>
    BY <1>2 DEF vars, queueVars, roundVars, Import, Enqueue, StewardResumes, ResumeJob
  <2> QED BY <2>1 DEF Commanded
<1>3. CASE Start \/ SelfHeal
  <2>1. UNCHANGED <<lock, command>> /\ (lock = None \/ UNCHANGED draft)
    BY <1>3 DEF Start, SelfHeal, RequeueClaimed, roundVars, queueVars
  <2> QED BY <1>1, <2>1 DEF Commanded
<1>4. CASE TimePasses
  <2>1. UNCHANGED <<lock, command>>
    BY <1>4 DEF TimePasses, WaitElapses, DraftAges, roundVars
  <2>2. \A k \in Job : draft[k] # None => draft'[k] # None
    <3>1. ASSUME NEW j \in Job, DraftAges(j) PROVE \A k \in Job : draft[k] # None => draft'[k] # None
      <4>1. TypeOK' /\ draft[j] # None
        BY <3>1, DraftAgesType DEF RoundsTypeOK, DraftAges
      <4>2. draft[j] \in Draft
        BY <4>1, BodyType DEF RoundsTypeOK
      <4>3. draft' = [draft EXCEPT ![j] = [draft[j] EXCEPT !.age = IF draft[j].age = "fresh" THEN "idle" ELSE "stale"]]
        BY <3>1 DEF DraftAges
      <4>4. [draft[j] EXCEPT !.age = IF draft[j].age = "fresh" THEN "idle" ELSE "stale"] \in Draft
        BY <4>2 DEF Draft
      <4> QED BY <4>3, <4>4, NoDraftAssumption DEF RoundsTypeOK, TypeOK
    <3> QED BY <1>4, <3>1 DEF TimePasses, WaitElapses
  <2>3. command # None => command.job \in Job
    BY DEF Commanded, CommandRows
  <2> QED BY <2>1, <2>2, <2>3 DEF Commanded
<1>5. ASSUME NEW e \in Launch, HarnessPut(e) \/ HarnessAbandon(e)
      PROVE  UNCHANGED <<lock, command>> /\ Commanded'
  <2>1. lock # e
    BY <1>5 DEF Commanding, HarnessPut, HarnessAbandon, At, Holding
  <2>2. lock = None /\ lock' = None /\ UNCHANGED command
    BY <1>5, <2>1 DEF HarnessPut, HarnessAbandon, Put, UnderLock, roundVars
  <2> QED BY <1>1, <2>2, NoCommand DEF Commanded
<1> QED BY <1>2, <1>3, <1>4, <1>5

LEMMA StepCommanding ==
    ASSUME RoundsTypeOK, Shapes, Leases, Commanding, Drafts, [RoundsNext]_vars
    PROVE  Commanding' /\ command' \in CommandRows \cup {None}
<1>1. Commanded /\ Waiting /\ None \notin Launch
  BY NamesAssumption DEF RoundsTypeOK, Commanding, Commanded, CommandRows, Waiting, Claimer, Executor
<1>2. \A m \in Lanes : At(m, Holding) => slot[m].exec \in Launch /\ lock = slot[m].exec
  BY LaneType DEF Commanding, At, Holding, Launched
<1>3. lock \in Launch => \E m \in Lanes : slot[m].exec = lock /\ At(m, Holding)
  BY DEF Commanding
<1>4. ASSUME NEW l \in Lanes, LaneWork(l) \/ LaneFault(l)
      PROVE  Commanding' /\ command' \in CommandRows \cup {None}
  <2>1. Moves(l) /\ Locking(l)
    BY <1>4, LaneMoves, LaneLocking
  <2>2. Waiting' /\ Commanded'
    BY <1>1, <1>4, <2>1, LaneWaiting, LaneCommanded
  <2> QED BY <2>1, <2>2, LaneHolds DEF Commanding, Commanded, Waiting
<1>5. CASE Outside
  <2>1. UNCHANGED <<slot, harness>>
    BY <1>5, OutsideStill, OutsideLaunches
  <2>2. ASSUME NEW x \in Steward, StewardTypes(x) \/ StewardGoesOn(x) \/ StewardDies(x)
        PROVE  Commanding' /\ command' \in CommandRows \cup {None}
    <3>1. lock \notin Launch /\ lock' \notin Launch /\ Commanded'
      BY <1>1, <2>2, StewardCommanded
    <3>2. \A m \in Lanes : ~At(m, Holding)
      BY <1>2, <3>1
    <3> QED BY <1>1, <2>1, <3>1, <3>2 DEF Commanding, Commanded, Waiting, At, Holding
  <2>3. CASE \/ UNCHANGED vars
             \/ Import \/ TimePasses \/ Start \/ SelfHeal \/ StewardResumes
             \/ \E e \in Launch : HarnessPut(e) \/ HarnessAbandon(e)
    <3>1. UNCHANGED <<lock, command>> /\ Commanded'
      BY <1>1, <2>3, OutsideCommanded
    <3> QED BY <1>1, <2>1, <3>1 DEF Commanding, Commanded, Waiting, At
  <2> QED BY <1>5, <2>2, <2>3 DEF Outside
<1>6. ASSUME NEW e \in Launch, HarnessExit(e)
      PROVE  Commanding' /\ command' \in CommandRows \cup {None}
  <2>1. Exits(e) /\ UNCHANGED <<draft, lock, command>> /\ harness' = harness \ {e}
    BY <1>6, HarnessExits DEF HarnessExit, queueVars
  <2>2. \A l \in Lanes : At(l, Holding) \/ At(l, Holding)' => slot'[l] = slot[l]
    BY <2>1 DEF Exits, At, Holding, SlotRows
  <2>3. Waiting'
    <3>1. SUFFICES ASSUME NEW l \in Lanes, slot'[l].exec \in harness' PROVE At(l, {"first", "second"})'
      BY DEF Waiting
    <3>2. slot[l] \in SlotRows
      BY DEF RoundsTypeOK, SlotRows
    <3>3. slot[l].exec = slot'[l].exec
      BY <2>1, <3>2 DEF Exits, SlotRows
    <3>4. slot'[l] = slot[l]
      BY <2>1, <3>1, <3>3 DEF Exits
    <3> QED BY <1>1, <2>1, <3>1, <3>4 DEF Waiting, At
  <2>4. Commanded'
    BY <1>1, <2>1 DEF Commanded
  <2>5. \A m \in Lanes : At(m, {"parking", "failing"}) => command = None
    BY DEF Commanding
  <2> QED BY <1>2, <1>3, <2>1, <2>2, <2>3, <2>4, <2>5 DEF Commanding, Commanded, Waiting, At, Holding
<1>7. CASE Crash
  <2>1. /\ \A l \in Lanes : slot'[l] = Idle
        /\ UNCHANGED <<draft, harness>>
        /\ lock' \notin Launch /\ (command' = None \/ UNCHANGED <<lock, command>>)
    BY <1>1, <1>7 DEF Crash, DropLeases
  <2>2. Commanded'
    BY <1>1, <2>1, NoCommand DEF Commanded
  <2>3. Waiting'
    BY <1>1, <2>1 DEF Waiting, Idle, RoundsTypeOK
  <2> QED BY <2>1, <2>2, <2>3 DEF Commanding, Commanded, Waiting, At, Holding, Idle
<1> QED BY <1>4, <1>5, <1>6, <1>7, StepParts

-----------------------------------------------------------------------------
(* Completions kept from landing, and the rows a lane runs itself. *)

LEMMA LaneUnwritten ==
    ASSUME RoundsTypeOK, NEW l \in Lanes, LaneWork(l) \/ LaneFault(l)
    PROVE  \/ UNCHANGED unwritten /\ (At(l, {"riding"}) => UNCHANGED slot)
           \/ OutageAtRecord(l)
           \/ /\ UNCHANGED slot
              /\ \E j \in Job : unwritten' = [unwritten EXCEPT ![j] = None]
           \/ UNCHANGED unwritten /\ \A j \in Job : unwritten[j] = None
<1>1. CASE \/ DrainClaim(l) \/ DrainClaimUnsettled(l) \/ TakeLease(l) \/ Attach(l) \/ OpenRound(l)
           \/ HarnessRefused(l) \/ MaterialGone(l) \/ RunPlain(l) \/ PlainEnds(l)
  BY <1>1 DEF DrainClaim, DrainClaimUnsettled, TakeLease, Attach, OpenRound, HarnessRefused,
     MaterialGone, RunPlain, PlainEnds, At
<1>2. CASE \/ AuthorityLost(l) \/ WorkerFinish(l) \/ WorkerFinishing(l) \/ WorkerAbandons(l)
           \/ Outage(l) \/ Exception(l)
  BY <1>2 DEF AuthorityLost, WorkerFinish, WorkerFinishing, WorkerAbandons, Outage, Exception,
     BusyPhases, At
<1>3. CASE DropLease(l) \/ LeaseLost(l)
  BY <1>3 DEF DropLease, LeaseLost, workerVars
<1>4. CASE EndAttempt(l)
  <2>1. UNCHANGED unwritten /\ ~At(l, {"riding"})
    BY <1>4 DEF EndAttempt, RoundIncomplete, HarnessUnavailable, DropRoundDraft, ParkJob, FailJob, At
  <2> QED BY <2>1
<1>5. CASE RideOut(l)
  BY <1>5 DEF RideOut
<1> QED BY <1>1, <1>2, <1>3, <1>4, <1>5 DEF LaneWork, LaneFault

LEMMA StepUnwritten ==
    ASSUME RoundsTypeOK, Shapes, Unwritten, [RoundsNext]_vars
    PROVE  Unwritten'
<1>1. CASE Outside
  BY <1>1, OutsideStill DEF Unwritten, At
<1>2. ASSUME NEW l \in Lanes, LaneWork(l) \/ LaneFault(l) PROVE Unwritten'
  <2>1. \A m \in Lanes : m # l => slot'[m] = slot[m]
    BY <1>2, LaneMoves DEF Moves
  <2>2. CASE UNCHANGED unwritten /\ (At(l, {"riding"}) => UNCHANGED slot)
    BY <2>1, <2>2 DEF Unwritten, At
  <2>3. CASE OutageAtRecord(l)
    <3>1. ~At(l, {"riding"}) /\ slot[l] \in SlotRows
      BY <2>3 DEF OutageAtRecord, At, RoundsTypeOK, SlotRows
    <3>2. slot'[l].at = "riding" /\ slot'[l].job = slot[l].job
      BY <2>3, <3>1 DEF OutageAtRecord, Become, RoundsTypeOK, SlotRows
    <3>3. \A j \in Job : j # slot[l].job => unwritten'[j] = unwritten[j]
      BY <2>3 DEF OutageAtRecord, RoundsTypeOK
    <3> QED BY <2>1, <3>1, <3>2, <3>3 DEF Unwritten, At
  <2>4. CASE UNCHANGED slot /\ \E j \in Job : unwritten' = [unwritten EXCEPT ![j] = None]
    BY <2>4 DEF Unwritten, At, RoundsTypeOK
  <2>5. CASE UNCHANGED unwritten /\ \A j \in Job : unwritten[j] = None
    BY <2>5 DEF Unwritten
  <2> QED BY <1>2, <2>2, <2>3, <2>4, <2>5, LaneUnwritten
<1>3. ASSUME NEW e \in Launch, HarnessExit(e) PROVE Unwritten'
  <2>1. Exits(e) /\ UNCHANGED unwritten
    BY <1>3, HarnessExits DEF HarnessExit
  <2> QED BY <2>1 DEF Exits, Unwritten, At
<1>4. CASE Crash
  BY <1>4 DEF Crash, Unwritten
<1> QED BY <1>1, <1>2, <1>3, <1>4, StepParts

\* Only an operation that names a claimed row ends its claim.
LEMMA OthersStay ==
    ASSUME TypeOK, NEW j \in Job, NEW k \in Job, k # j, Is(k, "claimed"),
           \/ \E by : Park(j, by)
           \/ \E by, who : Complete(j, by, who)
           \/ Release(j)
           \/ \E x, takeOver : Abandon(x, j, takeOver)
    PROVE  Is(k, "claimed")'
<1>1. job' = job \/ \E row : job' = [job EXCEPT ![j] = row]
  <2>1. CASE Release(j)
    <3>1. job' = [job EXCEPT ![j] = [job[j] EXCEPT !.status = "queued", !.by = None]]
      BY <2>1 DEF Release, TypeOK
    <3> QED BY <3>1
  <2>2. CASE \E by : Park(j, by)
    BY <2>2 DEF Park, Update
  <2>3. CASE (\E by, who : Complete(j, by, who)) \/ (\E x, takeOver : Abandon(x, j, takeOver))
    BY <2>3 DEF Complete, Abandon, Update
  <2> QED BY <2>1, <2>2, <2>3
<1> QED BY <1>1 DEF Is, TypeOK

LEMMA ClaimsStay ==
    ASSUME TypeOK, NEW k \in Job, Is(k, "claimed"),
           \/ \E j \in Job :
                 \/ \E at \in Job : Enqueue(j, at)
                 \/ \E lanes, skip : ClaimNext(j, lanes, skip)
                 \/ \E x : Claim(j, x)
                 \/ \E e : AttachExecutor(j, e)
                 \/ ResumeJob(j) \/ WaitElapses(j) \/ DraftAges(j)
           \/ \E x, j, adopt, body : Put(x, j, adopt, body)
           \/ \E x, j : Delete(x, j)
           \/ \E x : Lock(x) \/ Unlock(x)
           \/ \E e : MintLease(e)
           \/ \E es : DropLeases(es)
           \/ UNCHANGED job
    PROVE  Is(k, "claimed")'
<1>1. CASE UNCHANGED job
  BY <1>1 DEF Is
<1>2. CASE \/ \E x, j, adopt, body : Put(x, j, adopt, body)
           \/ \E x, j : Delete(x, j)
           \/ \E x : Lock(x) \/ Unlock(x)
           \/ \E e : MintLease(e)
           \/ \E es : DropLeases(es)
  BY <1>1, <1>2 DEF Put, Delete, Lock, Unlock, MintLease, DropLeases
<1>3. ASSUME NEW j \in Job,
             \/ \E at \in Job : Enqueue(j, at)
             \/ \E lanes, skip : ClaimNext(j, lanes, skip)
             \/ \E x : Claim(j, x)
             \/ \E e : AttachExecutor(j, e)
             \/ ResumeJob(j) \/ WaitElapses(j) \/ DraftAges(j)
      PROVE  Is(k, "claimed")'
  <2>1. CASE \E at \in Job : Enqueue(j, at)
    BY <2>1 DEF Enqueue, Is, TypeOK, Row
  <2>2. CASE \E lanes, skip : ClaimNext(j, lanes, skip)
    BY <2>2 DEF ClaimNext, Claimable, Is, TypeOK, Row
  <2>3. CASE (\E x : Claim(j, x)) \/ ResumeJob(j)
    BY <2>3 DEF Claim, ResumeJob, Is, TypeOK, Row
  <2>4. CASE (\E e : AttachExecutor(j, e)) \/ WaitElapses(j) \/ DraftAges(j)
    BY <2>4 DEF AttachExecutor, WaitElapses, DraftAges, Is, TypeOK, Row
  <2> QED BY <1>3, <2>1, <2>2, <2>3, <2>4
<1> QED BY <1>1, <1>2, <1>3

\* Outside the lanes only agents' rows lose their claims, but for a self-heal's.
LEMMA StewardSpares ==
    ASSUME RoundsTypeOK, Commanding, Drafts, NEW k \in Job, Is(k, "claimed"), KindOf[k] \notin AgentKinds,
           NEW x \in Steward, StewardTypes(x) \/ StewardGoesOn(x) \/ StewardDies(x)
    PROVE  Is(k, "claimed")'
<1>1. command # None => command.job \in Job /\ command.job # k
  BY DEF Commanding, RoundsTypeOK
<1>2. CASE StewardOpens(x) \/ StewardPuts(x) \/ StewardFinishes(x) \/ StewardDies(x)
  BY <1>2, ClaimsStay DEF StewardOpens, StewardPuts, StewardFinishes, StewardDies, FinishJudged, RoundsTypeOK
<1>3. CASE StewardAbandons(x)
  <2>1. PICK j \in Job, takeOver \in BOOLEAN : Abandon(x, j, takeOver)
    BY <1>3 DEF StewardAbandons
  <2>2. j # k
    BY <2>1 DEF Abandon, Drafts
  <2> QED BY <2>1, <2>2, OthersStay DEF RoundsTypeOK
<1>4. CASE StewardOpening(x)
  BY <1>1, <1>4, OthersStay, ClaimsStay DEF StewardOpening, InCommand, RoundsTypeOK
<1>5. CASE StewardFinishing(x)
  <2>1. CASE FinishRecords(x)
    BY <1>1, <2>1, OthersStay DEF FinishRecords, InCommand, RoundsTypeOK
  <2>2. CASE FinishLands(x) \/ FinishEvicted(x) \/ FinishCloses(x)
    BY <2>2, ClaimsStay DEF FinishLands, FinishEvicted, FinishCloses, queueVars, RoundsTypeOK
  <2> QED BY <1>5, <2>1, <2>2 DEF StewardFinishing
<1> QED BY <1>2, <1>3, <1>4, <1>5 DEF StewardTypes, StewardGoesOn

LEMMA WorldSpares ==
    ASSUME RoundsTypeOK, Drafts, NEW k \in Job, Is(k, "claimed"), KindOf[k] \notin AgentKinds,
           \/ UNCHANGED vars
           \/ Import \/ TimePasses \/ StewardResumes
           \/ \E e \in Launch : HarnessStep(e)
    PROVE  Is(k, "claimed")'
<1>1. CASE UNCHANGED vars \/ TimePasses \/ StewardResumes
  BY <1>1, ClaimsStay DEF TimePasses, StewardResumes, vars, queueVars, RoundsTypeOK
<1>2. CASE Import
  <2>1. Imports[imported + 1] \in Job
    BY <1>2, ImportsAssumption DEF Import, RoundsTypeOK
  <2> QED BY <1>2, <2>1, ClaimsStay DEF Import, RoundsTypeOK
<1>3. ASSUME NEW e \in Launch, HarnessStep(e) PROVE Is(k, "claimed")'
  <2>1. CASE HarnessPut(e) \/ HarnessExit(e)
    BY <2>1, ClaimsStay DEF HarnessPut, HarnessExit, queueVars, RoundsTypeOK
  <2>2. CASE HarnessAbandon(e)
    <3>1. PICK j \in Job : Abandon(e, j, FALSE)
      BY <2>2 DEF HarnessAbandon
    <3>2. j # k
      BY <3>1 DEF Abandon, Drafts
    <3> QED BY <3>1, <3>2, OthersStay DEF RoundsTypeOK
  <2> QED BY <1>3, <2>1, <2>2 DEF HarnessStep
<1> QED BY <1>1, <1>2, <1>3

\* A lane ends the claim of its own row, or one whose completion waits to be written.
LEMMA LaneSpares ==
    ASSUME RoundsTypeOK, Shapes, Commanding, NEW l \in Lanes, LaneWork(l) \/ LaneFault(l),
           NEW k \in Job, Is(k, "claimed"), KindOf[k] \notin AgentKinds,
           ~At(l, {"idle"}) => k # slot[l].job, unwritten[k] = None
    PROVE  Is(k, "claimed")'
<1>1. command # None => command.job \in Job /\ command.job # k
  BY DEF Commanding, RoundsTypeOK
<1>2. ~At(l, {"idle"}) => slot[l].job \in Job
  BY LaneType
<1>3. CASE \/ DrainClaim(l) \/ DrainClaimUnsettled(l) \/ TakeLease(l) \/ Attach(l) \/ OpenRound(l)
           \/ HarnessRefused(l) \/ MaterialGone(l) \/ DropLease(l) \/ LeaseLost(l)
           \/ Outage(l) \/ Exception(l)
  <2>1. CASE DrainClaim(l) \/ DrainClaimUnsettled(l) \/ TakeLease(l)
    BY <2>1, ClaimsStay DEF DrainClaim, DrainClaimUnsettled, TakeLease, RoundsTypeOK
  <2>2. CASE Attach(l) \/ OpenRound(l)
    BY <1>2, <2>2, ClaimsStay DEF Attach, OpenRound, At, queueVars, RoundsTypeOK
  <2>3. CASE \/ HarnessRefused(l) \/ MaterialGone(l) \/ DropLease(l) \/ LeaseLost(l)
             \/ Outage(l) \/ Exception(l)
    BY <2>3, ClaimsStay DEF HarnessRefused, MaterialGone, DropLease, LeaseLost, Outage, Exception,
       queueVars, RoundsTypeOK
  <2> QED BY <1>3, <2>1, <2>2, <2>3
<1>4. CASE AuthorityLost(l) \/ WorkerAbandons(l) \/ OutageAtRecord(l) \/ PlainEnds(l)
  <2>1. slot[l].job \in Job /\ slot[l].job # k
    BY <1>2, <1>4 DEF AuthorityLost, WorkerAbandons, OutageAtRecord, PlainEnds, At
  <2>2. CASE AuthorityLost(l)
    BY <2>2, ClaimsStay DEF AuthorityLost, queueVars, RoundsTypeOK
  <2>3. CASE WorkerAbandons(l)
    BY <2>1, <2>3, OthersStay, ClaimsStay DEF WorkerAbandons, queueVars, RoundsTypeOK
  <2>4. CASE OutageAtRecord(l) \/ PlainEnds(l)
    BY <2>1, <2>4, OthersStay, ClaimsStay DEF OutageAtRecord, PlainEnds, RoundsTypeOK
  <2> QED BY <1>4, <2>2, <2>3, <2>4
<1>5. CASE WorkerFinish(l) \/ WorkerFinishing(l)
  <2>1. CASE WorkerFinish(l)
    BY <2>1, ClaimsStay DEF WorkerFinish, FinishRefused, FinishJudged, queueVars, RoundsTypeOK
  <2>2. CASE WorkerFinishing(l) /\ FinishRecords(slot[l].exec)
    BY <1>1, <2>2, OthersStay DEF FinishRecords, InCommand, RoundsTypeOK
  <2>3. CASE WorkerFinishing(l) /\ ~FinishRecords(slot[l].exec)
    BY <2>3, ClaimsStay DEF WorkerFinishing, FinishLands, FinishCloses, queueVars, RoundsTypeOK
  <2> QED BY <1>5, <2>1, <2>2, <2>3
<1>6. CASE EndAttempt(l)
  <2>1. slot[l].job \in Job /\ slot[l].job # k
    BY <1>2, <1>6 DEF EndAttempt, At, Ended
  <2>2. \/ UNCHANGED job
        \/ \E by : Park(slot[l].job, by)
        \/ \E by, who : Complete(slot[l].job, by, who)
    BY <1>6 DEF EndAttempt, RoundIncomplete, HarnessUnavailable, DropRoundDraft, ParkJob, FailJob,
       DropDraft, Delete, queueVars
  <2> QED BY <2>1, <2>2, OthersStay, ClaimsStay DEF RoundsTypeOK
<1>7. CASE RunPlain(l)
  BY <1>2, <1>7, ClaimsStay DEF RunPlain, At, queueVars, RoundsTypeOK
<1>8. CASE RideOut(l)
  <2>1. CASE \E j \in Job : unwritten[j] # None /\ Complete(j, None, unwritten[j])
    BY <2>1, OthersStay DEF RoundsTypeOK
  <2>2. CASE RequeueClaimed({slot[l].job}) \/ UNCHANGED queueVars
    BY <1>8, <2>2 DEF RideOut, At, RequeueClaimed, queueVars, Is, RoundsTypeOK, TypeOK
  <2> QED BY <1>8, <2>1, <2>2 DEF RideOut
<1> QED BY <1>3, <1>4, <1>5, <1>6, <1>7, <1>8 DEF LaneWork, LaneFault

\* A row that runs in the drain's own body runs until its lane says otherwise.
LEMMA RunsOn ==
    ASSUME RoundsTypeOK, Shapes, NEW l \in Lanes, LaneWork(l) \/ LaneFault(l), At(l, {"running"})
    PROVE  slot'[l].at # "running" \/ UNCHANGED job
<1>1. \/ RunPlain(l) \/ DropLease(l) \/ Outage(l) \/ Exception(l)
  BY DEF LaneWork, LaneFault, DrainClaim, DrainClaimUnsettled, TakeLease, Attach, OpenRound,
     AuthorityLost, WorkerFinish, WorkerFinishing, WorkerAbandons, EndAttempt, PlainEnds, RideOut,
     HarnessRefused, OutageAtRecord, MaterialGone, LeaseLost, At, Ended
<1>2. CASE DropLease(l)
  BY <1>2 DEF DropLease, DropLeases
<1>3. CASE RunPlain(l) \/ Outage(l) \/ Exception(l)
  <2>1. \E b \in {"ran", "riding", "failed"} : Become(l, b)
    BY <1>3 DEF RunPlain, Outage, Exception
  <2> QED BY <2>1, Became DEF Phases, Ended
<1> QED BY <1>1, <1>2, <1>3

LEMMA StepRunning ==
    ASSUME RoundsTypeOK, Shapes, Down, Commanding, Drafts, Unwritten, RunningRows, [RoundsNext]_vars
    PROVE  RunningRows'
<1>1. \A l \in Lanes : ~At(l, {"idle"}) => slot[l].job \in Job /\ Lane(slot[l].job) = l
  BY LaneType
<1>2. \A l \in Lanes : At(l, {"running"}) =>
         /\ slot[l].job \in Job /\ Is(slot[l].job, "claimed") /\ KindOf[slot[l].job] \notin AgentKinds
         /\ unwritten[slot[l].job] = None
  <2>1. SUFFICES ASSUME NEW l \in Lanes, At(l, {"running"})
                 PROVE  /\ slot[l].job \in Job /\ Is(slot[l].job, "claimed")
                        /\ KindOf[slot[l].job] \notin AgentKinds /\ unwritten[slot[l].job] = None
    OBVIOUS
  <2>2. slot[l].job \in Job /\ Is(slot[l].job, "claimed") /\ KindOf[slot[l].job] \notin AgentKinds
    BY <1>1, <2>1 DEF Shapes, ShapeOf, At, RunningRows
  <2>3. \A m \in Lanes : At(m, {"riding"}) /\ slot[m].job = slot[l].job => FALSE
    BY <1>1, <2>1 DEF At
  <2> QED BY <2>2, <2>3 DEF Unwritten
<1>3. SUFFICES ASSUME NEW l \in Lanes, NEW k, k = slot'[l].job, slot'[l].at = "running"
               PROVE  Is(k, "claimed")'
  BY DEF RunningRows, At, Is
<1>4. slot'[l] = slot[l] => /\ k \in Job /\ Is(k, "claimed") /\ KindOf[k] \notin AgentKinds
                            /\ At(l, {"running"}) /\ k = slot[l].job /\ unwritten[k] = None
  BY <1>2, <1>3 DEF At
<1>5. CASE Outside
  <2>1. UNCHANGED slot
    BY <1>5, OutsideStill
  <2>2. CASE Start
    BY <1>4, <2>1, <2>2 DEF Start, Down, At, Idle
  <2>3. CASE SelfHeal
    <3>1. k \in InFlight
      BY <1>4, <2>1 DEF InFlight, At
    <3>2. RequeueClaimed(Job \ InFlight)
      BY <2>3 DEF SelfHeal
    <3>3. job'[k] = job[k]
      BY <1>4, <2>1, <3>1, <3>2 DEF RequeueClaimed
    <3> QED BY <1>4, <2>1, <3>3 DEF Is
  <2>4. CASE \E x \in Steward : StewardTypes(x) \/ StewardGoesOn(x) \/ StewardDies(x)
    BY <1>4, <2>1, <2>4, StewardSpares
  <2>5. CASE \/ UNCHANGED vars
             \/ Import \/ TimePasses \/ StewardResumes
             \/ \E e \in Launch : HarnessPut(e) \/ HarnessAbandon(e)
    BY <1>4, <2>1, <2>5, WorldSpares DEF HarnessStep
  <2> QED BY <1>5, <2>2, <2>3, <2>4, <2>5 DEF Outside
<1>6. ASSUME NEW m \in Lanes, LaneWork(m) \/ LaneFault(m) PROVE Is(k, "claimed")'
  <2>1. Moves(m)
    BY <1>6, LaneMoves
  <2>2. CASE l # m
    <3>1. slot'[l] = slot[l]
      BY <2>1, <2>2 DEF Moves
    <3>2. ~At(m, {"idle"}) => k # slot[m].job
      BY <1>1, <1>4, <2>2, <3>1 DEF At
    <3> QED BY <1>4, <1>6, <3>1, <3>2, LaneSpares
  <2>3. CASE l = m /\ slot'[m] = slot[m]
    BY <1>3, <1>4, <1>6, <2>3, RunsOn DEF Is
  <2>4. CASE l = m /\ TakesRow(m)
    BY <1>3, <2>4 DEF TakesRow
  <2>5. slot[m] \in SlotRows
    BY DEF RoundsTypeOK, SlotRows
  <2>6. CASE l = m /\ Goes(m)
    <3>1. PICK b \in Phases : slot'[m] = [slot[m] EXCEPT !.at = b] /\ Arrow(slot[m].at, b)
      BY <2>6 DEF Goes
    <3>2. slot'[m].at = b /\ b # "running"
      BY <2>5, <3>1 DEF Arrow, SlotRows
    <3> QED BY <1>3, <2>6, <3>2
  <2>7. CASE l = m /\ TakesLaunch(m)
    <3>1. slot'[m].at = "leased"
      BY <2>5, <2>7 DEF TakesLaunch, SlotRows
    <3> QED BY <1>3, <2>7, <3>1
  <2>8. CASE l = m /\ Leaves(m)
    BY <1>3, <2>8 DEF Leaves, Idle
  <2> QED BY <2>1, <2>2, <2>3, <2>4, <2>6, <2>7, <2>8 DEF Moves
<1>7. ASSUME NEW e \in Launch, HarnessExit(e) PROVE Is(k, "claimed")'
  <2>1. Exits(e) /\ UNCHANGED job
    BY <1>7, HarnessExits DEF HarnessExit, queueVars
  <2>2. slot'[l] = slot[l]
    BY <1>3, <2>1 DEF Exits, RoundsTypeOK
  <2> QED BY <1>4, <2>1, <2>2 DEF Is
<1>8. CASE Crash
  BY <1>3, <1>8 DEF Crash, Idle
<1> QED BY <1>5, <1>6, <1>7, <1>8, StepParts

-----------------------------------------------------------------------------
(* What a step does to one draft: it leaves it, marks it once its launch is *)
(* off every lane, writes it, or ends it.                                   *)

Stays(k) ==
    /\ draft[k] # None /\ draft'[k] # None
    /\ draft'[k].owner = draft[k].owner /\ draft'[k].body = draft[k].body
    /\ draft'[k].kept => draft[k].kept \/ \A l \in Lanes : slot'[l].exec # draft[k].owner

Puts(k) ==
    \E x \in Executor, adopt \in BOOLEAN, body \in Bodies :
        /\ MayPut(x, k, adopt)
        /\ draft'[k] = [owner |-> x, kept |-> FALSE, body |-> body, age |-> "fresh"]
        /\ adopt /\ draft[k] # None => body = draft[k].body
        /\ \/ x \in Steward
           \/ draft[k] # None /\ draft[k].owner = x
           \/ \E l \in Lanes : slot[l].exec = x /\ slot[l].job = k

Ends(k) ==
    /\ draft'[k] = None
    /\ draft[k] # None /\ draft[k].kept =>
          \/ commands' # commands \/ Is(k, "done") \/ draft[k].owner \in harness
          \/ draft[k].owner \in Steward \/ \E l \in Lanes : slot[l].exec = draft[k].owner

Fate(k) == draft'[k] = draft[k] \/ Stays(k) \/ Puts(k) \/ Ends(k)

LEMMA StillFate == ASSUME UNCHANGED draft, NEW k PROVE Fate(k)
BY DEF Fate

LEMMA PutFate ==
    ASSUME TypeOK, NEW x \in Executor, NEW j \in Job, NEW adopt \in BOOLEAN, NEW body \in Bodies,
           Put(x, j, adopt, body), adopt /\ draft[j] # None => body = draft[j].body,
           \/ x \in Steward
           \/ draft[j] # None /\ draft[j].owner = x
           \/ \E l \in Lanes : slot[l].exec = x /\ slot[l].job = j,
           NEW k \in Job
    PROVE  Fate(k)
<1>1. MayPut(x, j, adopt)
      /\ draft' = [draft EXCEPT ![j] = [owner |-> x, kept |-> FALSE, body |-> body, age |-> "fresh"]]
  BY DEF Put
<1>2. CASE k = j
  BY <1>1, <1>2 DEF TypeOK, Fate, Puts
<1>3. CASE k # j
  BY <1>1, <1>3 DEF TypeOK, Fate
<1> QED BY <1>2, <1>3

LEMMA EndFate ==
    ASSUME TypeOK, NEW x, NEW j \in Job, NEW k \in Job,
           \/ Delete(x, j) \/ Abandon(x, j, FALSE)
           \/ commands' # commands /\ Abandon(x, j, TRUE),
           \/ x \in Steward \/ x \in harness \/ \E l \in Lanes : slot[l].exec = x
    PROVE  Fate(k)
<1>1. draft' = [draft EXCEPT ![j] = None]
      /\ (draft[j] # None => draft[j].owner = x \/ commands' # commands)
  BY DEF Delete, Abandon
<1>2. CASE k = j
  BY <1>1, <1>2 DEF TypeOK, Fate, Ends
<1>3. CASE k # j
  BY <1>1, <1>3 DEF TypeOK, Fate
<1> QED BY <1>2, <1>3

\* A sweep marks only what no lane's launch owns, and keeps what was marked until its row ends.
LEMMA SweepFate ==
    ASSUME TypeOK, KeptIsNobodys, NEW rows, RequeueClaimed(rows), NEW k \in Job,
           k \in rows /\ draft[k] # None => \A l \in Lanes : slot'[l].exec # draft[k].owner
    PROVE  Fate(k)
<1> DEFINE swept == {j \in rows : Orphaned(j)}
<1> DEFINE finished == {j \in rows : Is(j, "done")}
<1>1. draft'[k] = IF k \in swept /\ Continuable(k) THEN [draft[k] EXCEPT !.kept = TRUE]
                  ELSE IF k \in swept \cup finished THEN None ELSE draft[k]
  BY DEF RequeueClaimed
<1>2. CASE k \in swept /\ Continuable(k)
  <2>1. draft[k] # None /\ draft[k] \in Draft
    BY <1>2, BodyType DEF Continuable
  <2>2. draft'[k] = [draft[k] EXCEPT !.kept = TRUE]
    BY <1>1, <1>2
  <2>3. [draft[k] EXCEPT !.kept = TRUE] \in Draft
    BY <2>1 DEF Draft
  <2>4. draft'[k] # None
    BY <2>2, <2>3, NoDraftAssumption
  <2>5. draft'[k].owner = draft[k].owner /\ draft'[k].body = draft[k].body
    BY <2>1, <2>2 DEF Draft
  <2> QED BY <1>2, <2>1, <2>4, <2>5 DEF Fate, Stays
<1>3. CASE ~(k \in swept /\ Continuable(k)) /\ k \in swept \cup finished
  <2>1. draft'[k] = None
    BY <1>1, <1>3
  <2>2. draft[k] # None /\ draft[k].kept => Continuable(k)
    BY NamesAssumption DEF KeptIsNobodys, Continuable, Holder, Adoptable
  <2> QED BY <1>3, <2>1, <2>2 DEF Fate, Ends
<1>4. CASE k \notin swept \cup finished
  BY <1>1, <1>4 DEF Fate
<1> QED BY <1>2, <1>3, <1>4

LEMMA LaneFate ==
    ASSUME RoundsTypeOK, Shapes, Leases, Commanding, KeptIsNobodys, Owned,
           NEW l \in Lanes, LaneWork(l) \/ LaneFault(l), NEW k \in Job
    PROVE  Fate(k)
<1>1. ~At(l, {"idle"}) => slot[l].job \in Job /\ Lane(slot[l].job) = l
  BY LaneType
<1>2. At(l, Launched) => slot[l].exec \in Launch /\ slot[l].exec \in Executor
  BY LaneType
<1>3. command # None => command.job \in Job
  BY DEF RoundsTypeOK
<1>4. CASE \/ DrainClaim(l) \/ DrainClaimUnsettled(l) \/ TakeLease(l) \/ Attach(l)
           \/ HarnessRefused(l) \/ MaterialGone(l) \/ DropLease(l) \/ LeaseLost(l)
           \/ Outage(l) \/ OutageAtRecord(l) \/ Exception(l) \/ RunPlain(l) \/ PlainEnds(l)
  <2>1. UNCHANGED draft
    BY <1>4 DEF DrainClaim, DrainClaimUnsettled, TakeLease, Attach, HarnessRefused, MaterialGone,
       DropLease, LeaseLost, Outage, OutageAtRecord, Exception, RunPlain, PlainEnds, ClaimNext,
       MintLease, AttachExecutor, DropLeases, Complete, Enqueue, queueVars
  <2> QED BY <2>1, StillFate
<1>5. CASE OpenRound(l)
  <2>1. slot[l].job \in Job /\ slot[l].exec \in Executor
    BY <1>1, <1>2, <1>5 DEF OpenRound, At, Launched
  <2>2. CASE UNCHANGED queueVars
    BY <2>2, StillFate DEF queueVars
  <2>3. CASE Put(slot[l].exec, slot[l].job, TRUE,
                 IF draft[slot[l].job] = None THEN "blank" ELSE draft[slot[l].job].body)
    <3>1. (IF draft[slot[l].job] = None THEN "blank" ELSE draft[slot[l].job].body) \in Bodies
      BY <2>1, BodyType DEF RoundsTypeOK, Bodies
    <3> QED BY <2>1, <2>3, <3>1, PutFate DEF RoundsTypeOK
  <2> QED BY <1>5, <2>2, <2>3 DEF OpenRound
<1>6. CASE AuthorityLost(l) \/ WorkerAbandons(l)
  <2>1. slot[l].job \in Job
    BY <1>1, <1>6 DEF AuthorityLost, WorkerAbandons, At
  <2>2. \/ UNCHANGED draft
        \/ Delete(slot[l].exec, slot[l].job) \/ Abandon(slot[l].exec, slot[l].job, FALSE)
    BY <1>6 DEF AuthorityLost, WorkerAbandons, queueVars
  <2> QED BY <2>1, <2>2, EndFate, StillFate DEF RoundsTypeOK
<1>7. CASE WorkerFinish(l)
  <2>1. slot[l].job \in Job /\ slot[l].exec \in Executor /\ Owns(slot[l].exec, slot[l].job)
    BY <1>1, <1>2, <1>7 DEF WorkerFinish, At, Launched
  <2>2. draft[slot[l].job].body \in Bodies
    BY <2>1, BodyType DEF RoundsTypeOK, Owns
  <2>3. \/ UNCHANGED draft
        \/ \E body \in Bodies : Put(slot[l].exec, slot[l].job, FALSE, body)
    BY <1>7, <2>2 DEF WorkerFinish, FinishRefused, FinishJudged, Lock, queueVars, Bodies
  <2> QED BY <2>1, <2>3, PutFate, StillFate DEF RoundsTypeOK
<1>8. CASE WorkerFinishing(l)
  <2>1. slot[l].job \in Job /\ slot[l].exec \in Executor
    BY <1>1, <1>2, <1>8 DEF WorkerFinishing, At, Launched
  <2>2. CASE FinishLands(slot[l].exec)
    <3>1. CASE UNCHANGED draft
      BY <3>1, StillFate
    <3>2. CASE Put(slot[l].exec, command.job, FALSE, draft[command.job].body)
      <4>1. command.job \in Job /\ draft[command.job] # None
        BY <1>3, <2>2 DEF FinishLands, InCommand, Commanding
      <4>2. draft[command.job].body \in Bodies /\ draft[command.job].owner = slot[l].exec
        BY <3>2, <4>1, BodyType DEF RoundsTypeOK, Put, MayPut
      <4> QED BY <2>1, <3>2, <4>1, <4>2, PutFate DEF RoundsTypeOK
    <3> QED BY <2>2, <3>1, <3>2 DEF FinishLands, queueVars
  <2>3. CASE FinishRecords(slot[l].exec)
    BY <2>3, StillFate DEF FinishRecords, Complete, Park
  <2>4. CASE FinishCloses(slot[l].exec)
    BY <1>3, <2>4, EndFate DEF FinishCloses, InCommand, RoundsTypeOK
  <2>5. CASE Delete(slot[l].exec, slot[l].job)
    BY <2>1, <2>5, EndFate DEF RoundsTypeOK
  <2> QED BY <1>8, <2>2, <2>3, <2>4, <2>5 DEF WorkerFinishing
<1>9. CASE EndAttempt(l)
  <2>1. slot[l].job \in Job
    BY <1>1, <1>9 DEF EndAttempt, At, Ended
  <2>2. UNCHANGED draft \/ Delete(slot[l].exec, slot[l].job)
    BY <1>9 DEF EndAttempt, RoundIncomplete, HarnessUnavailable, DropRoundDraft, ParkJob, FailJob,
       DropDraft, Park, Complete, queueVars
  <2> QED BY <2>1, <2>2, EndFate, StillFate DEF RoundsTypeOK
<1>10. CASE RideOut(l)
  <2>1. CASE UNCHANGED draft
    BY <2>1, StillFate
  <2>2. CASE RequeueClaimed({slot[l].job}) /\ slot' = [slot EXCEPT ![l] = Idle]
    <3>1. ASSUME k = slot[l].job, draft[k] # None, NEW m \in Lanes, slot'[m].exec = draft[k].owner
          PROVE  FALSE
      <4>1. draft[k].owner \in Executor /\ None \notin Executor
        BY <3>1, BodyType, NamesAssumption DEF RoundsTypeOK, Claimer
      <4>2. m # l /\ slot'[m] = slot[m]
        BY <2>2, <3>1, <4>1 DEF RoundsTypeOK, Idle
      <4>3. slot[m].job = slot[l].job
        BY <3>1, <4>2 DEF Owned
      <4>4. ~At(m, {"idle"}) /\ ~At(l, {"idle"})
        BY <1>10, <3>1, <4>1, <4>2 DEF Shapes, ShapeOf, At, Idle, RideOut
      <4> QED BY <1>1, <4>2, <4>3, <4>4, LaneType
    <3> QED BY <2>2, <3>1, SweepFate DEF RoundsTypeOK
  <2> QED BY <1>10, <2>1, <2>2 DEF RideOut, Complete, queueVars
<1> QED BY <1>4, <1>5, <1>6, <1>7, <1>8, <1>9, <1>10 DEF LaneWork, LaneFault

LEMMA StewardFate ==
    ASSUME RoundsTypeOK, Commanding, NEW x \in Steward,
           StewardTypes(x) \/ StewardGoesOn(x) \/ StewardDies(x), NEW k \in Job
    PROVE  Fate(k)
<1>1. x \in Executor
  BY DEF Executor
<1>2. command # None => command.job \in Job
  BY DEF RoundsTypeOK
<1>3. CASE StewardOpens(x) \/ StewardDies(x)
  BY <1>3, StillFate DEF StewardOpens, StewardDies, Claim, Unlock
<1>4. CASE StewardPuts(x)
  <2>1. PICK j \in Job :
          \/ Owns(x, j) /\ \E body \in {draft[j].body, "written", "repair"} : Put(x, j, FALSE, body)
          \/ draft[j] # None /\ Put(x, j, TRUE, draft[j].body)
    BY <1>4 DEF StewardPuts
  <2>2. draft[j].body \in Bodies
    BY <2>1, BodyType DEF RoundsTypeOK, Owns
  <2>3. \/ \E body \in Bodies : Put(x, j, FALSE, body)
        \/ Put(x, j, TRUE, draft[j].body)
    BY <2>1, <2>2 DEF Bodies
  <2> QED BY <1>1, <2>2, <2>3, PutFate DEF RoundsTypeOK
<1>5. CASE StewardFinishes(x)
  <2>1. PICK j \in Job : FinishJudged(x, j)
    BY <1>5 DEF StewardFinishes
  <2>2. draft[j].body \in Bodies
    BY <2>1, BodyType DEF RoundsTypeOK, FinishJudged, Owns
  <2>3. UNCHANGED draft \/ Put(x, j, FALSE, draft[j].body)
    BY <2>1 DEF FinishJudged, Lock
  <2> QED BY <1>1, <2>2, <2>3, PutFate, StillFate DEF RoundsTypeOK
<1>6. CASE StewardAbandons(x)
  <2>1. PICK j \in Job, takeOver \in BOOLEAN : Abandon(x, j, takeOver)
    BY <1>6 DEF StewardAbandons
  <2>2. commands' # commands
    BY <1>6 DEF StewardAbandons, Type, RoundsTypeOK
  <2>3. Abandon(x, j, FALSE) \/ Abandon(x, j, TRUE)
    BY <2>1
  <2> QED BY <2>2, <2>3, EndFate DEF RoundsTypeOK
<1>7. CASE StewardOpening(x)
  <2>1. command.job \in Job
    BY <1>2, <1>7 DEF StewardOpening, InCommand
  <2>2. (IF draft[command.job] = None THEN "blank" ELSE draft[command.job].body) \in Bodies
    BY <2>1, BodyType DEF RoundsTypeOK, Bodies
  <2>3. \/ UNCHANGED draft
        \/ Put(x, command.job, TRUE, IF draft[command.job] = None THEN "blank" ELSE draft[command.job].body)
    BY <1>7 DEF StewardOpening, Unlock, Release
  <2> QED BY <1>1, <2>1, <2>2, <2>3, PutFate, StillFate DEF RoundsTypeOK
<1>8. CASE StewardFinishing(x)
  <2>1. command.job \in Job
    BY <1>2, <1>8 DEF StewardFinishing, FinishLands, FinishEvicted, FinishRecords, FinishCloses, InCommand
  <2>2. CASE FinishLands(x)
    <3>1. draft[command.job] # None
      BY <2>2 DEF FinishLands, InCommand, Commanding
    <3>2. draft[command.job].body \in Bodies
      BY <2>1, <3>1, BodyType DEF RoundsTypeOK
    <3>3. UNCHANGED draft \/ Put(x, command.job, FALSE, draft[command.job].body)
      BY <2>2 DEF FinishLands, queueVars
    <3> QED BY <1>1, <2>1, <3>2, <3>3, PutFate, StillFate DEF RoundsTypeOK
  <2>3. CASE FinishEvicted(x) \/ FinishRecords(x)
    BY <2>3, StillFate DEF FinishEvicted, FinishRecords, Unlock, Complete, Park
  <2>4. CASE FinishCloses(x)
    BY <2>1, <2>4, EndFate DEF FinishCloses, RoundsTypeOK
  <2> QED BY <1>8, <2>2, <2>3, <2>4 DEF StewardFinishing
<1> QED BY <1>3, <1>4, <1>5, <1>6, <1>7, <1>8 DEF StewardTypes, StewardGoesOn

LEMMA WorldFate ==
    ASSUME RoundsTypeOK, Shapes, Down, KeptIsNobodys, Owned,
           \/ UNCHANGED vars
           \/ Import \/ TimePasses \/ Start \/ SelfHeal \/ StewardResumes \/ Crash
           \/ \E e \in Launch : HarnessStep(e),
           NEW k \in Job
    PROVE  Fate(k)
<1>1. CASE UNCHANGED vars \/ Import \/ StewardResumes \/ Crash
  BY <1>1, StillFate DEF vars, queueVars, Import, Enqueue, StewardResumes, ResumeJob, Crash, DropLeases
<1>2. CASE TimePasses
  <2>1. CASE \E j \in Job : WaitElapses(j)
    BY <2>1, StillFate DEF WaitElapses
  <2>2. ASSUME NEW j \in Job, DraftAges(j) PROVE Fate(k)
    <3>1. draft[j] \in Draft
      BY <2>2, BodyType DEF RoundsTypeOK, DraftAges
    <3>2. draft' = [draft EXCEPT ![j] = [draft[j] EXCEPT !.age = IF draft[j].age = "fresh" THEN "idle" ELSE "stale"]]
      BY <2>2 DEF DraftAges
    <3>3. [draft[j] EXCEPT !.age = IF draft[j].age = "fresh" THEN "idle" ELSE "stale"] \in Draft
      BY <3>1 DEF Draft
    <3>4. CASE k = j
      <4>1. /\ draft'[k] # None /\ draft[k] # None
            /\ draft'[k].owner = draft[k].owner /\ draft'[k].body = draft[k].body
            /\ draft'[k].kept = draft[k].kept
        BY <3>1, <3>2, <3>3, <3>4, NoDraftAssumption DEF RoundsTypeOK, TypeOK, Draft
      <4> QED BY <4>1 DEF Fate, Stays
    <3>5. CASE k # j
      BY <3>2, <3>5 DEF RoundsTypeOK, TypeOK, Fate
    <3> QED BY <3>4, <3>5
  <2> QED BY <1>2, <2>1, <2>2 DEF TimePasses
<1>3. CASE Start \/ SelfHeal
  <2>1. CASE UNCHANGED queueVars
    BY <2>1, StillFate DEF queueVars
  <2>2. UNCHANGED slot
    BY <1>3 DEF Start, SelfHeal, roundVars
  <2>3. CASE Start /\ RequeueClaimed(Job)
    <3>1. draft[k] # None => \A l \in Lanes : slot'[l].exec # draft[k].owner
      <4>1. \A l \in Lanes : slot'[l].exec = None
        BY <2>2, <2>3 DEF Start, Down, Idle
      <4>2. draft[k] # None => draft[k].owner \in Executor
        BY BodyType DEF RoundsTypeOK
      <4> QED BY <4>1, <4>2, NamesAssumption DEF Claimer
    <3> QED BY <2>3, <3>1, SweepFate DEF RoundsTypeOK
  <2>4. CASE SelfHeal
    <3>1. ASSUME k \in Job \ InFlight, draft[k] # None, NEW l \in Lanes, slot'[l].exec = draft[k].owner
          PROVE  FALSE
      <4>1. slot[l].job = k /\ slot[l].exec = draft[k].owner
        BY <2>2, <3>1 DEF Owned
      <4>2. draft[k].owner # None
        BY <3>1, BodyType, NamesAssumption DEF RoundsTypeOK, Claimer
      <4>3. ~At(l, {"idle", "unsettled"})
        BY <4>1, <4>2 DEF Shapes, ShapeOf, At, Idle
      <4>4. k \in InFlight
        BY <4>1, <4>3 DEF InFlight
      <4> QED BY <3>1, <4>4
    <3>2. RequeueClaimed(Job \ InFlight)
      BY <2>4 DEF SelfHeal
    <3> QED BY <3>1, <3>2, SweepFate DEF RoundsTypeOK
  <2> QED BY <1>3, <2>1, <2>3, <2>4 DEF Start
<1>4. ASSUME NEW e \in Launch, HarnessStep(e) PROVE Fate(k)
  <2>1. CASE HarnessPut(e)
    <3>1. PICK j \in Job : Owns(e, j) /\ \E body \in {draft[j].body, "written", "repair"} : Put(e, j, FALSE, body)
      BY <2>1 DEF HarnessPut
    <3>2. draft[j] # None /\ draft[j].owner = e /\ draft[j].body \in Bodies
      BY <3>1, BodyType DEF RoundsTypeOK, Owns
    <3>3. \E body \in Bodies : Put(e, j, FALSE, body)
      BY <3>1, <3>2 DEF Bodies
    <3> QED BY <3>2, <3>3, Names, PutFate DEF RoundsTypeOK
  <2>2. CASE HarnessAbandon(e)
    BY <2>2, EndFate DEF HarnessAbandon, RoundsTypeOK
  <2>3. CASE HarnessExit(e)
    BY <2>3, StillFate DEF HarnessExit, queueVars
  <2> QED BY <1>4, <2>1, <2>2, <2>3 DEF HarnessStep
<1> QED BY <1>1, <1>2, <1>3, <1>4

LEMMA StepFate ==
    ASSUME RoundsTypeOK, Shapes, Down, Leases, Commanding, KeptIsNobodys, Owned, [RoundsNext]_vars,
           NEW k \in Job
    PROVE  Fate(k)
BY LaneFate, StewardFate, WorldFate DEF RoundsNext

\* A lane keeps its launch with its row, loses it, or has one minted that has written nothing.
Lasts(l) ==
    \/ slot'[l].exec = slot[l].exec /\ slot'[l].job = slot[l].job
    \/ slot'[l].exec = None
    \/ slot'[l].exec \in Launch /\ launch[slot'[l].exec] = "unborn" /\ UNCHANGED draft

LEMMA StepLasts ==
    ASSUME RoundsTypeOK, [RoundsNext]_vars, NEW l \in Lanes
    PROVE  Lasts(l)
<1>1. slot[l] \in SlotRows
  BY DEF RoundsTypeOK, SlotRows
<1>2. CASE Outside
  BY <1>2, OutsideStill DEF Lasts
<1>3. ASSUME NEW m \in Lanes, LaneWork(m) \/ LaneFault(m) PROVE Lasts(l)
  <2>1. Moves(m)
    BY <1>3, LaneMoves
  <2>2. CASE slot'[l] = slot[l]
    BY <2>2 DEF Lasts
  <2>3. CASE m = l /\ Goes(l)
    <3>1. PICK b \in Phases : slot'[l] = [slot[l] EXCEPT !.at = b]
      BY <2>3 DEF Goes
    <3> QED BY <1>1, <3>1 DEF Lasts, SlotRows
  <2>4. CASE m = l /\ TakesRow(l)
    BY <2>4 DEF TakesRow, Lasts
  <2>5. CASE m = l /\ TakesLaunch(l)
    <3>1. PICK e \in Launch : MintLease(e) /\ slot'[l] = [slot[l] EXCEPT !.exec = e, !.at = "leased"]
      BY <2>5 DEF TakesLaunch
    <3>2. slot'[l].exec = e
      BY <1>1, <3>1 DEF SlotRows
    <3> QED BY <3>1, <3>2 DEF MintLease, Lasts
  <2>6. CASE m = l /\ Leaves(l)
    BY <2>6 DEF Leaves, Idle, Lasts
  <2> QED BY <2>1, <2>2, <2>3, <2>4, <2>5, <2>6 DEF Moves
<1>4. ASSUME NEW e \in Launch, HarnessExit(e) PROVE Lasts(l)
  BY <1>1, <1>4, HarnessExits DEF Exits, Lasts, SlotRows
<1>5. CASE Crash
  BY <1>5 DEF Crash, Idle, Lasts
<1> QED BY <1>2, <1>3, <1>4, <1>5, StepParts

LEMMA StepOwned ==
    ASSUME RoundsTypeOK, Shapes, Down, Leases, Commanding, KeptIsNobodys, Drafts, Owned, KeptApart,
           TypeOK', [RoundsNext]_vars
    PROVE  Owned' /\ KeptApart'
<1>1. \A j \in Job : draft'[j] # None => draft'[j].owner \in Executor
  BY DEF TypeOK, Draft
<1>2. None \notin Executor /\ Launch \cap Steward = {}
  BY NamesAssumption DEF Claimer
<1>3. ASSUME NEW j \in Job, NEW l \in Lanes, draft'[j] # None, slot'[l].exec = draft'[j].owner
      PROVE  slot'[l].job = j /\ ~draft'[j].kept
  <2>1. Fate(j) /\ Lasts(l)
    BY StepFate, StepLasts
  <2>2. slot'[l].exec # None /\ slot'[l].exec \in Executor
    BY <1>1, <1>2, <1>3
  <2>3. CASE draft[j] # None /\ draft[j].owner = draft'[j].owner
             /\ (draft'[j].kept => draft[j].kept \/ \A m \in Lanes : slot'[m].exec # draft[j].owner)
    <3>1. ~(slot'[l].exec \in Launch /\ launch[slot'[l].exec] = "unborn")
      BY <1>3, <2>3 DEF Drafts, Born
    <3>2. slot'[l].exec = slot[l].exec /\ slot'[l].job = slot[l].job
      BY <2>1, <2>2, <3>1 DEF Lasts
    <3> QED BY <1>3, <2>3, <3>2 DEF Owned, KeptApart
  <2>4. CASE Puts(j)
    <3>1. PICK x \in Executor, adopt \in BOOLEAN, body \in Bodies :
            /\ draft'[j] = [owner |-> x, kept |-> FALSE, body |-> body, age |-> "fresh"]
            /\ \/ x \in Steward
               \/ draft[j] # None /\ draft[j].owner = x
               \/ \E m \in Lanes : slot[m].exec = x /\ slot[m].job = j
      BY <2>4 DEF Puts
    <3>2. draft'[j].owner = x /\ ~draft'[j].kept /\ slot'[l].exec = x
      BY <1>3, <3>1
    <3>3. slot[l].exec \in Launch \cup {None}
      BY DEF RoundsTypeOK
    <3>4. CASE x \in Steward
      BY <1>2, <2>1, <2>2, <3>2, <3>3, <3>4 DEF Lasts
    <3>5. CASE draft[j] # None /\ draft[j].owner = x
      BY <2>3, <3>2, <3>5
    <3>6. CASE \E m \in Lanes : slot[m].exec = x /\ slot[m].job = j
      <4>1. PICK m \in Lanes : slot[m].exec = x /\ slot[m].job = j
        BY <3>6
      <4>2. ~(x \in Launch /\ launch[x] = "unborn")
        BY <4>1 DEF Leases, Born
      <4>3. slot'[l].exec = slot[l].exec /\ slot'[l].job = slot[l].job
        BY <2>1, <2>2, <3>2, <4>2 DEF Lasts
      <4>4. l = m
        BY <2>2, <3>2, <4>1, <4>3 DEF Leases
      <4> QED BY <3>2, <4>1, <4>3, <4>4
    <3> QED BY <3>1, <3>4, <3>5, <3>6
  <2> QED BY <1>3, <2>1, <2>3, <2>4 DEF Fate, Stays, Ends
<1> QED BY <1>3 DEF Owned, KeptApart

\* The action of KeptWorkSurvives.
WorkSurvives ==
    \A j \in Job :
        draft[j] # None /\ draft[j].kept =>
            IF draft'[j] # None THEN draft'[j].body = draft[j].body
            ELSE commands' # commands \/ Is(j, "done") \/ draft[j].owner \in harness

LEMMA StepSurvives ==
    ASSUME RoundsTypeOK, Shapes, Down, Leases, Commanding, KeptIsNobodys, Owned, KeptApart,
           TypeOK', [RoundsNext]_vars
    PROVE  WorkSurvives
<1> SUFFICES ASSUME NEW j \in Job, draft[j] # None, draft[j].kept
             PROVE  IF draft'[j] # None THEN draft'[j].body = draft[j].body
                    ELSE commands' # commands \/ Is(j, "done") \/ draft[j].owner \in harness
  BY DEF WorkSurvives
<1>1. Fate(j)
  BY StepFate
<1>2. draft[j].owner \in Launch /\ draft[j].owner \notin Steward /\ job[j].by # draft[j].owner
  BY NamesAssumption DEF KeptIsNobodys, Adoptable
<1>3. \A l \in Lanes : slot[l].exec # draft[j].owner
  BY DEF KeptApart
<1>4. CASE Puts(j)
  <2>1. PICK x \in Executor, adopt \in BOOLEAN, body \in Bodies :
          /\ draft'[j] = [owner |-> x, kept |-> FALSE, body |-> body, age |-> "fresh"]
          /\ adopt \/ (draft[j].owner = x /\ job[j].by = x)
          /\ adopt => body = draft[j].body
    BY <1>4 DEF Puts, MayPut
  <2>2. body = draft[j].body
    BY <1>2, <2>1
  <2>3. draft'[j] \in Draft /\ draft'[j].body = body
    BY <2>1 DEF Draft
  <2> QED BY <2>2, <2>3, NoDraftAssumption
<1>5. CASE Ends(j)
  BY <1>2, <1>3, <1>5 DEF Ends
<1> QED BY <1>1, <1>4, <1>5 DEF Fate, Stays

-----------------------------------------------------------------------------
(* What a step does to one row: it leaves it as it stands or hands its      *)
(* claim to a launch, writes it, claims it, frees it, or finishes it.       *)

Rests(k) ==
    /\ job'[k].status = job[k].status
    /\ job'[k].by = job[k].by \/ job[k].by = Worker

Appears(k) ==
    /\ Is(k, "absent") /\ Is(k, "queued")'
    /\ KindOf[k] = "episodes" \/ (Import /\ k = Imports[imported + 1])

\* A drain's claim of a compile saw no derived work of its sources open.
TakenUp(k) ==
    /\ Is(k, "queued") /\ Is(k, "claimed")'
    /\ \/ job'[k].by \in Steward
       \/ KindOf[k] = "compile" => ~SourceWorkOpen(k) /\ \A i \in Job \ {k} : job'[i] = job[i]

Freed(k) == ~Is(k, "absent") /\ job'[k].status \in {"queued", "paused"}

\* Whose body has come to its end: an agent's round, a row the drain ran itself, or one
\* whose completion is still to be written.
AtItsEnd(k) ==
    KindOf[k] \in AgentKinds \/ unwritten[k] # None \/ \E l \in Lanes : At(l, {"ran"}) /\ slot[l].job = k

Finished(k) == ~Is(k, "absent") /\ Is(k, "done")' /\ AtItsEnd(k)

Turns(k) == Rests(k) \/ Appears(k) \/ TakenUp(k) \/ Freed(k) \/ Finished(k)

LEMMA StillTurns == ASSUME UNCHANGED job, NEW k PROVE Turns(k)
BY DEF Turns, Rests

LEMMA RowTurns ==
    ASSUME TypeOK, NEW j \in Job, NEW k \in Job,
           \/ \E by : Park(j, by)
           \/ \E e : AttachExecutor(j, e)
           \/ \E x, takeOver : Abandon(x, j, takeOver)
           \/ Release(j) \/ ResumeJob(j) \/ WaitElapses(j)
    PROVE  Turns(k)
<1>1. job[j] \in Row /\ job \in [Job -> Row]
  BY DEF TypeOK
<1>2. CASE k # j
  <2>1. job'[k] = job[k]
    BY <1>1, <1>2 DEF Park, AttachExecutor, Abandon, Update, Release, ResumeJob, WaitElapses
  <2> QED BY <2>1 DEF Turns, Rests
<1>3. CASE k = j
  <2>1. CASE (\E by : Park(j, by)) \/ (\E x, takeOver : Abandon(x, j, takeOver))
    <3>1. CASE job' = job
      BY <3>1, StillTurns
    <3>2. ASSUME NEW row, job' = [job EXCEPT ![j] = row], row.status \in {"queued", "paused"}, Open(j)
          PROVE  Freed(j)
      BY <1>1, <3>2 DEF Freed, Open, Is
    <3>3. ASSUME NEW by, Park(j, by), job' # job PROVE Freed(j)
      BY <1>1, <3>2, <3>3 DEF Park, Update, Row
    <3>4. ASSUME NEW x, NEW takeOver, Abandon(x, j, takeOver), job' # job PROVE Freed(j)
      BY <1>1, <3>2, <3>4 DEF Abandon, Update, Is, Open, Row
    <3> QED BY <1>3, <2>1, <3>1, <3>3, <3>4 DEF Turns
  <2>2. CASE Release(j) \/ ResumeJob(j)
    BY <1>1, <1>3, <2>2 DEF Release, ResumeJob, Is, Turns, Freed, Row
  <2>3. CASE WaitElapses(j) \/ \E e : AttachExecutor(j, e)
    BY <1>1, <1>3, <2>3 DEF WaitElapses, AttachExecutor, CanAttach, Turns, Rests, Row
  <2> QED BY <2>1, <2>2, <2>3
<1> QED BY <1>2, <1>3

LEMMA EnqueueTurns ==
    ASSUME TypeOK, NEW j \in Job, NEW at \in Job, Enqueue(j, at), NEW k \in Job,
           KindOf[j] = "episodes" \/ (Import /\ j = Imports[imported + 1])
    PROVE  Turns(k)
<1>1. job \in [Job -> Row] /\ Is(j, "absent")
  BY DEF TypeOK, Enqueue
<1>2. CASE k # j
  BY <1>1, <1>2 DEF Enqueue, Turns, Rests
<1>3. CASE k = j
  BY <1>1, <1>3 DEF Enqueue, Turns, Appears, Is, Row
<1> QED BY <1>2, <1>3

LEMMA ClaimTurns ==
    ASSUME TypeOK, NEW j \in Job, NEW k \in Job,
           \/ \E l \in Lanes, skip \in Skips : ClaimNext(j, {l}, skip)
           \/ \E x \in Steward : Claim(j, x)
    PROVE  Turns(k)
<1>1. job \in [Job -> Row] /\ Is(j, "queued")
  BY DEF TypeOK, ClaimNext, Claimable, Claim
<1>2. CASE k # j
  BY <1>1, <1>2 DEF ClaimNext, Claim, Turns, Rests
<1>3. CASE k = j
  <2>1. ASSUME NEW x \in Steward, Claim(j, x) PROVE TakenUp(j)
    <3> DEFINE row == [job[j] EXCEPT !.status = "claimed", !.by = x]
    <3>0. job' = [job EXCEPT ![j] = row]
      BY <1>1, <2>1 DEF Claim
    <3>1. Is(j, "claimed")' /\ job'[j].by = x
      BY <1>1, <3>0 DEF Is, Row
    <3> QED BY <1>1, <2>1, <3>1 DEF TakenUp
  <2>2. ASSUME NEW l \in Lanes, NEW skip \in Skips, ClaimNext(j, {l}, skip) PROVE TakenUp(j)
    <3>1. Is(j, "claimed")' /\ \A i \in Job \ {j} : job'[i] = job[i]
      BY <1>1, <2>2 DEF ClaimNext, Is, Row
    <3>2. KindOf[j] = "compile" => {l} = {"canonical"}
      BY <2>2 DEF ClaimNext, Claimable, Lane, LaneOf, DerivedLaneKinds
    <3>3. KindOf[j] = "compile" => ~SourceWorkOpen(j)
      BY <2>2, <3>2 DEF ClaimNext, Claimable
    <3> QED BY <1>1, <3>1, <3>3 DEF TakenUp
  <2> QED BY <1>3, <2>1, <2>2 DEF Turns
<1> QED BY <1>2, <1>3

LEMMA CompleteTurns ==
    ASSUME TypeOK, NEW j \in Job, NEW by, NEW who, Complete(j, by, who), AtItsEnd(j), NEW k \in Job
    PROVE  Turns(k)
<1>1. job \in [Job -> Row]
  BY DEF TypeOK
<1>2. CASE k # j
  BY <1>1, <1>2 DEF Complete, Update, Turns, Rests
<1>3. CASE k = j
  BY <1>1, <1>3 DEF Complete, Update, Turns, Rests, Finished, Is, Row
<1> QED BY <1>2, <1>3

LEMMA SweepTurns ==
    ASSUME TypeOK, NEW rows, RequeueClaimed(rows), NEW k \in Job
    PROVE  Turns(k)
BY DEF RequeueClaimed, TypeOK, Row, Is, Turns, Rests, Freed

LEMMA LaneTurns ==
    ASSUME RoundsTypeOK, Shapes, Commanding, NEW l \in Lanes, LaneWork(l) \/ LaneFault(l), NEW k \in Job
    PROVE  Turns(k)
<1>t. TypeOK
  BY DEF RoundsTypeOK
<1>1. ~At(l, {"idle"}) => slot[l].job \in Job
  BY LaneType
<1>2. slot[l].exec # None \/ At(l, Launched) => KindOf[slot[l].job] \in AgentKinds
  BY LaneType DEF Shapes, ShapeOf
<1>3. CASE \/ TakeLease(l) \/ OpenRound(l) \/ HarnessRefused(l) \/ MaterialGone(l) \/ DropLease(l)
           \/ LeaseLost(l) \/ Outage(l) \/ Exception(l) \/ AuthorityLost(l) \/ WorkerFinish(l)
  <2>1. UNCHANGED job
    BY <1>3 DEF TakeLease, OpenRound, HarnessRefused, MaterialGone, DropLease, LeaseLost, Outage,
       Exception, AuthorityLost, WorkerFinish, FinishRefused, FinishJudged, MintLease, Put, Delete,
       Lock, DropLeases, queueVars
  <2> QED BY <2>1, StillTurns
<1>4. CASE DrainClaim(l) \/ DrainClaimUnsettled(l)
  BY <1>t, <1>4, ClaimTurns, BoundsAssumption DEF DrainClaim, DrainClaimUnsettled
<1>5. CASE Attach(l)
  <2>1. slot[l].job \in Job
    BY <1>1, <1>5 DEF Attach, At
  <2> QED BY <1>t, <1>5, <2>1, RowTurns, StillTurns DEF Attach, queueVars
<1>6. CASE WorkerFinishing(l)
  <2>1. CASE FinishRecords(slot[l].exec)
    <3>1. command.job \in Job /\ AtItsEnd(command.job)
      BY <2>1 DEF FinishRecords, InCommand, RoundsTypeOK, Commanding, AtItsEnd
    <3> QED BY <1>t, <2>1, <3>1, CompleteTurns, RowTurns DEF FinishRecords
  <2>2. CASE ~FinishRecords(slot[l].exec)
    <3>1. UNCHANGED job
      BY <1>6, <2>2 DEF WorkerFinishing, FinishLands, FinishCloses, Put, Delete, queueVars
    <3> QED BY <3>1, StillTurns
  <2> QED BY <2>1, <2>2
<1>7. CASE WorkerAbandons(l)
  <2>1. slot[l].job \in Job
    BY <1>1, <1>7 DEF WorkerAbandons, At
  <2> QED BY <1>t, <1>7, <2>1, RowTurns, StillTurns DEF WorkerAbandons, queueVars
<1>8. CASE EndAttempt(l)
  <2>1. slot[l].job \in Job
    BY <1>1, <1>8 DEF EndAttempt, At, Ended
  <2>2. \/ UNCHANGED job
        \/ \E by : Park(slot[l].job, by)
        \/ At(l, Launched) /\ \E by, who : Complete(slot[l].job, by, who)
    BY <1>8 DEF EndAttempt, RoundIncomplete, HarnessUnavailable, DropRoundDraft, ParkJob, FailJob,
       DropDraft, Delete, queueVars, At, Launched
  <2>3. At(l, Launched) => AtItsEnd(slot[l].job)
    BY <1>2 DEF AtItsEnd
  <2> QED BY <1>t, <2>1, <2>2, <2>3, StillTurns, RowTurns, CompleteTurns
<1>9. CASE RunPlain(l)
  <2>1. slot[l].job \in Job
    BY <1>1, <1>9 DEF RunPlain, At
  <2>2. UNCHANGED job \/ \E i \in Job : KindOf[i] = "episodes" /\ Enqueue(i, slot[l].job)
    BY <1>9 DEF RunPlain, queueVars
  <2> QED BY <1>t, <2>1, <2>2, StillTurns, EnqueueTurns
<1>10. CASE PlainEnds(l)
  <2>1. slot[l].job \in Job /\ AtItsEnd(slot[l].job)
    BY <1>1, <1>10 DEF PlainEnds, At, AtItsEnd
  <2> QED BY <1>t, <1>10, <2>1, CompleteTurns DEF PlainEnds
<1>11. CASE OutageAtRecord(l)
  <2>1. slot[l].job \in Job /\ AtItsEnd(slot[l].job)
    BY <1>1, <1>2, <1>11 DEF OutageAtRecord, At, Launched, AtItsEnd
  <2>2. UNCHANGED job \/ \E who : Complete(slot[l].job, None, who)
    BY <1>11 DEF OutageAtRecord
  <2> QED BY <1>t, <2>1, <2>2, CompleteTurns, StillTurns
<1>12. CASE RideOut(l)
  <2>1. ASSUME NEW j \in Job, unwritten[j] # None, Complete(j, None, unwritten[j]) PROVE Turns(k)
    BY <1>t, <2>1, CompleteTurns DEF AtItsEnd
  <2> QED BY <1>t, <1>12, <2>1, SweepTurns, StillTurns DEF RideOut, queueVars
<1> QED BY <1>3, <1>4, <1>5, <1>6, <1>7, <1>8, <1>9, <1>10, <1>11, <1>12 DEF LaneWork, LaneFault

LEMMA StewardTurns ==
    ASSUME RoundsTypeOK, Commanding, NEW x \in Steward,
           StewardTypes(x) \/ StewardGoesOn(x) \/ StewardDies(x), NEW k \in Job
    PROVE  Turns(k)
<1>t. TypeOK
  BY DEF RoundsTypeOK
<1>1. CASE StewardOpens(x)
  BY <1>t, <1>1, ClaimTurns DEF StewardOpens
<1>2. CASE StewardPuts(x) \/ StewardFinishes(x) \/ StewardDies(x)
  <2>1. UNCHANGED job
    BY <1>2 DEF StewardPuts, StewardFinishes, StewardDies, FinishJudged, Put, Lock, Unlock
  <2> QED BY <2>1, StillTurns
<1>3. CASE StewardAbandons(x)
  BY <1>t, <1>3, RowTurns DEF StewardAbandons
<1>4. CASE StewardOpening(x)
  <2>1. command.job \in Job /\ (UNCHANGED job \/ Release(command.job))
    BY <1>4 DEF StewardOpening, InCommand, RoundsTypeOK, Put, Unlock
  <2> QED BY <1>t, <2>1, RowTurns, StillTurns
<1>5. CASE StewardFinishing(x)
  <2>1. CASE FinishRecords(x)
    <3>1. command.job \in Job /\ AtItsEnd(command.job)
      BY <2>1 DEF FinishRecords, InCommand, RoundsTypeOK, Commanding, AtItsEnd
    <3> QED BY <1>t, <2>1, <3>1, CompleteTurns, RowTurns DEF FinishRecords
  <2>2. CASE ~FinishRecords(x)
    <3>1. UNCHANGED job
      BY <1>5, <2>2 DEF StewardFinishing, FinishLands, FinishEvicted, FinishCloses, Put, Delete,
         Unlock, queueVars
    <3> QED BY <3>1, StillTurns
  <2> QED BY <2>1, <2>2
<1> QED BY <1>1, <1>2, <1>3, <1>4, <1>5 DEF StewardTypes, StewardGoesOn

LEMMA StepTurns ==
    ASSUME RoundsTypeOK, Shapes, Commanding, [RoundsNext]_vars, NEW k \in Job
    PROVE  Turns(k)
<1>t. TypeOK
  BY DEF RoundsTypeOK
<1>1. CASE Import
  <2>1. Imports[imported + 1] \in Job
    BY <1>1, ImportsAssumption DEF Import, RoundsTypeOK
  <2> QED BY <1>t, <1>1, <2>1, EnqueueTurns DEF Import
<1>2. CASE TimePasses \/ StewardResumes
  BY <1>t, <1>2, RowTurns, StillTurns DEF TimePasses, StewardResumes, DraftAges
<1>3. CASE Start \/ SelfHeal
  BY <1>t, <1>3, SweepTurns, StillTurns DEF Start, SelfHeal, queueVars
<1>4. CASE UNCHANGED vars \/ Crash
  BY <1>4, StillTurns DEF vars, queueVars, Crash, DropLeases
<1>5. ASSUME NEW e \in Launch, HarnessStep(e) PROVE Turns(k)
  BY <1>t, <1>5, RowTurns, StillTurns DEF HarnessStep, HarnessPut, HarnessAbandon, HarnessExit, Put,
     queueVars
<1> QED BY <1>1, <1>2, <1>3, <1>4, <1>5, LaneTurns, StewardTurns DEF RoundsNext

-----------------------------------------------------------------------------
(* A source's judgement is commissioned before its index row ends. *)

\* What process_index_job sees to: the sources are judged, or a row about them will.
Commissioned(i) ==
    \/ About[i] \subseteq judged
    \/ \E k \in Job : KindOf[k] = "episodes" /\ About[k] = About[i] /\ ~Is(k, "absent")

\* An index row whose body has come to its end, the completion written or not, has
\* commissioned its judgement.
Commissions ==
    \A i \in Job :
        /\ KindOf[i] = "index"
        /\ \/ Is(i, "done") \/ unwritten[i] # None
           \/ \E l \in Lanes : At(l, {"ran"}) /\ slot[l].job = i
        => Commissioned(i)

\* Compiles come from imports.
Imported ==
    \A c \in Job : KindOf[c] = "compile" /\ ~Is(c, "absent") => \E n \in 1 .. imported : Imports[n] = c

\* What is judged stays judged, and what is imported stays imported.
LEMMA StepGrows ==
    ASSUME [RoundsNext]_vars
    PROVE  judged \subseteq judged' /\ (Import \/ UNCHANGED imported)
<1>1. ASSUME NEW l \in Lanes, LaneWork(l) \/ LaneFault(l)
      PROVE  judged \subseteq judged' /\ UNCHANGED imported
  BY <1>1 DEF LaneWork, LaneFault, DrainClaim, DrainClaimUnsettled, TakeLease, Attach, OpenRound,
     AuthorityLost, WorkerFinish, WorkerFinishing, WorkerAbandons, DropLease, EndAttempt, RunPlain,
     PlainEnds, RideOut, HarnessRefused, Outage, OutageAtRecord, Exception, MaterialGone, LeaseLost,
     FinishRefused, FinishJudged, FinishLands, FinishRecords, FinishCloses, workerVars, budgetVars
<1>2. ASSUME NEW x \in Steward, StewardTypes(x) \/ StewardGoesOn(x) \/ StewardDies(x)
      PROVE  judged \subseteq judged' /\ UNCHANGED imported
  BY <1>2 DEF StewardTypes, StewardGoesOn, StewardDies, StewardOpens, StewardPuts,
     StewardFinishes, StewardAbandons, StewardOpening, StewardFinishing, FinishJudged, FinishLands,
     FinishEvicted, FinishRecords, FinishCloses, workerVars, budgetVars
<1>3. ASSUME NEW e \in Launch, HarnessStep(e) PROVE UNCHANGED <<judged, imported>>
  BY <1>3 DEF HarnessStep, HarnessPut, HarnessAbandon, HarnessExit, workerVars, roundVars, budgetVars
<1>4. CASE UNCHANGED vars \/ Import \/ TimePasses \/ Start \/ SelfHeal \/ Crash \/ StewardResumes
  BY <1>4 DEF vars, roundVars, Import, TimePasses, Start, SelfHeal, Crash, StewardResumes,
     workerVars, budgetVars
<1> QED BY <1>1, <1>2, <1>3, <1>4 DEF RoundsNext

LEMMA StepImported ==
    ASSUME RoundsTypeOK, Shapes, Commanding, Imported, [RoundsNext]_vars
    PROVE  Imported'
<1>1. imported' \in {imported, imported + 1} /\ imported \in Nat
  BY StepGrows DEF Import, RoundsTypeOK
<1>2. ASSUME NEW c \in Job, KindOf[c] = "compile", ~Is(c, "absent")'
      PROVE  \E n \in 1 .. imported' : Imports[n] = c
  <2>1. CASE ~Is(c, "absent")
    BY <1>1, <1>2, <2>1 DEF Imported
  <2>2. CASE Is(c, "absent")
    <3>1. Appears(c)
      BY <1>2, <2>2, StepTurns DEF Turns, Rests, TakenUp, Freed, Finished, Is
    <3>2. imported' = imported + 1 /\ c = Imports[imported + 1]
      BY <1>2, <3>1 DEF Appears, Import
    <3> QED BY <1>1, <3>2
  <2> QED BY <2>1, <2>2
<1> QED BY <1>2 DEF Imported

\* Nothing takes a commission back.
LEMMA CommissionStays ==
    ASSUME RoundsTypeOK, Shapes, Commanding, [RoundsNext]_vars, NEW i, Commissioned(i)
    PROVE  Commissioned(i)'
<1>1. ASSUME NEW k \in Job, ~Is(k, "absent") PROVE ~Is(k, "absent")'
  BY <1>1, StepTurns DEF Turns, Rests, Appears, TakenUp, Freed, Finished, Is
<1> QED BY <1>1, StepGrows DEF Commissioned

\* A lane comes to the end of an index row's body by commissioning its judgement.
LEMMA LaneCommissions ==
    ASSUME RoundsTypeOK, Shapes, NEW l \in Lanes, LaneWork(l) \/ LaneFault(l),
           slot'[l] # slot[l], At(l, {"ran"})', NEW i \in Job, slot'[l].job = i, KindOf[i] = "index"
    PROVE  Commissioned(i)'
<1>1. slot[l] \in SlotRows
  BY DEF RoundsTypeOK, SlotRows
<1>2. Goes(l)
  <2>1. slot'[l].at = "ran"
    BY DEF At
  <2>2. ~TakesRow(l)
    <3>1. TakesRow(l) => \E a \in {"claimed", "running", "unsettled"} : slot'[l].at = a
      BY DEF TakesRow
    <3> QED BY <2>1, <3>1
  <2>3. ~TakesLaunch(l)
    BY <1>1, <2>1 DEF TakesLaunch, SlotRows
  <2>4. ~Leaves(l)
    BY <2>1 DEF Leaves, Idle
  <2> QED BY <2>2, <2>3, <2>4, LaneMoves DEF Moves
<1>3. slot[l].at = "running" /\ slot[l].job = i
  BY <1>1, <1>2 DEF Goes, Arrow, At, SlotRows
<1>4. RunPlain(l)
  <2>1. CASE DropLease(l) \/ LeaseLost(l)
    BY <1>3, <2>1 DEF DropLease, LeaseLost, workerVars, At
  <2>2. CASE Outage(l) \/ Exception(l)
    <3>1. \E b \in {"riding", "failed"} : Become(l, b)
      BY <2>2 DEF Outage, Exception
    <3> QED BY <3>1 DEF Become, At, RoundsTypeOK
  <2> QED BY <1>3, <2>1, <2>2 DEF LaneWork, LaneFault, DrainClaim, DrainClaimUnsettled, TakeLease,
          Attach, OpenRound, AuthorityLost, WorkerFinish, WorkerFinishing, WorkerAbandons, EndAttempt,
          PlainEnds, RideOut, HarnessRefused, OutageAtRecord, MaterialGone, At, Ended
<1>5. CASE \E k \in Job : KindOf[k] = "episodes" /\ About[k] = About[i] /\ Is(k, "absent") /\ Enqueue(k, i)
  <2>1. PICK k \in Job : KindOf[k] = "episodes" /\ About[k] = About[i] /\ Enqueue(k, i)
    BY <1>5
  <2>2. ~Is(k, "absent")'
    BY <2>1 DEF Enqueue, Is, RoundsTypeOK, TypeOK, Row
  <2> QED BY <2>1, <2>2 DEF Commissioned
<1>6. CASE UNCHANGED queueVars /\ (About[i] \subseteq judged \/ JudgementPending(i))
  BY <1>4, <1>6 DEF RunPlain, Commissioned, JudgementPending, Is, queueVars
<1> QED BY <1>3, <1>4, <1>5, <1>6 DEF RunPlain

LEMMA StepCommissions ==
    ASSUME RoundsTypeOK, Shapes, Commanding, Commissions, [RoundsNext]_vars
    PROVE  Commissions'
<1>. SUFFICES ASSUME NEW i \in Job, KindOf[i] = "index",
                     \/ Is(i, "done")' \/ unwritten'[i] # None
                     \/ \E l \in Lanes : At(l, {"ran"})' /\ slot'[l].job = i
              PROVE  Commissioned(i)'
  BY DEF Commissions
<1>1. KindOf[i] \notin AgentKinds
  BY DEF AgentKinds
<1>2. AtItsEnd(i) \/ Is(i, "done") => Commissioned(i)'
  BY <1>1, CommissionStays DEF Commissions, AtItsEnd
<1>3. CASE Is(i, "done")'
  <2>1. Is(i, "done") \/ Finished(i)
    BY <1>3, StepTurns DEF Turns, Rests, Appears, TakenUp, Freed, Is
  <2> QED BY <1>2, <2>1 DEF Finished
<1>4. CASE unwritten'[i] # None
  <2>1. ASSUME NEW l \in Lanes, OutageAtRecord(l), i = slot[l].job PROVE AtItsEnd(i)
    <3>1. CASE At(l, {"ran"})
      BY <2>1, <3>1 DEF AtItsEnd
    <3>2. CASE At(l, {"finishing"})
      BY <2>1, <3>2, LaneType DEF At, Launched, AtItsEnd
    <3> QED BY <2>1, <3>1, <3>2 DEF OutageAtRecord
  <2>2. ASSUME NEW l \in Lanes, OutageAtRecord(l), i # slot[l].job PROVE unwritten[i] # None
    BY <1>4, <2>2 DEF OutageAtRecord, RoundsTypeOK
  <2>3. ASSUME NEW l \in Lanes, LaneWork(l) \/ LaneFault(l), ~OutageAtRecord(l)
        PROVE  unwritten[i] # None
    <3>1. UNCHANGED unwritten \/ \E j \in Job : unwritten' = [unwritten EXCEPT ![j] = None]
      BY <2>3, LaneUnwritten
    <3> QED BY <1>4, <3>1 DEF RoundsTypeOK
  <2>4. ASSUME Outside \/ (\E e \in Launch : HarnessExit(e)) PROVE unwritten[i] # None
    BY <1>4, <2>4, OutsideStill DEF HarnessExit
  <2>5. ~Crash
    BY <1>4 DEF Crash
  <2> QED BY <1>2, <2>1, <2>2, <2>3, <2>4, <2>5, StepParts DEF AtItsEnd
<1>5. ASSUME NEW l \in Lanes, At(l, {"ran"})', slot'[l].job = i PROVE Commissioned(i)'
  <2>1. CASE slot'[l] = slot[l]
    BY <1>2, <1>5, <2>1 DEF At, AtItsEnd
  <2>2. CASE Outside \/ Crash
    BY <1>5, <2>1, <2>2, OutsideStill DEF Crash, At, Idle
  <2>3. ASSUME NEW e \in Launch, HarnessExit(e) PROVE slot'[l] = slot[l]
    <3>1. slot[l] \in SlotRows /\ slot'[l].at = "ran"
      BY <1>5 DEF RoundsTypeOK, SlotRows, At
    <3>2. Exits(e)
      BY <2>3, HarnessExits
    <3>3. slot'[l] # [slot[l] EXCEPT !.at = "ended"] /\ slot'[l] # [slot[l] EXCEPT !.at = "reended"]
      BY <3>1 DEF SlotRows
    <3> QED BY <3>2, <3>3 DEF Exits
  <2>4. ASSUME NEW m \in Lanes, LaneWork(m) \/ LaneFault(m), slot'[l] # slot[l] PROVE Commissioned(i)'
    <3>1. m = l
      BY <2>4, LaneMoves DEF Moves
    <3> QED BY <1>5, <2>4, <3>1, LaneCommissions
  <2> QED BY <2>1, <2>2, <2>3, <2>4, StepParts
<1> QED BY <1>3, <1>4, <1>5

\* The queue holds a compile back while derived rows of its sources are open, an index row
\* commissions the judgement before it ends, and no import writes an index row behind the
\* compile that names its source.
LEMMA StepSees ==
    ASSUME RoundsTypeOK, Shapes, Commanding, Commissions, Imported, CompileSeesJudgement,
           [Next]_queueVars, [RoundsNext]_vars
    PROVE  CompileSeesJudgement'
<1> DEFINE Judged(i) == \/ About[i] \subseteq judged
                        \/ \E k \in Job : KindOf[k] = "episodes" /\ About[k] = About[i] /\ Is(k, "done")
<1>. SUFFICES ASSUME NEW c \in Job, NEW i \in Job, KindOf[c] = "compile", Is(c, "claimed")',
                     job'[c].by \in Launch \cup {Worker},
                     KindOf[i] = "index", ~Is(i, "absent")', About[i] \subseteq About[c]
              PROVE  (Is(i, "done") /\ Judged(i))'
  BY DEF CompileSeesJudgement
<1>1. About[i] # {} /\ i # c
  BY ImportOrderAssumption
<1>2. Is(i, "done") /\ Judged(i) => (Is(i, "done") /\ Judged(i))'
  <2>1. EndedStays
    BY StepEndedStays DEF RoundsTypeOK
  <2> QED BY <2>1, StepGrows DEF EndedStays
<1>3. CASE TakenUp(c)
  <2>1. job'[c].by \notin Steward
    BY NamesAssumption DEF Executor
  <2>2. ~SourceWorkOpen(c) /\ job'[i] = job[i]
    BY <1>1, <1>3, <2>1 DEF TakenUp
  <2>3. ASSUME NEW k \in Job, KindOf[k] \in SourceDerivedKinds, About[k] = About[i], ~Is(k, "absent")
        PROVE  Is(k, "done")
    <3>1. About[k] \cap About[c] # {}
      BY <1>1, <2>3
    <3>2. ~Open(k) /\ job[k].status \in Statuses
      BY <2>2, <2>3, <3>1 DEF SourceWorkOpen, RoundsTypeOK, TypeOK, Row
    <3> QED BY <2>3, <3>2 DEF Open, Is, Statuses
  <2>4. Is(i, "done")
    BY <2>2, <2>3 DEF SourceDerivedKinds, Is
  <2>5. Commissioned(i)
    BY <2>4 DEF Commissions
  <2>6. Judged(i)
    BY <2>3, <2>5 DEF Commissioned, SourceDerivedKinds
  <2> QED BY <1>2, <2>4, <2>6
<1>4. CASE Rests(c)
  <2>1. Is(c, "claimed") /\ job[c].by \in Launch \cup {Worker}
    BY <1>4 DEF Rests, Is
  <2>2. CASE ~Is(i, "absent")
    BY <1>2, <2>1, <2>2 DEF CompileSeesJudgement
  <2>3. CASE Is(i, "absent")
    <3>1. Appears(i)
      BY <2>3, StepTurns DEF Turns, Rests, TakenUp, Freed, Finished, Is
    <3>2. Import /\ i = Imports[imported + 1]
      BY <3>1 DEF Appears
    <3>3. PICK n \in 1 .. imported : Imports[n] = c
      BY <2>1 DEF Imported, Is
    <3>4. imported \in Nat /\ imported < Len(Imports) /\ Len(Imports) \in Nat
      BY <3>2, ImportsAssumption DEF Import, RoundsTypeOK
    <3>5. n \in DOMAIN Imports /\ imported + 1 \in DOMAIN Imports /\ ~(imported + 1 < n)
      BY <3>4, ImportsAssumption
    <3> QED BY <3>2, <3>3, <3>5, ImportOrderAssumption
  <2> QED BY <2>2, <2>3
<1> QED BY <1>3, <1>4, StepTurns DEF Turns, Appears, Freed, Finished, Is

-----------------------------------------------------------------------------
(* The invariant, and what it gives. *)

RoundsInv ==
    /\ RoundsTypeOK
    /\ Shapes /\ Down
    /\ Leases /\ Commanding
    /\ Claims /\ Drafts
    /\ Unwritten /\ RunningRows
    /\ Free /\ KeptIsNobodys
    /\ Owned /\ KeptApart
    /\ LaneReserved
    /\ Commissions /\ Imported /\ CompileSeesJudgement

LEMMA RoundsInitHolds == RoundsInit => RoundsInv
<1> SUFFICES ASSUME RoundsInit PROVE RoundsInv
  OBVIOUS
<1>1. TypeOK /\ LaneReserved
  BY InitHolds DEF RoundsInit
<1>2. None \notin Launch /\ None \notin Executor
  BY NamesAssumption DEF Claimer, Executor
<1>3. \A j \in Job : draft[j] = None /\ job[j].by = None
  BY DEF RoundsInit, Init
<1>4. \A l \in Lanes : slot[l] = Idle
  BY DEF RoundsInit
<1>5. RoundsTypeOK
  <2>1. slot \in [Lanes -> SlotRows]
    BY DEF RoundsInit, Idle, SlotRows, Phases
  <2>2. imported \in 0 .. Len(Imports) /\ faults \in 0 .. Faults /\ commands \in 0 .. Commands
    <3>1. Len(Imports) \in Nat
      BY ImportsAssumption
    <3> QED BY <3>1, RoundBoundsAssumption DEF RoundsInit
  <2> QED BY <1>1, <2>1, <2>2 DEF RoundsInit, RoundsTypeOK, SlotRows
<1>6. Shapes /\ Down /\ RunningRows
  BY <1>4 DEF Shapes, ShapeOf, Down, RunningRows, At, Idle, Launched
<1>7. Leases /\ Commanding
  BY <1>2, <1>4 DEF Leases, Commanding, Born, At, Idle, Holding, RoundsInit, Init
<1>8. Claims /\ Drafts /\ Unwritten /\ Free /\ KeptIsNobodys /\ Owned /\ KeptApart
  BY <1>2, <1>3 DEF Claims, Drafts, Unwritten, Free, KeptIsNobodys, Owned, KeptApart, RoundsInit
<1>9. Commissions /\ Imported /\ CompileSeesJudgement
  <2>1. \A j \in Job : Is(j, "absent") /\ unwritten[j] = None
    BY DEF RoundsInit, Init, Is
  <2> QED BY <1>4, <2>1 DEF Commissions, Imported, CompileSeesJudgement, At, Idle, Is
<1> QED BY <1>1, <1>5, <1>6, <1>7, <1>8, <1>9 DEF RoundsInv

LEMMA RoundsStepHolds ==
    RoundsInv /\ [RoundsNext]_vars => RoundsInv' /\ [Next]_queueVars /\ WorkSurvives
<1> SUFFICES ASSUME RoundsInv, [RoundsNext]_vars
             PROVE  RoundsInv' /\ [Next]_queueVars /\ WorkSurvives
  OBVIOUS
<1>1. Calls /\ [Next]_queueVars /\ TypeOK
  BY StepCalls DEF RoundsInv, Calls, RoundsTypeOK
<1>2. TypeOK' /\ LaneReserved' /\ Free'
  BY <1>1, StepType, StepLaneReserved, StepFree DEF RoundsInv
<1>3. slot' \in [Lanes -> SlotRows] /\ Shapes' /\ Down' /\ Plain'
  BY StepShapes, StepDown, StepPlain DEF RoundsInv
<1>4. Leases' /\ Commanding' /\ command' \in CommandRows \cup {None}
  BY <1>1, StepLeases, StepCommanding DEF RoundsInv
<1>5. Claims' /\ Drafts' /\ KeptIsNobodys'
  BY <1>1, StepClaims, StepDrafts, StepKept DEF RoundsInv
<1>6. Unwritten' /\ RunningRows'
  BY StepUnwritten, StepRunning DEF RoundsInv
<1>7. RoundsTypeOK'
  BY <1>2, <1>3, <1>4 DEF RoundsTypeOK, SlotRows, Plain, CommandRows, Commanding
<1>8. Owned' /\ KeptApart' /\ WorkSurvives
  BY <1>2, StepOwned, StepSurvives DEF RoundsInv
<1>9. Commissions' /\ Imported' /\ CompileSeesJudgement'
  BY <1>1, StepCommissions, StepImported, StepSees DEF RoundsInv
<1> QED BY <1>1, <1>2, <1>3, <1>4, <1>5, <1>6, <1>7, <1>8, <1>9 DEF RoundsInv

LEMMA RoundsKeepInv == RoundsSpec => []RoundsInv
<1>1. RoundsInv /\ [RoundsNext]_vars => RoundsInv'
  BY RoundsStepHolds
<1> QED BY <1>1, RoundsInitHolds, PTL DEF RoundsSpec

\* Every value the worker, the harnesses and the Stewards' commands keep has its type, and
\* nobody is inside a command that holds no lock.
THEOREM RoundsTypes == RoundsSpec => []RoundsTypeOK
<1>1. RoundsInv => RoundsTypeOK
  BY DEF RoundsInv
<1> QED BY <1>1, RoundsKeepInv, PTL

\* The round runner, the drain, the self-heal and the commands reach the queue through its
\* operations alone, with arguments it allows: each of their steps is one of its steps or
\* none, so every theorem about the queue's Spec is one about them.
THEOREM RoundsCallTheQueue == RoundsSpec => RoundsUseQueue
<1>1. RoundsInit => Init
  BY DEF RoundsInit
<1>2. RoundsInv /\ [RoundsNext]_vars => [Next]_queueVars
  BY RoundsStepHolds
<1> QED BY <1>1, <1>2, RoundsKeepInv, PTL DEF RoundsSpec, RoundsUseQueue, Spec

\* What the queue's own theorems say holds with the real callers around it: one reservation per
\* lane, drafts owned by their row's claimer, lanes that pass only through being free, and rows
\* that do not come back, across worker deaths, harnesses that outlive it, and Stewards.
THEOREM QueuePromisesHold ==
  RoundsSpec => []LaneReserved /\ []ClaimFollowsDraft /\ LanesHandOver /\ NeverRevived
<1>1. RoundsSpec => Spec
  BY RoundsCallTheQueue DEF RoundsUseQueue
<1> QED BY <1>1, LanesStayReserved, ClaimsFollowDrafts, QueueHandsLanesOver, EndedRowsStay, PTL

\* However many rows, launches, Stewards and failures: a body about to change the library
\* (a judged finish, a groom or archive in the drain) has the canonical lane to itself.
THEOREM OneWriter == RoundsSpec => []WriterFenced
<1>1. RoundsInv => WriterFenced
  <2>1. SUFFICES ASSUME RoundsInv, NEW j \in Writers PROVE Reserved("canonical") = {j}
    BY DEF WriterFenced
  <2>2. Lane(j) = "canonical"
    BY <2>1 DEF Writers
  <2>3. j \in Job /\ Reserves(j)
    <3>1. CASE command # None /\ command.job = j /\ command.step = "judged"
      BY <2>1, <3>1 DEF RoundsInv, RoundsTypeOK, Commanding, Reserves
    <3>2. CASE \E m \in Lanes : j = slot[m].job /\ At(m, {"running"})
      BY <2>1, <3>2, LaneType DEF RoundsInv, RunningRows, At, Reserves
    <3> QED BY <2>1, <3>1, <3>2 DEF Writers
  <2> QED BY <2>2, <2>3, <2>1 DEF RoundsInv, LaneReserved, Reserved
<1> QED BY <1>1, RoundsKeepInv, PTL

\* A draft marked to be continued was left by a launch that is dead for good, holds its
\* work, and no row names that launch any more: whoever continues it has no rival.
THEOREM KeptDraftsAreNobodys == RoundsSpec => []KeptIsNobodys
<1>1. RoundsInv => KeptIsNobodys
  BY DEF RoundsInv
<1> QED BY <1>1, RoundsKeepInv, PTL

\* What a dead launch left behind is continued as it stands: through self-heals, adoptions and
\* whatever fails in between, a kept draft's body never changes, and it ends only by a person's
\* command, with its row, or at the hands of a harness that outlived its worker.
THEOREM KeptWorkIsContinued == RoundsSpec => KeptWorkSurvives
<1>1. RoundsInv /\ [RoundsNext]_vars => [WorkSurvives]_vars
  BY RoundsStepHolds
<1> QED BY <1>1, RoundsKeepInv, PTL DEF RoundsSpec, KeptWorkSurvives, WorkSurvives

\* Whatever crashes, outages and replays come between: a compile the drain runs has every
\* index row of its sources ended, and each source judged or its judgement ended for good.
THEOREM JudgedBeforeCompiled == RoundsSpec => []CompileSeesJudgement
<1>1. RoundsInv => CompileSeesJudgement
  BY DEF RoundsInv
<1> QED BY <1>1, RoundsKeepInv, PTL
=============================================================================
