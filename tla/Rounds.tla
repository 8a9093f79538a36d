------------------------------- MODULE Rounds -------------------------------
(***************************************************************************)
(* Who calls the queue, and in what order: one worker process draining     *)
(* both lanes of a library under a coding-agent executor (unattended       *)
(* posture), the harnesses it launches, Stewards typing `pkc` commands at  *)
(* a terminal, and the self-heal.  The worker may be killed anywhere and   *)
(* restarted, a database call may fail before or after it took effect, a   *)
(* harness may outlive the worker that launched it.                        *)
(*                                                                         *)
(* Every step performs exactly one operation of JobQueue.                  *)
(***************************************************************************)
EXTENDS JobQueue, Sequences

CONSTANTS
    Imports,     \* the rows imports write, in that order (index before its compile)
    Faults,      \* bound: crashes, outages, exceptions and rounds that come to nothing
    Commands     \* bound: commands Stewards type

ASSUME ImportsAssumption == Imports \in Seq(Job)

\* An import writes a source's index row ahead of the compile that names the source.  What
\* `pkc jobs requeue` and POST /compile write beside an import is not modelled.
ASSUME ImportOrderAssumption ==
    /\ \A j \in Job : KindOf[j] = "index" => About[j] # {}
    /\ \A m, n \in DOMAIN Imports :
          /\ KindOf[Imports[m]] = "index" /\ KindOf[Imports[n]] = "compile"
          /\ About[Imports[m]] \subseteq About[Imports[n]]
          => m < n

ASSUME RoundBoundsAssumption == Faults \in Nat /\ Commands \in Nat

\* Not modelled here: the finish an evolve round has of its own (cli/evolve.py), and the
\* dispatch of a kind without a body.
ASSUME RoundKindsAssumption == \A j \in Job : KindOf[j] \notin {"evolve", "unclassified"}

VARIABLES
    up,        \* is the worker process running
    slot,      \* per lane: what the lane's drain loop is doing, and for which row
    unwritten, \* unwritten_completions: rows whose completion an outage kept from landing
    harness,   \* the launches whose harness process is running
    command,   \* the multi-step command the lock's holder is inside, if any
    judged,    \* sources with a kept episodes judgement
    imported,  \* how many of Imports are written
    faults, commands

workerVars == <<up, slot, unwritten>>
budgetVars == <<imported, faults, commands>>
roundVars  == <<up, slot, unwritten, harness, command, judged, imported, faults, commands>>
vars       == <<queueVars, roundVars>>

(* What a drain loop is doing with its row:                                 *)
(*   claimed leased attached  run_job up to open_round                      *)
(*   first second             the first and the repair launch of a harness  *)
(*   ended reended            a harness exited: _open_state comes next      *)
(*   finishing                the worker is inside the finish command       *)
(*   abandoning               nothing left to try: cmd_abandon              *)
(*   over                     run_job returned and the row needs nothing    *)
(*   left refused             it returned: ROUND_INCOMPLETE, UNAVAILABLE    *)
(*   dropping                 a refused row is parked, its draft is not     *)
(*   failed parking           an exception: _park_job, then inside its lock *)
(*   hopeless failing         one no retry can cure: _fail_job, likewise    *)
(*   running ran              a row without a harness, and its last write   *)
(*   riding unsettled         ride_out, with and without an in-flight mark  *)
Ended == {"over", "left", "refused", "failed", "hopeless", "riding"}
Phases ==
    {"idle", "claimed", "leased", "attached", "first", "second", "ended", "reended",
     "finishing", "abandoning", "dropping", "parking", "failing", "running", "ran", "unsettled"}
    \cup Ended

Idle == [job |-> None, exec |-> None, at |-> "idle"]

RoundsTypeOK ==
    /\ TypeOK
    /\ up \in BOOLEAN
    /\ slot \in [Lanes -> [job : Job \cup {None}, exec : Launch \cup {None}, at : Phases]]
    /\ unwritten \in [Job -> Claimer \cup {None}]
    /\ harness \subseteq Launch
    /\ command \in [job : Job, step : {"opening", "judged", "committed", "noop", "aborted", "closing"}]
                   \cup {None}
    /\ command # None => lock # None
    /\ judged \subseteq Source
    /\ imported \in 0 .. Len(Imports) /\ faults \in 0 .. Faults /\ commands \in 0 .. Commands

RoundsInit ==
    /\ Init
    /\ up = FALSE
    /\ slot = [l \in Lanes |-> Idle]
    /\ unwritten = [j \in Job |-> None]
    /\ harness = {}
    /\ command = None
    /\ judged = {}
    /\ imported = 0 /\ faults = 0 /\ commands = 0

-----------------------------------------------------------------------------
At(l, phases) == slot[l].at \in phases
Become(l, at) == slot' = [slot EXCEPT ![l].at = at]
Fault == faults < Faults /\ faults' = faults + 1
Type  == commands < Commands /\ commands' = commands + 1

\* require_owner: the draft's owner, and a row that is still claimed by anybody.
Owns(x, j) == draft[j] # None /\ draft[j].owner = x /\ Is(j, "claimed")

\* in_flight_jobs: an ambiguous claim left no mark.
InFlight == {slot[l].job : l \in {m \in Lanes : ~At(m, {"idle", "unsettled"})}}

\* The doors whose open continues a dead launch's draft; `pkc evolve draft` and
\* `pkc index episodes` refuse any draft another executor owns (require_open_slot).
AdoptingKinds == {"compile", "review"}

-----------------------------------------------------------------------------
(* The world outside the worker. *)

\* An import writes its rows; an index row commissions its own episodes row.
Import ==
    /\ imported < Len(Imports)
    /\ Enqueue(Imports[imported + 1], Imports[imported + 1])
    /\ imported' = imported + 1
    /\ UNCHANGED <<workerVars, harness, command, judged, faults, commands>>

TimePasses ==
    /\ \E j \in Job : WaitElapses(j) \/ DraftAges(j)
    /\ UNCHANGED roundVars

-----------------------------------------------------------------------------
(* The worker process: start, periodic self-heal, drain. *)

\* run_forever: the startup self-heal skips a library whose command lock is held.
Start ==
    /\ ~up /\ up' = TRUE
    /\ RequeueClaimed(Job) \/ (lock # None /\ UNCHANGED queueVars)
    /\ UNCHANGED <<slot, unwritten, harness, command, judged, budgetVars>>

\* _selfheal_forever
SelfHeal ==
    /\ up
    /\ RequeueClaimed(Job \ InFlight)
    /\ UNCHANGED roundVars

\* drain_user: the claim and its mark are one step (_CLAIM_GATE).
DrainClaim(l) ==
    /\ up /\ At(l, {"idle"})
    /\ \E j \in Job, skip \in Skips :
          /\ ClaimNext(j, {l}, skip)
          /\ slot' = [slot EXCEPT ![l] =
                        [job |-> j, exec |-> None,
                         at |-> IF KindOf[j] \in AgentKinds THEN "claimed" ELSE "running"]]
    /\ UNCHANGED <<up, unwritten, harness, command, judged, budgetVars>>

\* The claim's COMMIT landed and its answer did not: unsettled_claim names the row.
DrainClaimUnsettled(l) ==
    /\ up /\ At(l, {"idle"})
    /\ Fault
    /\ \E j \in Job : /\ ClaimNext(j, {l}, {})
                      /\ slot' = [slot EXCEPT ![l] =
                                    [job |-> j, exec |-> None, at |-> "unsettled"]]
    /\ UNCHANGED <<up, unwritten, harness, command, judged, imported, commands>>

-----------------------------------------------------------------------------
(* AgentRoundRunner.run_job *)

\* A fresh uuid per launch.
TakeLease(l) ==
    /\ At(l, {"claimed"})
    /\ \E e \in {f \in Launch : launch[f] = "unborn"} :
          /\ e = CHOOSE f \in Launch : launch[f] = "unborn"
          /\ MintLease(e)
          /\ slot' = [slot EXCEPT ![l].exec = e, ![l].at = "leased"]
    /\ UNCHANGED <<up, unwritten, harness, command, judged, budgetVars>>

\* Faulty variant of Attach: the row is assumed to be still the drain's.
AttachBlindly(l) ==
    LET j == slot[l].job
    IN  /\ At(l, {"leased"}) /\ lock = None
        /\ job' = [job EXCEPT ![j].by = slot[l].exec] /\ UNCHANGED <<draft, launch, lock>>
        /\ Become(l, "attached")
        /\ UNCHANGED <<up, unwritten, harness, command, judged, budgetVars>>

\* Refused when an abandon typed meanwhile released the row: the launch never starts.
Attach(l) ==
    LET j == slot[l].job
    IN  /\ At(l, {"leased"}) /\ lock = None
        /\ \/ AttachExecutor(j, slot[l].exec) /\ lock' = None /\ Become(l, "attached")
           \/ ~CanAttach(j) /\ UNCHANGED queueVars /\ Become(l, "failed")
        /\ UNCHANGED <<up, unwritten, harness, command, judged, budgetVars>>

\* open_round(claim=False): continue a kept draft, or begin a blank one.
CanOpen(e, j) ==
    /\ MayPut(e, j, TRUE)
    /\ draft[j] # None => draft[j].kept /\ KindOf[j] \in AdoptingKinds

\* Faulty variant of OpenRound: a continued round starts over.
OpenRoundBlank(l) ==
    LET j == slot[l].job
        e == slot[l].exec
    IN  /\ At(l, {"attached"}) /\ lock = None
        /\ CanOpen(e, j) /\ Put(e, j, TRUE, "blank") /\ lock' = None
        /\ harness' = harness \cup {e}
        /\ Become(l, "first")
        /\ UNCHANGED <<up, unwritten, command, judged, budgetVars>>

OpenRound(l) ==
    LET j == slot[l].job
        e == slot[l].exec
    IN  /\ At(l, {"attached"}) /\ lock = None
        /\ \/ /\ CanOpen(e, j)
              /\ Put(e, j, TRUE, IF draft[j] = None THEN "blank" ELSE draft[j].body)
              /\ lock' = None
              /\ harness' = harness \cup {e}
              /\ Become(l, "first")
           \/ /\ ~CanOpen(e, j)
              /\ UNCHANGED <<queueVars, harness>>
              /\ Become(l, "failed")
        /\ UNCHANGED <<up, unwritten, command, judged, budgetVars>>

-----------------------------------------------------------------------------
(* The harness: its own processes, typing `pkc draft` as e.  It never commits: *)
(* a finish the gate accepts is handed off, one it refuses opens the repair.   *)
HarnessPut(e) ==
    /\ e \in harness
    /\ \E j \in Job :
          /\ Owns(e, j)
          /\ \E body \in {draft[j].body, "written", "repair"} :
                /\ draft[j].body = "repair" => body = "repair"
                /\ Put(e, j, FALSE, body)
          /\ lock' = None
    /\ UNCHANGED roundVars

\* cmd_abandon looks at the draft's owner only: it also works for a dead launch's harness.
HarnessAbandon(e) ==
    /\ e \in harness /\ lock = None /\ Fault
    /\ \E j \in Job : Abandon(e, j, FALSE) /\ lock' = None
    /\ UNCHANGED <<workerVars, harness, command, judged, imported, commands>>

\* The launcher sees the exit (or ends the process on its timeout) when it is still there.
\* A judgement round that ends with no proposal can only be refused: it needs a Fault left.
HarnessExit(e) ==
    /\ e \in harness /\ harness' = harness \ {e}
    /\ (\E j \in Job : KindOf[j] = "episodes" /\ Owns(e, j) /\ draft[j].body = "blank")
          => faults < Faults
    /\ slot' = [l \in Lanes |->
                  IF slot[l].exec # e THEN slot[l]
                  ELSE [slot[l] EXCEPT !.at = CASE @ = "first"  -> "ended"
                                                [] @ = "second" -> "reended"
                                                [] OTHER        -> @]]
    /\ UNCHANGED <<queueVars, up, unwritten, command, judged, budgetVars>>

-----------------------------------------------------------------------------
(* cmd_finish, typed by the worker for its launch or by a Steward for itself.  *)
(* The whole command runs under the lock.                                      *)

\* The overview is owed, or the gate refuses a first round: the draft stays open.
FinishRefused(x, j) ==
    /\ Owns(x, j) /\ lock = None /\ Fault
    /\ \/ Put(x, j, FALSE, draft[j].body)
       \/ draft[j].body # "repair" /\ Put(x, j, FALSE, "repair")
    /\ lock' = None
    /\ UNCHANGED <<command, judged>>

\* The store's last word before the commit: a body that lost its claim stops here.  An
\* episodes round is stored after its manifest instead, and must hold a proposal.
FinishJudged(x, j) ==
    /\ Owns(x, j) /\ lock = None
    /\ IF KindOf[j] = "episodes"
       THEN draft[j].body # "blank" /\ Lock(x)
       ELSE Put(x, j, FALSE, draft[j].body)
    /\ lock' = x
    /\ command' = [job |-> j, step |-> "judged"]
    /\ UNCHANGED <<judged, faults>>

InCommand(x, step) == lock = x /\ command # None /\ command.step = step
Proceed(step) == command' = [command EXCEPT !.step = step]

\* finalize_compile, or the kept manifest of an episodes round and its draft.
FinishLands(x) ==
    LET j == command.job
    IN  /\ InCommand(x, "judged")
        /\ \/ /\ KindOf[j] # "episodes" /\ draft[j].body # "blank"
              /\ Proceed("committed")
              /\ UNCHANGED <<queueVars, judged, faults>>
           \/ /\ KindOf[j] = "episodes"
              /\ Put(x, j, FALSE, draft[j].body) /\ lock' = x
              /\ Proceed("committed")
              /\ judged' = judged \cup About[j]
              /\ UNCHANGED faults
           \/ /\ KindOf[j] # "episodes"
              /\ Proceed("noop")
              /\ UNCHANGED <<queueVars, judged, faults>>
           \/ /\ draft[j].body = "repair" /\ Fault
              /\ Proceed("aborted")
              /\ UNCHANGED <<queueVars, judged>>

\* persist_compile_result: the row is completed, or parked when the gate aborted the
\* round; neither write names the claim it ends.
FinishRecords(x) ==
    /\ \/ /\ InCommand(x, "committed") \/ InCommand(x, "noop")
          /\ Complete(command.job, None, x)
       \/ /\ InCommand(x, "aborted")
          /\ Park(command.job, None)
    /\ lock' = x
    /\ Proceed("closing")
    /\ UNCHANGED <<judged, faults>>

FinishCloses(x) ==
    /\ InCommand(x, "closing")
    /\ Delete(x, command.job) /\ lock' = None
    /\ command' = None
    /\ UNCHANGED <<judged, faults>>

-----------------------------------------------------------------------------
(* The runner once its harness has exited. *)

\* _open_state: an explicit takeover or an expiry ended this launch's authority; a finish
\* that ended the row but not its own cleanup leaves a draft to delete, one that refused the
\* round leaves the row to park.
AuthorityLost(l) ==
    LET j == slot[l].job
        e == slot[l].exec
        leftover == Is(j, "done") /\ job[j].by = e /\ draft[j] # None /\ draft[j].owner = e
        refused  == Is(j, "claimed") /\ job[j].by = e /\ draft[j] = None
    IN  /\ At(l, {"ended", "reended"}) /\ lock = None
        /\ ~Owns(e, j)
        /\ IF leftover THEN Delete(e, j) /\ lock' = None ELSE UNCHANGED queueVars
        /\ Become(l, IF refused THEN "left" ELSE "over")
        /\ UNCHANGED <<up, unwritten, harness, command, judged, budgetVars>>

\* _never_ran: the first launch was refused and typed nothing.
HarnessRefused(l) ==
    LET j == slot[l].job
    IN  /\ At(l, {"ended"}) /\ lock = None
        /\ Owns(slot[l].exec, j) /\ draft[j].body = "blank"
        /\ Fault /\ Become(l, "refused")
        /\ UNCHANGED <<queueVars, up, unwritten, harness, command, judged, imported, commands>>

\* _worker_finish: a refused first finish earns one repair launch, a second none.
WorkerFinish(l) ==
    LET j == slot[l].job
        e == slot[l].exec
        repaired == draft[j].body = "repair"
    IN  /\ At(l, {"ended", "reended"}) /\ Owns(e, j) /\ lock = None
        /\ \/ /\ At(l, {"ended"}) /\ ~repaired /\ FinishRefused(e, j)
              /\ harness' = harness \cup {e} /\ Become(l, "second")
           \* The harness's own finish met the gate already: straight to the repair launch.
           \/ /\ At(l, {"ended"}) /\ repaired
              /\ harness' = harness \cup {e} /\ Become(l, "second")
              /\ UNCHANGED <<queueVars, command, judged, faults>>
           \/ /\ At(l, {"reended"}) /\ FinishRefused(e, j)
              /\ Become(l, "abandoning") /\ UNCHANGED harness
           \/ /\ At(l, {"reended"}) \/ ~repaired
              /\ FinishJudged(e, j)
              /\ Become(l, "finishing") /\ UNCHANGED harness
        /\ UNCHANGED <<up, unwritten, imported, commands>>

WorkerFinishing(l) ==
    LET e == slot[l].exec
    IN  /\ At(l, {"finishing"})
        /\ \/ FinishLands(e) /\ UNCHANGED slot
           \/ FinishRecords(e) /\ UNCHANGED slot
           \/ FinishCloses(e) /\ Become(l, "over")
           \* A launch that timed out or crashed and left nothing to commit: the draft
           \* goes, the row stays claimed for the worker to park (EXIT_INCOMPLETE).
           \/ /\ InCommand(e, "noop") /\ Fault
              /\ Delete(e, slot[l].job) /\ lock' = None
              /\ command' = None /\ UNCHANGED judged
              /\ Become(l, "left")
        /\ UNCHANGED <<up, unwritten, harness, imported, commands>>

\* Nothing left to try: cmd_abandon releases the job.
WorkerAbandons(l) ==
    LET j == slot[l].job
        e == slot[l].exec
    IN  /\ At(l, {"abandoning"}) /\ lock = None
        /\ \/ Abandon(e, j, FALSE) /\ lock' = None
           \/ ~(draft[j] # None /\ draft[j].owner = e) /\ UNCHANGED queueVars
        /\ Become(l, "over")
        /\ UNCHANGED <<up, unwritten, harness, command, judged, budgetVars>>

\* run_job returns or raises: the lease's connection goes back.
DropLease(l) ==
    /\ At(l, Ended) /\ Alive(slot[l].exec)
    /\ DropLeases({slot[l].exec}) /\ lock' = lock
    /\ UNCHANGED <<workerVars, harness, command, judged, budgetVars>>

NextRow(l)     == slot' = [slot EXCEPT ![l] = Idle]
Leftover(e, j) == draft[j] # None /\ draft[j].owner = e

\* _round_incomplete: the round accounted for nothing.
RoundIncomplete(l) ==
    /\ At(l, {"left"})
    /\ Park(slot[l].job, slot[l].exec) /\ lock' = lock
    /\ NextRow(l)

\* _harness_unavailable: parked, or completed when the input can never fit (input_too_large).
HarnessUnavailable(l) ==
    LET j == slot[l].job
        e == slot[l].exec
    IN  /\ At(l, {"refused"})
        /\ Park(j, e) \/ Complete(j, e, e)
        /\ lock' = lock /\ Become(l, "dropping")

\* A draft of e goes under its lock when its row is in one of these states.
DropDraft(e, j, statuses) ==
    IF Leftover(e, j) /\ job[j].status \in statuses THEN Delete(e, j) /\ lock' = None
    ELSE UNCHANGED <<job, draft, launch>> /\ lock' = None

\* _drop_round_draft
DropRoundDraft(l) ==
    /\ At(l, {"dropping"}) /\ lock = None
    /\ DropDraft(slot[l].exec, slot[l].job, {"queued", "paused", "done"})
    /\ NextRow(l)

\* _park_job: an agent round is parked and its draft dropped inside one command lock.
ParkJob(l) ==
    LET j == slot[l].job
        e == slot[l].exec
    IN  \/ At(l, {"failed"}) /\ e = None /\ Park(j, None) /\ lock' = lock /\ NextRow(l)
        \/ /\ At(l, {"failed"}) /\ e # None /\ lock = None /\ lock' = e
           /\ Park(j, e) /\ Become(l, "parking")
        \/ At(l, {"parking"}) /\ DropDraft(e, j, {"queued", "paused"}) /\ NextRow(l)

\* _fail_job, for a failure no retry can cure.
FailJob(l) ==
    LET j == slot[l].job
        e == slot[l].exec
    IN  \/ /\ At(l, {"hopeless"}) /\ lock = None /\ lock' = e
           /\ Complete(j, e, e) /\ Become(l, "failing")
        \/ At(l, {"failing"}) /\ DropDraft(e, j, {"done"}) /\ NextRow(l)

\* What the drain does with the row, once the lease is gone.
EndAttempt(l) ==
    /\ At(l, Ended \cup {"dropping", "parking", "failing"}) /\ ~Alive(slot[l].exec)
    /\ \/ At(l, {"over"}) /\ UNCHANGED queueVars /\ NextRow(l)
       \/ RoundIncomplete(l) \/ HarnessUnavailable(l) \/ DropRoundDraft(l)
       \/ ParkJob(l) \/ FailJob(l)
    /\ UNCHANGED <<up, unwritten, harness, command, judged, budgetVars>>

-----------------------------------------------------------------------------
(* Rows a harness never sees run in the drain's own body. *)

\* An episodes row about the source that process_index_job counts as pending.
JudgementPending(j) ==
    \E k \in Job : /\ KindOf[k] = "episodes" /\ About[k] = About[j]
                   /\ job[k].status \in {"queued", "claimed"}

\* process_index_job: commission the source's judgement, ahead of its compile; any other
\* kind touches neither the queue nor the drafts before its last write.
RunPlain(l) ==
    LET j == slot[l].job
        owed == KindOf[j] = "index" /\ ~(About[j] \subseteq judged) /\ ~JudgementPending(j)
    IN  /\ At(l, {"running"})
        /\ \/ /\ owed
              /\ \E k \in Job :
                    /\ KindOf[k] = "episodes" /\ About[k] = About[j] /\ Is(k, "absent")
                    /\ Enqueue(k, j)
           \/ ~owed /\ UNCHANGED queueVars
        /\ Become(l, "ran")
        /\ UNCHANGED <<up, unwritten, harness, command, judged, budgetVars>>

PlainEnds(l) ==
    /\ At(l, {"ran"})
    /\ Complete(slot[l].job, None, Worker) /\ lock' = lock
    /\ slot' = [slot EXCEPT ![l] = Idle]
    /\ UNCHANGED <<up, unwritten, harness, command, judged, budgetVars>>

-----------------------------------------------------------------------------
(* What goes wrong. *)

\* Faulty variant of CommandLost: the lock goes, the command is thought to go on.
CommandForgotten(e) == lock' = (IF lock = e THEN None ELSE lock) /\ UNCHANGED command

\* A failing call ends the command its launch was inside and the lock goes with it.
CommandLost(e) ==
    /\ lock' = IF lock = e THEN None ELSE lock
    /\ command' = IF lock = e THEN None ELSE command

BusyPhases == {"claimed", "leased", "attached", "ended", "reended", "finishing", "running", "ran"}

\* The stack goes away under a lane: InfrastructureInterrupted, the row stays as it is.
Outage(l) ==
    /\ At(l, BusyPhases \cup {"abandoning", "left", "refused", "dropping", "failed", "parking", "hopeless", "failing"})
    /\ Fault
    /\ CommandLost(slot[l].exec)
    /\ Become(l, "riding")
    /\ UNCHANGED <<job, draft, launch, up, unwritten, harness, judged, imported, commands>>

\* The same at a completion: the store keeps it to be written later, landed or not.
OutageAtRecord(l) ==
    LET j   == slot[l].job
        e   == slot[l].exec
        who == IF e = None THEN Worker ELSE e
    IN  /\ \/ At(l, {"ran"})
           \/ At(l, {"finishing"}) /\ (InCommand(e, "committed") \/ InCommand(e, "noop"))
        /\ Fault
        /\ Complete(j, None, who) \/ UNCHANGED <<job, draft, launch>>
        /\ CommandLost(e)
        /\ unwritten' = [unwritten EXCEPT ![j] = who]
        /\ Become(l, "riding")
        /\ UNCHANGED <<up, harness, judged, imported, commands>>

\* Any other failure: the drain's `except Exception`.
Exception(l) ==
    /\ At(l, BusyPhases)
    /\ Fault
    /\ CommandLost(slot[l].exec)
    /\ Become(l, "failed")
    /\ UNCHANGED <<job, draft, launch, up, unwritten, harness, judged, imported, commands>>

\* The material a compile names is gone: load_compile_inputs raises a TerminalJobFailure.
MaterialGone(l) ==
    /\ At(l, {"attached"}) /\ lock = None /\ KindOf[slot[l].job] = "compile"
    /\ Fault
    /\ Become(l, "hopeless")
    /\ UNCHANGED <<queueVars, up, unwritten, harness, command, judged, imported, commands>>

\* The lease's connection is lost while its launch runs; nobody in this process notices.
LeaseLost(l) ==
    /\ Alive(slot[l].exec) /\ At(l, {"attached", "first", "second", "ended", "reended"})
    /\ Fault
    /\ DropLeases({slot[l].exec}) /\ lock' = lock
    /\ UNCHANGED <<workerVars, harness, command, judged, imported, commands>>

\* The worker process is killed; a harness it launched may live on.
Crash ==
    /\ up /\ up' = FALSE
    /\ Fault
    /\ slot' = [l \in Lanes |-> Idle]
    /\ unwritten' = [j \in Job |-> None]
    /\ DropLeases(Launch)
    /\ lock' = IF lock \in Launch THEN None ELSE lock
    /\ command' = IF lock \in Launch THEN None ELSE command
    /\ UNCHANGED <<harness, judged, imported, commands>>

\* ride_out: the completions no outage let through, then the lane's own row.
RideOut(l) ==
    /\ At(l, {"riding", "unsettled"}) /\ ~Alive(slot[l].exec)
    /\ \/ \E j \in Job :
             /\ unwritten[j] # None
             /\ Complete(j, None, unwritten[j]) /\ lock' = lock
             /\ unwritten' = [unwritten EXCEPT ![j] = None]
             /\ UNCHANGED slot
       \/ /\ \A j \in Job : unwritten[j] = None
          /\ RequeueClaimed({slot[l].job}) \/ (lock # None /\ UNCHANGED queueVars)
          /\ slot' = [slot EXCEPT ![l] = Idle]
          /\ UNCHANGED unwritten
    /\ UNCHANGED <<up, harness, command, judged, budgetVars>>

-----------------------------------------------------------------------------
(* A Steward at a terminal. *)

\* open_round, to its claim: the round is new, or continues a dead launch's kept draft.
StewardOpens(x) ==
    /\ lock = None /\ Type
    /\ \E j \in Job :
          /\ KindOf[j] \in AgentKinds
          /\ draft[j] # None => KindOf[j] \in AdoptingKinds /\ Adoptable(j)
          /\ Claim(j, x) /\ lock' = x
          /\ command' = [job |-> j, step |-> "opening"]
    /\ UNCHANGED <<workerVars, harness, judged, imported, faults>>

\* The rest of it: the put, or a refusal; `pkc index episodes` releases a row whose source
\* it cannot open.
StewardOpening(x) ==
    LET j == command.job
    IN  /\ InCommand(x, "opening")
        /\ \/ Put(x, j, TRUE, IF draft[j] = None THEN "blank" ELSE draft[j].body)
           \/ ~MayPut(x, j, TRUE) /\ Unlock(x)
           \/ KindOf[j] = "episodes" /\ Release(j)
        /\ lock' = None /\ command' = None
        /\ UNCHANGED <<workerVars, harness, judged, budgetVars>>

\* Any command that ends in a put: draft edits, a refused finish, opening one's own round
\* again, or continuing one whose row a command that died had claimed.
StewardPuts(x) ==
    /\ lock = None /\ Type
    /\ \E j \in Job :
          \/ /\ Owns(x, j)
             /\ \E body \in {draft[j].body, "written", "repair"} :
                   /\ draft[j].body = "repair" => body = "repair"
                   /\ Put(x, j, FALSE, body)
          \/ /\ draft[j] # None /\ draft[j].kept /\ KindOf[j] \in AdoptingKinds
             /\ Put(x, j, TRUE, draft[j].body)
    /\ lock' = None
    /\ UNCHANGED <<workerVars, harness, command, judged, imported, faults>>

StewardFinishes(x) ==
    /\ Type
    /\ \E j \in Job : FinishJudged(x, j)
    /\ UNCHANGED <<workerVars, harness, imported>>

\* An episodes round whose row ended meanwhile: its manifest is kept, its put refused.
FinishEvicted(x) ==
    LET j == command.job
    IN  /\ InCommand(x, "judged") /\ KindOf[j] = "episodes" /\ ~MayPut(x, j, FALSE)
        /\ judged' = judged \cup About[j]
        /\ Unlock(x) /\ command' = None /\ UNCHANGED faults

StewardFinishing(x) ==
    /\ FinishLands(x) \/ FinishEvicted(x) \/ FinishRecords(x) \/ FinishCloses(x)
    /\ UNCHANGED <<workerVars, harness, imported, commands>>

StewardAbandons(x) ==
    /\ lock = None /\ Type
    /\ \E j \in Job, takeOver \in BOOLEAN : Abandon(x, j, takeOver)
    /\ lock' = None
    /\ UNCHANGED <<workerVars, harness, command, judged, imported, faults>>

\* `pkc jobs resume`
StewardResumes ==
    /\ Type
    /\ \E j \in Job : ResumeJob(j)
    /\ UNCHANGED <<workerVars, harness, command, judged, imported, faults>>

\* The terminal is closed in the middle of a command.
StewardDies(x) ==
    /\ command # None /\ Fault
    /\ Unlock(x) /\ command' = None
    /\ UNCHANGED <<workerVars, harness, judged, imported, commands>>

-----------------------------------------------------------------------------
HarnessStep(e) == HarnessPut(e) \/ HarnessAbandon(e) \/ HarnessExit(e)

LaneWork(l) ==
    \/ DrainClaim(l) \/ TakeLease(l) \/ Attach(l) \/ OpenRound(l)
    \/ AuthorityLost(l) \/ WorkerFinish(l) \/ WorkerFinishing(l) \/ WorkerAbandons(l)
    \/ DropLease(l) \/ EndAttempt(l) \/ RunPlain(l) \/ PlainEnds(l) \/ RideOut(l)

LaneFault(l) ==
    \/ DrainClaimUnsettled(l) \/ HarnessRefused(l) \/ Outage(l) \/ OutageAtRecord(l)
    \/ Exception(l) \/ MaterialGone(l) \/ LeaseLost(l)

StewardTypes(x) ==
    StewardOpens(x) \/ StewardPuts(x) \/ StewardFinishes(x) \/ StewardAbandons(x)

StewardGoesOn(x) == StewardOpening(x) \/ StewardFinishing(x)

RoundsNext ==
    \/ Import \/ TimePasses \/ Start \/ SelfHeal \/ Crash \/ StewardResumes
    \/ \E l \in Lanes : LaneWork(l) \/ LaneFault(l)
    \/ \E e \in Launch : HarnessStep(e)
    \/ \E x \in Steward : StewardTypes(x) \/ StewardGoesOn(x) \/ StewardDies(x)

RoundsSpec == RoundsInit /\ [][RoundsNext]_vars

(* The engine restarts the worker, its loops and timers go on, a harness exits or is ended *)
(* by its timeout, a command once typed runs to its end.  Faults and commands are never    *)
(* owed; nor is anything a harness might write before it exits.                            *)
Fairness ==
    /\ WF_vars(Start) /\ WF_vars(SelfHeal) /\ WF_vars(Import) /\ WF_vars(TimePasses)
    /\ \A l \in Lanes : WF_vars(LaneWork(l))
    /\ \A e \in Launch : WF_vars(HarnessExit(e))
    /\ \A x \in Steward : WF_vars(StewardGoesOn(x))

FairRounds == RoundsSpec /\ Fairness

-----------------------------------------------------------------------------
(* What the composition must keep. *)

\* Bodies about to change the canonical library: a judged finish, a groom or archive body.
Writers ==
    {k \in Job : command # None /\ command.job = k /\ command.step = "judged"
                    /\ Lane(k) = "canonical"}
    \cup {slot[l].job : l \in {m \in Lanes : At(m, {"running"}) /\ Lane(slot[m].job) = "canonical"}}

\* The canonical writer is one: whoever is about to commit holds the only reservation of
\* the canonical lane, though its claim was taken long before, in another transaction, and
\* self-heals, takeovers, replays and other launches have moved rows since.
WriterFenced == \A j \in Writers : Reserved("canonical") = {j}

\* A compile the drain runs has its sources judged, or their judgement ended for good:
\* claim_next holds it back while derived rows are open, process_index_job commissions the
\* judgement before it ends, and both are true through failures and replays.
CompileSeesJudgement ==
    \A c, i \in Job :
        /\ KindOf[c] = "compile" /\ Is(c, "claimed") /\ job[c].by \in Launch \cup {Worker}
        /\ KindOf[i] = "index" /\ ~Is(i, "absent") /\ About[i] \subseteq About[c]
        => /\ Is(i, "done")
           /\ \/ About[i] \subseteq judged
              \/ \E k \in Job : /\ KindOf[k] = "episodes" /\ About[k] = About[i]
                                /\ Is(k, "done")

\* A draft marked to be continued belongs to nobody who could still write it: its launch
\* is dead, it holds work, and no row says its owner is still running it.
KeptIsNobodys ==
    \A j \in Job : draft[j] # None /\ draft[j].kept
                      => Adoptable(j) /\ HoldsWork(j) /\ job[j].by # draft[j].owner

\* Work a dead launch left behind is continued as it stands, through the self-heal, the
\* adoption and whatever fails in between; it goes only by an explicit command, with a row
\* that has ended, or when that launch's own harness outlived it and abandons the round.
KeptWorkSurvives ==
    [][\A j \in Job :
          draft[j] # None /\ draft[j].kept =>
              IF draft'[j] # None THEN draft'[j].body = draft[j].body
              ELSE commands' # commands \/ Is(j, "done") \/ draft[j].owner \in harness]_vars

\* Whatever fails, as long as the schedule does not pause it, a queued job is finished.
JobsDone == \A j \in Job : Is(j, "queued") ~> Is(j, "done")

\* The composition calls the queue only through its operations.
RoundsUseQueue == Spec
=============================================================================
