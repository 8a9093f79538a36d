------------------------------- MODULE Evolve -------------------------------
(***************************************************************************)
(* The review of a reorganization. An evolve job drafts one on a branch;   *)
(* while a person reviews it the library goes on (compiles, grooms and     *)
(* archives commit to main); then the draft is adopted by a job of the     *)
(* canonical lane, or dropped, or expires, by calls of the API process     *)
(* that nobody serializes with that job.                                   *)
(*                                                                         *)
(* A tree is a set of blocks on paths. A path is a page, a closed volume   *)
(* of it or its copy under archive/; where a page is archived its own path *)
(* holds a record, one block whose anchor is the page itself.              *)
(***************************************************************************)
EXTENDS Naturals, Sequences, FiniteSets

CONSTANTS
    Claims, Pages,
    Home,          \* the page a compile files a claim on
    Begin,         \* the claims the library starts with
    Callers,       \* who may ask for an evolve round: the Owner, a finished compile
    Budgets        \* bounds: deaths, evolve rounds, commits meanwhile, verdicts by the API, adoptions asked

ASSUME EvolveAssumption ==
    /\ Home \in [Claims -> Pages] /\ Begin \subseteq Claims /\ Claims \cap Pages = {}
    /\ Budgets \subseteq [deaths : Nat, rounds : Nat, commits : Nat, verdicts : Nat, asks : Nat]

VARIABLES
    history,       \* main: the commits, each with its tree and the task it adopted (0: none)
    tasks,         \* evolve_tasks
    branches,      \* the tasks whose branch exists
    pg, lex, vec,  \* the projected claims
    checking,      \* callers that have found nothing pending
    deciding,      \* drops and expiries that have read their task as a draft
    jobs, current, at, work,
    budget

stores == <<pg, lex, vec>>
lane == <<jobs, current, at, work>>
vars == <<history, tasks, branches, stores, checking, deciding, lane, budget>>
-----------------------------------------------------------------------------
(* Trees. *)

Texts == {"first", "later", "evolved", "record"}
Paths == Pages \X {"page", "volume", "archive"}
Block(a, p, x) == [anchor |-> a, path |-> p, text |-> x]

Main == history[Len(history)].tree
Anchors(blocks) == {b.anchor : b \in blocks}
TextOf(blocks, a) == (CHOOSE b \in blocks : b.anchor = a).text
Unique(blocks) == \A b, c \in blocks : b.anchor = c.anchor => b = c

Shelf(p) == p[2]
RetiredPaths(t) == {<<p, "page">> : p \in {q \in Pages : <<q, "archive">> \in t.paths}}
Sub(t, paths) == [t EXCEPT !.paths = paths, !.blocks = {b \in t.blocks : b.path \in paths}]
LiveDocuments(t) == Sub(t, {p \in t.paths : Shelf(p) # "archive"})
Restructurable(t) == Sub(t, {p \in t.paths : Shelf(p) # "archive"} \ RetiredPaths(t))
-----------------------------------------------------------------------------
(* reconcile_adopt: base (the branch point), branch, main, over live documents. *)

ChangedInWindow(base, main, a) ==
    a \in Anchors(main.blocks) /\ TextOf(main.blocks, a) # TextOf(base.blocks, a)

\* Mutant: the branch's words win everywhere.
SurvivingOnBranch(base, branch, main) == branch.blocks

\* Rule A: where a surviving claim changed on main, main's text wins at the branch's place.
Surviving(base, branch, main) ==
    {IF b.anchor \in Anchors(base.blocks) /\ ChangedInWindow(base, main, b.anchor)
     THEN [b EXCEPT !.text = TextOf(main.blocks, b.anchor)] ELSE b : b \in branch.blocks}

\* Rules B and C: claims new on main, and dropped ones that main changed.
ToAdd(base, branch, main) ==
    {b \in main.blocks :
        /\ b.anchor \notin Anchors(branch.blocks)
        /\ b.anchor \in Anchors(base.blocks) => ChangedInWindow(base, main, b.anchor)}

\* A document the branch never had is carried whole.
Final(base, branch, main) ==
    LET added == ToAdd(base, branch, main)
        copied == {b.path : b \in added} \ branch.paths
    IN [paths |-> branch.paths \cup copied,
        blocks |-> Surviving(base, branch, main) \cup {b \in added : b.path \in branch.paths}
                   \cup {b \in main.blocks : b.path \in copied}]

DroppedUntouched(base, branch, main) ==
    {a \in Anchors(base.blocks) \ Anchors(branch.blocks) :
        a \in Anchors(main.blocks) /\ ~ChangedInWindow(base, main, a)}

Reconciles(base, branch, main) ==
    LET final == Final(base, branch, main) IN
        /\ Unique(final.blocks)
        /\ Anchors(main.blocks) \ DroppedUntouched(base, branch, main) \subseteq Anchors(final.blocks)

\* Mutant: the files are laid over main and nothing is removed.
AdoptedOverlay(tree, final, removals, skill) ==
    [paths |-> tree.paths \cup final.paths,
     blocks |-> {b \in tree.blocks : b.path \notin final.paths} \cup final.blocks, skill |-> skill]

\* commit_patch writes the final documents; an agent's draft also removes what it merged away.
Adopted(tree, final, removals, skill) ==
    [paths |-> (tree.paths \ removals) \cup final.paths,
     blocks |-> {b \in tree.blocks : b.path \notin final.paths \cup removals} \cup final.blocks,
     skill |-> skill]

\* What a whole-library round may leave: one claim moved, dropped or rewritten, or one page
\* merged into another, which only an agent's draft removes.
Moved(t, cs, to) ==
    [t EXCEPT !.paths = @ \cup {to},
              !.blocks = {IF b \in cs THEN [b EXCEPT !.path = to] ELSE b : b \in t.blocks}]
OpenBlocks(t) == {b \in Restructurable(t).blocks : Shelf(b.path) = "page"}
OpenPaths(t) == (Pages \X {"page"}) \ RetiredPaths(t)
Reorganized(t, agent) ==
    (UNION { {Moved(t, {b}, p) : p \in OpenPaths(t) \ {b.path}}
             \cup {[t EXCEPT !.blocks = @ \ {b}],
                   [t EXCEPT !.blocks = (@ \ {b}) \cup {[b EXCEPT !.text = "evolved"]}]}
             : b \in OpenBlocks(t) })
    \cup IF ~agent THEN {} ELSE
         {[Moved(t, {b \in OpenBlocks(t) : b.path = pq[1]}, pq[2]) EXCEPT !.paths = @ \ {pq[1]}] :
             pq \in {x \in (OpenPaths(t) \cap t.paths) \X OpenPaths(t) : x[1] # x[2]}}
-----------------------------------------------------------------------------
Idle == [task |-> 0, base |-> 0, tree |-> <<>>, skill |-> {}, agent |-> FALSE]
Start == [paths |-> {<<Home[c], "page">> : c \in Begin},
          blocks |-> {Block(c, <<Home[c], "page">>, "first") : c \in Begin}, skill |-> {}]

Init ==
    /\ history = <<[tree |-> Start, task |-> 0]>>
    /\ tasks = <<>> /\ branches = {}
    /\ pg = Start.blocks /\ lex = Start.blocks /\ vec = Start.blocks
    /\ checking = {} /\ deciding = {}
    /\ jobs = <<>> /\ current = 0 /\ at = "idle" /\ work = Idle
    /\ budget \in Budgets

Me == jobs[current]
Running(kind, phase) == current # 0 /\ at = phase /\ Me.kind = kind
Row(kind, task) == [kind |-> kind, task |-> task, status |-> "queued"]
Open == {"queued", "claimed"}
Spend(what) == budget[what] > 0 /\ budget' = [budget EXCEPT ![what] = @ - 1]

End == /\ jobs' = [jobs EXCEPT ![current].status = "done"]
       /\ current' = 0 /\ at' = "idle" /\ work' = Idle

Drafts == {t \in DOMAIN tasks : tasks[t].status = "draft"}
HasPendingEvolve == Drafts # {} \/ \E j \in DOMAIN jobs : jobs[j].status \in Open

\* POST /evolve and the passive trigger: look, then enqueue.
TriggerLooks(c) ==
    /\ ~HasPendingEvolve /\ c \notin checking /\ Cardinality(checking) < budget.rounds
    /\ checking' = checking \cup {c}
    /\ UNCHANGED <<history, tasks, branches, stores, deciding, lane, budget>>

TriggerEnqueues(c) ==
    /\ c \in checking /\ checking' = checking \ {c}
    /\ Spend("rounds") /\ jobs' = Append(jobs, Row("evolve", 0))
    /\ UNCHANGED <<history, tasks, branches, stores, deciding, current, at, work>>

RequestAdopt(t) ==
    /\ t \in Drafts /\ Spend("asks")
    /\ jobs' = Append(jobs, Row("adopt", t))
    /\ UNCHANGED <<history, tasks, branches, stores, checking, deciding, current, at, work>>

ClaimNext ==
    /\ current = 0
    /\ \E j \in DOMAIN jobs :
        /\ jobs[j].status = "queued" /\ \A i \in 1..(j - 1) : jobs[i].status # "queued"
        /\ jobs' = [jobs EXCEPT ![j].status = "claimed"]
        /\ current' = j /\ at' = "run" /\ work' = Idle
    /\ UNCHANGED <<history, tasks, branches, stores, checking, deciding, budget>>

\* The worker dies, or a store is away: the row is queued again and its body starts over.
Interrupted ==
    /\ current # 0 /\ Spend("deaths")
    /\ jobs' = [jobs EXCEPT ![current].status = "queued"]
    /\ current' = 0 /\ at' = "idle" /\ work' = Idle
    /\ UNCHANGED <<history, tasks, branches, stores, checking, deciding>>
-----------------------------------------------------------------------------
(* run_evolve_job and persist_evolve_result. *)

\* The round proposes nothing, is aborted or changes nothing: its task row says so.
EvolveEndsEmpty ==
    /\ Running("evolve", "run")
    /\ tasks' = Append(tasks, [status |-> "no_change", base |-> Len(history), tree |-> Main,
                               skill |-> {}, agent |-> FALSE])
    /\ at' = "complete"
    /\ UNCHANGED <<history, branches, stores, checking, deciding, jobs, current, work, budget>>

BranchCommit ==
    /\ Running("evolve", "run")
    /\ \E agent \in BOOLEAN : \E t \in Reorganized(Main, agent) :
        work' = [Idle EXCEPT !.base = Len(history), !.tree = t, !.agent = agent]
    /\ at' = "task"
    /\ UNCHANGED <<history, tasks, branches, stores, checking, deciding, jobs, current, budget>>

\* Mutant: the new manifest is composed on the base skill alone.
CreateTaskOnBase ==
    /\ Running("evolve", "task")
    /\ LET t == Len(tasks) + 1 IN
        /\ tasks' = Append(tasks, [status |-> "draft", base |-> work.base, tree |-> work.tree,
                                   skill |-> {t}, agent |-> work.agent])
        /\ branches' = branches \cup {t}
    /\ at' = "complete"
    /\ UNCHANGED <<history, stores, checking, deciding, jobs, current, work, budget>>

CreateEvolveTask ==
    /\ Running("evolve", "task")
    /\ LET t == Len(tasks) + 1 IN
        /\ tasks' = Append(tasks, [status |-> "draft", base |-> work.base, tree |-> work.tree,
                                   skill |-> work.tree.skill \cup {t}, agent |-> work.agent])
        /\ branches' = branches \cup {t}
    /\ at' = "complete"
    /\ UNCHANGED <<history, stores, checking, deciding, jobs, current, work, budget>>

Completes ==
    /\ current # 0 /\ at = "complete" /\ End
    /\ UNCHANGED <<history, tasks, branches, stores, checking, deciding, budget>>
-----------------------------------------------------------------------------
(* adopt_evolve_job. *)

T == tasks[Me.task]

\* Mutant: a draft whose branch is gone is not refused.
AdoptRefusedByStatus ==
    /\ Running("adopt", "run") /\ T.status # "draft"
    /\ End
    /\ UNCHANGED <<history, tasks, branches, stores, checking, deciding, budget>>

AdoptRefused ==
    /\ Running("adopt", "run")
    /\ T.status # "draft" \/ Me.task \notin branches
    /\ End
    /\ UNCHANGED <<history, tasks, branches, stores, checking, deciding, budget>>

\* What main has retired is read off both older sides.
Older(t) == Sub(Restructurable(t), Restructurable(t).paths \ RetiredPaths(Main))
BaseDocs == Older(history[T.base].tree)
BranchDocs == Older(T.tree)
MainDocs == LiveDocuments(Main)

\* The merge would lose or double a claim, or the provenance or a component's check refuses
\* what it made: the task stays a draft.
AdoptFails ==
    /\ Running("adopt", "run") /\ T.status = "draft" /\ Me.task \in branches
    /\ End
    /\ UNCHANGED <<history, tasks, branches, stores, checking, deciding, budget>>

AdoptReconciles ==
    /\ Running("adopt", "run") /\ T.status = "draft" /\ Me.task \in branches
    /\ Reconciles(BaseDocs, BranchDocs, MainDocs)
    /\ work' = [Idle EXCEPT !.task = Me.task, !.tree = Final(BaseDocs, BranchDocs, MainDocs)]
    /\ at' = "skill"
    /\ UNCHANGED <<history, tasks, branches, stores, checking, deciding, jobs, current, budget>>

\* Mutant: the manifest stays main's.
ReadSkillOfMain ==
    /\ Running("adopt", "skill")
    /\ work' = [work EXCEPT !.skill = Main.skill, !.agent = T.agent]
    /\ at' = "commit"
    /\ UNCHANGED <<history, tasks, branches, stores, checking, deciding, jobs, current, budget>>

\* read_meta_at: a branch that is gone has no manifest to carry.
ReadSkill ==
    /\ Running("adopt", "skill")
    /\ work' = [work EXCEPT !.skill = IF Me.task \in branches THEN T.skill ELSE Main.skill,
                            !.agent = T.agent /\ Me.task \in branches]
    /\ at' = "commit"
    /\ UNCHANGED <<history, tasks, branches, stores, checking, deciding, jobs, current, budget>>

\* Mutant: the task is decided with its commit, before the stores are rebuilt.
CommitAndDecide ==
    /\ Running("adopt", "commit")
    /\ LET removals == IF work.agent THEN MainDocs.paths \ work.tree.paths ELSE {} IN
        history' = Append(history, [tree |-> Adopted(Main, work.tree, removals, work.skill),
                                    task |-> Me.task])
    /\ tasks' = [tasks EXCEPT ![Me.task].status = "adopted"]
    /\ at' = "pg"
    /\ UNCHANGED <<branches, stores, checking, deciding, jobs, current, work, budget>>

CommitAdoption ==
    /\ Running("adopt", "commit")
    /\ LET removals == IF work.agent THEN MainDocs.paths \ work.tree.paths ELSE {} IN
        history' = Append(history, [tree |-> Adopted(Main, work.tree, removals, work.skill),
                                    task |-> Me.task])
    /\ at' = "pg"
    /\ UNCHANGED <<tasks, branches, stores, checking, deciding, jobs, current, work, budget>>

\* rebuild_projection: each store is replaced, PostgreSQL first.
ReplaceClaims ==
    /\ Running("adopt", "pg") /\ pg' = Main.blocks /\ at' = "lex"
    /\ UNCHANGED <<history, tasks, branches, lex, vec, checking, deciding, jobs, current, work, budget>>
IndexClaims ==
    /\ Running("adopt", "lex") /\ lex' = Main.blocks /\ at' = "delete"
    /\ UNCHANGED <<history, tasks, branches, pg, vec, checking, deciding, jobs, current, work, budget>>
DeleteVectors ==
    /\ Running("adopt", "delete") /\ vec' = {} /\ at' = "vec"
    /\ UNCHANGED <<history, tasks, branches, pg, lex, checking, deciding, jobs, current, work, budget>>
UpsertVectors ==
    /\ Running("adopt", "vec") /\ vec' = Main.blocks /\ at' = "decide"
    /\ UNCHANGED <<history, tasks, branches, pg, lex, checking, deciding, jobs, current, work, budget>>

\* decide_evolve_task asks nothing of the status it overwrites.
DecideAdopted ==
    /\ Running("adopt", "decide")
    /\ tasks' = [tasks EXCEPT ![Me.task].status = "adopted"]
    /\ at' = "branch"
    /\ UNCHANGED <<history, branches, stores, checking, deciding, jobs, current, work, budget>>

DeleteAdoptedBranch ==
    /\ Running("adopt", "branch")
    /\ branches' = branches \ {Me.task} /\ at' = "complete"
    /\ UNCHANGED <<history, tasks, stores, checking, deciding, jobs, current, work, budget>>
-----------------------------------------------------------------------------
(* drop_task and _maybe_expire, in the API process: read, delete the branch, decide. *)

VerdictReads(t, verdict) ==
    /\ t \in Drafts /\ Spend("verdicts")
    /\ deciding' = deciding \cup {[task |-> t, verdict |-> verdict, deleted |-> FALSE]}
    /\ UNCHANGED <<history, tasks, branches, stores, checking, lane>>

VerdictDeletes(d) ==
    /\ d \in deciding /\ ~d.deleted
    /\ branches' = branches \ {d.task}
    /\ deciding' = (deciding \ {d}) \cup {[d EXCEPT !.deleted = TRUE]}
    /\ UNCHANGED <<history, tasks, stores, checking, lane, budget>>

VerdictDecides(d) ==
    /\ d \in deciding /\ d.deleted
    /\ tasks' = [tasks EXCEPT ![d.task].status = d.verdict]
    /\ deciding' = deciding \ {d}
    /\ UNCHANGED <<history, branches, stores, checking, lane, budget>>
-----------------------------------------------------------------------------
(* Other jobs of the lane, while a draft is under review: each commits and brings its delta
   to the stores (module Publication has the steps). *)

Meanwhile(t) ==
    /\ current = 0 /\ Spend("commits")
    /\ history' = Append(history, [tree |-> t, task |-> 0])
    /\ pg' = t.blocks
    /\ lex' = (lex \ (pg \ t.blocks)) \cup (t.blocks \ pg)
    /\ vec' = (vec \ (pg \ t.blocks)) \cup (t.blocks \ pg)
    /\ UNCHANGED <<tasks, branches, checking, deciding, lane>>

CompileAdds(c) ==
    /\ c \notin Anchors(Main.blocks) /\ <<Home[c], "page">> \notin RetiredPaths(Main)
    /\ \A i \in DOMAIN history : c \notin Anchors(history[i].tree.blocks)
    /\ Meanwhile(Moved([Main EXCEPT !.blocks = @ \cup {Block(c, <<>>, "first")}],
                       {Block(c, <<>>, "first")}, <<Home[c], "page">>))

CompileEdits(b) ==
    /\ b \in OpenBlocks(Main) /\ b.text # "later"
    /\ Meanwhile([Main EXCEPT !.blocks = (@ \ {b}) \cup {[b EXCEPT !.text = "later"]}])

Grooms(p) ==
    LET page == {b \in OpenBlocks(Main) : b.path = <<p, "page">>} IN
        /\ Cardinality(page) > 1 /\ <<p, "archive">> \notin Main.paths
        /\ \E b \in page : Meanwhile(Moved(Main, page \ {b}, <<p, "volume">>))

Archives(p) ==
    LET page == {b \in OpenBlocks(Main) : b.path = <<p, "page">>} IN
        /\ page # {} /\ <<p, "volume">> \notin Main.paths
        /\ LET t == Moved(Main, page, <<p, "archive">>) IN
            Meanwhile([t EXCEPT !.blocks = @ \cup {Block(p, <<p, "page">>, "record")}])
-----------------------------------------------------------------------------
Caller ==
    \/ \E c \in Callers : TriggerLooks(c) \/ TriggerEnqueues(c)
    \/ \E t \in DOMAIN tasks :
        RequestAdopt(t) \/ \E v \in {"dropped", "expired"} : VerdictReads(t, v)
    \/ \E d \in deciding : VerdictDeletes(d) \/ VerdictDecides(d)

Body ==
    \/ EvolveEndsEmpty \/ BranchCommit \/ CreateEvolveTask \/ Completes
    \/ AdoptRefused \/ AdoptFails \/ AdoptReconciles \/ ReadSkill \/ CommitAdoption
    \/ ReplaceClaims \/ IndexClaims \/ DeleteVectors \/ UpsertVectors
    \/ DecideAdopted \/ DeleteAdoptedBranch

OtherJobs ==
    \/ \E c \in Claims : CompileAdds(c)
    \/ \E b \in Main.blocks : CompileEdits(b)
    \/ \E p \in Pages : Grooms(p) \/ Archives(p)

Next == Caller \/ ClaimNext \/ Body \/ Interrupted \/ OtherJobs

Fairness == WF_vars(ClaimNext) /\ WF_vars(Body)
Spec == Init /\ [][Next]_vars /\ Fairness
-----------------------------------------------------------------------------
(* What review and adoption promise. *)

Adoptions == {i \in DOMAIN history : history[i].task # 0}
BaseOf(i) == tasks[history[i].task].base

TypeOK ==
    /\ history \in Seq([tree : [paths : SUBSET Paths, skill : SUBSET (DOMAIN tasks),
                                blocks : SUBSET [anchor : Claims \cup Pages, path : Paths, text : Texts]],
                        task : 0..Len(tasks)])
    /\ \A t \in DOMAIN tasks :
        tasks[t].status \in {"draft", "no_change", "adopted", "dropped", "expired"}
    /\ branches \subseteq {t \in DOMAIN tasks : tasks[t].status # "no_change"}
    /\ checking \subseteq Callers
    /\ current # 0 <=> \E j \in DOMAIN jobs : jobs[j].status = "claimed"
    /\ \A j \in DOMAIN jobs : jobs[j].status = "claimed" => j = current

\* evolve_service.py reconcile_adopt: what compiles added or changed on main while a draft
\* was reviewed is on main after the adoption, in main's words, wherever the claim now sits;
\* also when an adoption is cut short and run again, or another one came between. (Not where
\* an earlier adoption has doubled an anchor, whose claim has no one text to keep, nor where
\* one has moved the claim off a page that main then archived: what main retired is taken off
\* the base too, and a claim the base does not have counts as the draft's own.)
FreshWorkKept ==
    \A i \in Adoptions :
        LET before == history[i - 1].tree
            base == history[BaseOf(i)].tree.blocks
        IN Unique(before.blocks) =>
            \A b \in LiveDocuments(before).blocks :
                (\A o \in base : o.anchor = b.anchor =>
                    o.text # b.text /\ o.path \notin RetiredPaths(before)) =>
                        \E c \in history[i].tree.blocks : c.anchor = b.anchor /\ c.text = b.text

\* A claim is on main where the base or the draft of task t has it.
InPlace(t) ==
    \A b \in history[tasks[t].base].tree.blocks, d \in tasks[t].tree.blocks, m \in Main.blocks :
        b.anchor = m.anchor /\ d.anchor = m.anchor => m.path \in {b.path, d.path}

\* An adoption commits without the compile gate, so the merge itself must leave every anchor
\* in one place of the whole tree; it does where main has each anchor in one place and no
\* groom, archive or other adoption moved a claim of the draft under review. (An agent's
\* draft whose branch went before its manifest was read has forgotten what it merged away.)
CompiledAnchorsStayUnique ==
    [][\A i \in DOMAIN history' \ DOMAIN history :
        LET t == history'[i].task IN
        (t # 0 /\ InPlace(t) /\ Unique(Main.blocks) /\ (tasks[t].agent => work.agent))
            => Unique(history'[i].tree.blocks)]_history

\* reconcile_adopt's "uniqueness backstop": "a duplicated anchor in the adopted tree
\* hard-fails every subsequent compile touching that doc [...] Refuse the merge instead."
AdoptedAnchorsAreUnique == \A i \in Adoptions : Unique(history[i].tree.blocks)

\* The manifest is not reconciled, the branch's is laid over main's: a pack on main, whichever
\* adoption put it there, stands with every pack its draft was composed on.
AdoptedSkillsStay ==
    \A i \in DOMAIN history : \A t \in history[i].tree.skill :
        history[tasks[t].base].tree.skill \subseteq history[i].tree.skill

\* adopt_evolve_job: "so the skill flips with the data". A drop or an expiry that deletes the
\* branch between the merge and the reading of its manifest is the one way to lose it.
SkillFlipsWithData ==
    [][\A i \in DOMAIN history' \ DOMAIN history :
        history'[i].task \in branches => history'[i].task \in history'[i].tree.skill]_history

Settled == /\ current = 0 /\ deciding = {}
           /\ \A j \in DOMAIN jobs : jobs[j].status \notin Open

\* rebuild_projection replaces the claims of one store after another, PostgreSQL first, and
\* a later delta is computed from PostgreSQL alone: so the adoption's own job must have come
\* to its end. It does unless the task was decided over its head.
AdoptionsAreProjected ==
    (Settled /\ \A i \in Adoptions : tasks[history[i].task].status = "adopted")
        => pg = Main.blocks /\ lex = Main.blocks /\ vec = Main.blocks

\* Every round and every adoption that was asked for comes to an end, whatever verdicts and
\* deaths meet it, and the lane is left free.
RoundsEnd == <>[](\A j \in DOMAIN jobs : jobs[j].status = "done")
=============================================================================
