---------------------------- MODULE GitCanonical ----------------------------
(***************************************************************************)
(* The canonical library of ONE user: a git repository that the API and    *)
(* the worker write through adapters/git_canonical.py, that people and     *)
(* coding agents edit by hand, and whose writers may be killed between any *)
(* two git commands.  Every mutating method is one call: under the flock   *)
(* it reads the claim a predecessor left, writes its own, looks at the     *)
(* tree, recovers a dead writer's paths or refuses, does its work and      *)
(* releases the claim.  A git command or a file operation is one step.     *)
(***************************************************************************)
EXTENDS Integers, FiniteSets

CONSTANTS
    Path,      \* repo-relative paths
    Page,      \* what the adapter's callers write
    Writer,    \* processes of this framework on the host (API, worker)
    Call,      \* the calls they make
    Hand,      \* a page a person or an agent with a shell has edited
    Partial,   \* a page a failed write_text left cut short
    Torn,      \* a claim that cannot be parsed
    None

Content == Page \cup {Hand, Partial, None}

(* commit_patch and write_meta (a patch of one path); move_documents;       *)
(* tag, branch_commit and delete_branch, which touch no path of the tree.   *)
Verbs == {"patch", "move", "ref"}

Moved(c) == {m.from : m \in c.moves} \cup {m.to : m \in c.moves}

\* Faulty variant of Footprint: a move names the paths it creates only.
FootprintOfTargets(c) == {m.to : m \in c.moves} \cup DOMAIN c.files \cup c.removals

\* What the call declares before it touches anything.
Footprint(c) == Moved(c) \cup DOMAIN c.files \cup c.removals

ASSUME PathsAssumption == IsFiniteSet(Path) /\ IsFiniteSet(Call)
ASSUME NamesAssumption == Hand # Partial /\ None # Torn /\ None \notin Page \cup {Hand, Partial} \cup Writer
                          /\ {Hand, Partial} \cap Page = {}
ASSUME CallsAssumption ==
    \A c \in Call :
        /\ c.verb \in Verbs
        /\ c.moves \subseteq [from : Path, to : Path]
        /\ DOMAIN c.files \subseteq Path /\ \A p \in DOMAIN c.files : c.files[p] \in Page
        /\ c.removals \subseteq Path
        /\ \A m, n \in c.moves : m.from # n.to /\ (m # n => m.from # n.from /\ m.to # n.to)
        /\ c.verb = "patch" => c.moves = {}
        /\ c.verb = "ref" => Footprint(c) = {}

VARIABLES
    head,     \* the last commit's tree
    index,    \* what is staged
    work,     \* the working tree
    claim,    \* .git/pneuma.inflight
    run       \* the call under the flock, if any

vars == <<head, index, work, claim, run>>
tree == <<head, index, work>>

(* A claim as _read_marker answers it: nothing (no file, or a released      *)
(* one), Torn, or a pid and a footprint.  pid None is a process that is     *)
(* gone.  over is history: the body that wrote the claim came to its end    *)
(* and could neither unlink nor replace it.                                 *)
Claims == [pid : Writer \cup {None}, paths : SUBSET Path, over : BOOLEAN]
AnyClaim == Claims \cup {None, Torn}

(* One git command or file operation of a body.  A page is written and then *)
(* added by its transactional writer; a plain patch stages all it wrote.    *)
Ops == [do : {"rm", "mv", "write", "add", "stage"}, at : Path \cup {None}, from : Path \cup {None}]
Op(do, at, from) == [do |-> do, at |-> at, from |-> from]

Phases ==
    {"claiming", "looking", "reset", "checkout", "unlink", "verify", "preflight",
     "applying", "undoing", "clearing"}

Runs == [by : Writer, call : Call, at : Phases, prev : AnyClaim,
         todo : SUBSET Ops, did : SUBSET Ops]

ASSUME MarksAssumption == None \notin Runs \cup Claims /\ Torn \notin Claims

TypeOK ==
    /\ head \in [Path -> Content] /\ index \in [Path -> Content] /\ work \in [Path -> Content]
    /\ claim \in AnyClaim
    /\ run \in Runs \cup {None}

Init ==
    /\ head \in [Path -> Page \cup {None}]
    /\ index = head /\ work = head
    /\ claim = None /\ run = None

-----------------------------------------------------------------------------
Dirty(p) == head[p] # index[p] \/ index[p] # work[p]
DirtyPaths == {p \in Path : Dirty(p)}

At(phase) == run # None /\ run.at = phase
Become(phase) == run' = [run EXCEPT !.at = phase]

\* Restored in index and tree, or taken out of both, on some paths.
FromHead(f, ps) == [p \in Path |-> IF p \in ps THEN head[p] ELSE f[p]]
Without(f, ps) == [p \in Path |-> IF p \in ps THEN None ELSE f[p]]

\* _claimant_is_gone: the pid answers ProcessLookupError.  A reused number or a probe the
\* system refuses leaves it unproven, so this only says when a death CAN be proved.
ProvablyGone(c) == c \in Claims /\ c.pid = None

-----------------------------------------------------------------------------
(* _mutation: read the previous claim, write one's own, look at the tree *)

\* Faulty variant of ClaimOf: the claim names the repository itself beside the paths.
ClaimOfRepository(w, c) == [pid |-> w, paths |-> Footprint(c) \cup {None}, over |-> FALSE]

ClaimOf(w, c) == [pid |-> w, paths |-> Footprint(c), over |-> FALSE]

Begin(w, c) ==
    /\ run = None
    /\ run' = [by |-> w, call |-> c, at |-> "claiming", prev |-> claim, todo |-> {}, did |-> {}]
    /\ UNCHANGED <<tree, claim>>

\* _write_marker: write_text truncates first, so a failure may leave the file torn; the
\* call then ends without having looked at anything, and without _clear_marker.
WriteMarker ==
    /\ At("claiming")
    /\ \/ claim' = ClaimOf(run.by, run.call) /\ Become("looking")
       \/ claim' \in {claim, Torn} /\ run' = None
    /\ UNCHANGED tree

\* commit_patch with removals goes through the channel of move_documents.
Transactional(c) == c.verb = "move" \/ c.removals # {}

\* What a plain patch does to the tree.
PlainPatch(c) ==
    {Op("write", p, None) : p \in DOMAIN c.files}
    \cup {Op("stage", None, None) : p \in DOMAIN c.files}

EnterBody ==
    LET c == run.call
    IN  run' = IF Footprint(c) = {} THEN [run EXCEPT !.at = "clearing"]
               ELSE IF Transactional(c) THEN [run EXCEPT !.at = "preflight"]
               ELSE [run EXCEPT !.at = "applying", !.todo = PlainPatch(c)]

\* Faulty variant of MayRecover: what the dead writer declared is not compared with what is
\* dirty.
MayRecoverAnywhere(prev) == ProvablyGone(prev)

MayRecover(prev) == ProvablyGone(prev) /\ DirtyPaths \subseteq prev.paths

\* _begin_mutation on a clean tree: whatever claim was left over is stale.
LookClean ==
    /\ At("looking") /\ DirtyPaths = {}
    /\ EnterBody
    /\ UNCHANGED <<tree, claim>>

LookRecover ==
    /\ At("looking") /\ DirtyPaths # {}
    /\ MayRecover(run.prev)
    /\ Become("reset")
    /\ UNCHANGED <<tree, claim>>

\* CanonicalDirtyError: nobody's claim, no proof of a death, or a path outside the
\* footprint; or the status could not be read at all.
LookRefuse ==
    /\ At("looking")
    /\ Become("clearing")
    /\ UNCHANGED <<tree, claim>>

-----------------------------------------------------------------------------
(* _recover_footprint, and the re-read after it.  Any of its git commands may fail: the
   call is over then, with its own claim cleared. *)

InHead(ps) == {p \in ps : head[p] # None}

RecoverReset ==
    /\ At("reset")
    /\ \/ index' = FromHead(index, run.prev.paths) /\ Become("checkout")
       \/ index' = index /\ Become("clearing")
    /\ UNCHANGED <<head, work, claim>>

\* Faulty variant of RecoverCheckout: `git reset --hard`.
RecoverHard ==
    /\ At("checkout")
    /\ \/ index' = head /\ work' = head /\ Become("unlink")
       \/ UNCHANGED <<index, work>> /\ Become("clearing")
    /\ UNCHANGED <<head, claim>>

RecoverCheckout ==
    /\ At("checkout")
    /\ LET kept == InHead(run.prev.paths)
       IN \/ /\ index' = FromHead(index, kept) /\ work' = FromHead(work, kept)
             /\ Become("unlink")
          \/ UNCHANGED <<index, work>> /\ Become("clearing")
    /\ UNCHANGED <<head, claim>>

\* An unlink that fails is swallowed: the re-read finds the path.
RecoverUnlink ==
    /\ At("unlink")
    /\ \E gone \in SUBSET (run.prev.paths \ InHead(run.prev.paths)) : work' = Without(work, gone)
    /\ Become("verify")
    /\ UNCHANGED <<head, index, claim>>

RecoverVerify ==
    /\ At("verify")
    /\ \/ DirtyPaths \cap run.prev.paths = {} /\ EnterBody
       \/ Become("clearing")
    /\ UNCHANGED <<tree, claim>>

-----------------------------------------------------------------------------
(* The bodies.  An operation that fails ends a plain patch as it stands and sends a
   transactional one to its rollback. *)

Rank == [rm |-> 1, mv |-> 2, add |-> 3, write |-> 4, stage |-> 5]
Due(op) == op \in run.todo /\ \A o \in run.todo : Rank[op.do] <= Rank[o.do]

Abort == run' = IF Transactional(run.call)
                THEN [run EXCEPT !.at = "undoing", !.todo = run.did]
                ELSE [run EXCEPT !.at = "clearing"]

\* A patch that also removes replaces the pages it finds: they are removed first.
RemovalsOf(c) ==
    c.removals \cup IF c.verb = "patch" THEN {p \in DOMAIN c.files : work[p] # None} ELSE {}

\* The whole sequence is tried on paper before the first `git rm`.
PreflightPasses(c) ==
    LET froms   == {m.from : m \in c.moves}
        tos     == {m.to : m \in c.moves}
        present == {p \in Path : work[p] # None}
        left    == present \ RemovalsOf(c)
    IN  /\ RemovalsOf(c) \subseteq present
        /\ froms \subseteq left /\ tos \cap left = {}
        /\ DOMAIN c.files \cap ((left \ froms) \cup tos) = {}

Transaction(c) ==
    {Op("rm", p, None) : p \in RemovalsOf(c)}
    \cup {Op("mv", m.to, m.from) : m \in c.moves}
    \cup {Op("write", p, None) : p \in DOMAIN c.files}

Preflight ==
    /\ At("preflight")
    /\ run' = IF PreflightPasses(run.call)
              THEN [run EXCEPT !.at = "applying", !.todo = Transaction(run.call)]
              ELSE [run EXCEPT !.at = "clearing"]
    /\ UNCHANGED <<tree, claim>>

\* git rm: nothing but what HEAD holds may be lost by it.
Remove(op) ==
    /\ At("applying") /\ op.do = "rm" /\ Due(op)
    /\ index[op.at] # None /\ index[op.at] = head[op.at] /\ work[op.at] \in {None, head[op.at]}
    /\ index' = Without(index, {op.at}) /\ work' = Without(work, {op.at})
    /\ run' = [run EXCEPT !.todo = @ \ {op}, !.did = @ \cup {op}]
    /\ UNCHANGED <<head, claim>>

Renamed(f, from, to) == [f EXCEPT ![to] = f[from], ![from] = None]
MayRename(from, to) == index[from] # None /\ work[from] # None /\ work[to] = None

\* git mv
Rename(op) ==
    /\ At("applying") /\ op.do = "mv" /\ Due(op)
    /\ MayRename(op.from, op.at)
    /\ index' = Renamed(index, op.from, op.at) /\ work' = Renamed(work, op.from, op.at)
    /\ run' = [run EXCEPT !.todo = @ \ {op}, !.did = @ \cup {op}]
    /\ UNCHANGED <<head, claim>>

\* Faulty variant of WritePage: the page is written and never added.
WriteUnadded(op) ==
    /\ At("applying") /\ op.do = "write" /\ Due(op)
    /\ work' = [work EXCEPT ![op.at] = run.call.files[op.at]]
    /\ run' = [run EXCEPT !.todo = @ \ {op}, !.did = @ \cup {op}]
    /\ UNCHANGED <<head, index, claim>>

\* write_text; a transactional body adds the page before it writes another.
WritePage(op) ==
    /\ At("applying") /\ op.do = "write" /\ Due(op)
    /\ work' = [work EXCEPT ![op.at] = run.call.files[op.at]]
    /\ run' = [run EXCEPT !.todo = (@ \ {op}) \cup
                              IF Transactional(run.call) THEN {Op("add", op.at, None)} ELSE {},
                          !.did = @ \cup {op}]
    /\ UNCHANGED <<head, index, claim>>

AddPage(op) ==
    /\ At("applying") /\ op.do = "add" /\ Due(op)
    /\ index' = [index EXCEPT ![op.at] = work[op.at]]
    /\ run' = [run EXCEPT !.todo = @ \ {op}]
    /\ UNCHANGED <<head, work, claim>>

\* add -A under the pathspec of the patch.
Stage(op) ==
    /\ At("applying") /\ op.do = "stage" /\ Due(op)
    /\ index' = [p \in Path |-> IF p \in DOMAIN run.call.files THEN work[p] ELSE index[p]]
    /\ run' = [run EXCEPT !.todo = @ \ {op}]
    /\ UNCHANGED <<head, work, claim>>

OpFails(op) ==
    /\ At("applying") /\ Due(op)
    /\ \/ work' = work
       \/ op.do = "write" /\ work' = [work EXCEPT ![op.at] = Partial]
    /\ Abort
    /\ UNCHANGED <<head, index, claim>>

Applied == At("applying") /\ run.todo = {}

\* The status that decides whether there is anything to commit.
Changed == IF Transactional(run.call) THEN DirtyPaths # {}
           ELSE DirtyPaths \cap DOMAIN run.call.files # {}

\* git commit takes the whole index, and fails when that is what HEAD holds.
Commit ==
    /\ Applied /\ Changed /\ index # head
    /\ head' = index
    /\ Become("clearing")
    /\ UNCHANGED <<index, work, claim>>

NothingToCommit ==
    /\ Applied /\ ~Changed
    /\ Become("clearing")
    /\ UNCHANGED <<tree, claim>>

CommitFails ==
    /\ Applied
    /\ Abort
    /\ UNCHANGED <<tree, claim>>

-----------------------------------------------------------------------------
(* _rollback: what was done, undone in reverse; every failure is swallowed. *)

Undoing(op) ==
    /\ At("undoing")
    /\ op \in run.todo /\ \A o \in run.todo : Rank[o.do] <= Rank[op.do]
    /\ run' = [run EXCEPT !.todo = @ \ {op}]
    /\ UNCHANGED <<head, claim>>

UndoWrite(op) ==
    /\ op.do = "write" /\ Undoing(op)
    /\ index' \in {index, FromHead(index, {op.at})}
    /\ work' \in {work, Without(work, {op.at})}

UndoRename(op) ==
    /\ op.do = "mv" /\ Undoing(op)
    /\ MayRename(op.at, op.from)
    /\ index' = Renamed(index, op.at, op.from) /\ work' = Renamed(work, op.at, op.from)

\* When git will not rename back: reset both sides, check the source out, unlink the target.
RebuildRename(op) ==
    /\ op.do = "mv" /\ Undoing(op)
    /\ \E unstaged \in {index, FromHead(index, {op.at, op.from})} :
          \/ /\ head[op.from] # None
             /\ index' = FromHead(unstaged, {op.from})
             /\ work' \in {FromHead(work, {op.from}), Without(FromHead(work, {op.from}), {op.at})}
          \/ /\ index' = unstaged
             /\ work' \in {work, Without(work, {op.at})}

UndoRemove(op) ==
    /\ op.do = "rm" /\ Undoing(op)
    /\ \/ head[op.at] # None /\ index' = FromHead(index, {op.at}) /\ work' = FromHead(work, {op.at})
       \/ UNCHANGED <<index, work>>

Reached(ops) == {op.at : op \in ops} \cup {op.from : op \in {o \in ops : o.do = "mv"}}

\* The last reset; the status read after it only chooses which error the caller gets.
Settle ==
    /\ At("undoing") /\ run.todo = {}
    /\ index' \in {index, FromHead(index, Reached(run.did))}
    /\ Become("clearing")
    /\ UNCHANGED <<head, work, claim>>

-----------------------------------------------------------------------------
\* _clear_marker, in a `finally`: unlinked or replaced by a release, else left whole.
ClearMarker ==
    /\ At("clearing")
    /\ claim' \in {None, [claim EXCEPT !.over = TRUE]}
    /\ run' = None
    /\ UNCHANGED tree

-----------------------------------------------------------------------------
(* The world: a writer's process ends, in a call (the flock goes with it) or between calls;
   a file is edited or staged by hand at any moment; once a call was refused an operator
   settles the tree, one way or the other. *)

Bury(c, w) == IF c \in Claims /\ c.pid = w THEN [c EXCEPT !.pid = None] ELSE c

ProcessEnds(w) ==
    /\ claim' = Bury(claim, w) \/ (At("claiming") /\ run.by = w /\ claim' = Torn)
    /\ run' = IF run = None \/ run.by = w THEN None ELSE [run EXCEPT !.prev = Bury(@, w)]
    /\ UNCHANGED tree

HandEdit(p) ==
    /\ work' = [work EXCEPT ![p] = Hand]
    /\ UNCHANGED <<head, index, claim, run>>

HandStage(p) ==
    /\ work[p] = Hand
    /\ index' = [index EXCEPT ![p] = Hand]
    /\ UNCHANGED <<head, work, claim, run>>

OperatorSettles ==
    /\ run = None /\ DirtyPaths # {}
    /\ \E kept \in {head, work} : head' = kept /\ index' = kept /\ work' = kept
    /\ UNCHANGED <<claim, run>>

OpStep(op) ==
    \/ Remove(op) \/ Rename(op) \/ WritePage(op) \/ AddPage(op) \/ Stage(op)
    \/ OpFails(op)
    \/ UndoWrite(op) \/ UndoRename(op) \/ RebuildRename(op) \/ UndoRemove(op)

CallStep ==
    \/ \E w \in Writer, c \in Call : Begin(w, c)
    \/ WriteMarker
    \/ LookClean \/ LookRecover \/ LookRefuse
    \/ RecoverReset \/ RecoverCheckout \/ RecoverUnlink \/ RecoverVerify
    \/ Preflight
    \/ \E op \in (IF run = None THEN {} ELSE run.todo) : OpStep(op)
    \/ Commit \/ NothingToCommit \/ CommitFails
    \/ Settle
    \/ ClearMarker

Next ==
    \/ CallStep
    \/ \E w \in Writer : ProcessEnds(w)
    \/ \E p \in Path : HandEdit(p) \/ HandStage(p)
    \/ OperatorSettles

Spec == Init /\ [][Next]_vars

-----------------------------------------------------------------------------
(* What the adapter promises. *)

\* As committed, but for what a person edited or staged.
Untouched(p) == index[p] \in {head[p], Hand} /\ work[p] \in {head[p], Hand}

\* Whatever a body has left in the tree short of its commit was declared by the claim on
\* disk before it was made, so a death at any step of it leaves residue that the next call
\* may recover, unless somebody's own edits lie elsewhere (_begin_mutation: "no instant in
\* which this adapter has written a file it did not already declare").
DirtIsDeclared ==
    At("applying") \/ At("undoing") =>
        /\ claim = ClaimOf(run.by, run.call)
        /\ \A p \in Path \ claim.paths : Untouched(p)

Licensed == Footprint(run.call) \cup (IF ProvablyGone(run.prev) THEN run.prev.paths ELSE {})

\* No step of a call changes the tree, or what is staged, at a path outside what it declared
\* itself and what a process that is gone had declared, whatever failed or died before it
\* and whatever was edited since it looked: hand edits elsewhere survive every recovery.
KeepsToItsPaths ==
    [][run # None /\ run' # run
         => \A p \in Path : index'[p] # index[p] \/ work'[p] # work[p] => p \in Licensed]_vars

\* `git commit` takes the whole index, whoever filled it: a commit still changes nothing
\* but the paths of its own call and what a person staged while it ran, and never carries
\* the renames and removals that a crashed or failed call left behind.
NoStrangersCommitted ==
    [][\A p \in Path : head'[p] # head[p] /\ run # None
           => p \in Footprint(run.call) \/ head'[p] = Hand]_vars

Moves(c, p) == {m \in c.moves : m.to = p}

\* What the call makes of the library.
Result(c, p) ==
    IF p \in DOMAIN c.files THEN c.files[p]
    ELSE IF Moves(c, p) # {} THEN head[(CHOOSE m \in c.moves : m.to = p).from]
    ELSE None

\* A commit is the whole call: all its moves, removals and pages at once, or no commit.
\* Only a page edited by hand on the way takes the place of the call's.
CommitIsWhole ==
    [][run # None /\ head' # head
           => \A p \in Footprint(run.call) : head'[p] \in {Result(run.call, p), Hand}]_vars

Loses(p) == \/ work[p] = Hand /\ work'[p] # Hand
            \/ index[p] = Hand /\ index'[p] # Hand

\* A claim that outlived an orderly end ("a later edit is somewhere else by definition, so
\* it is refused, not cleaned", _clear_marker) costs nobody an edit.
OutlivedClaimIsHarmless ==
    [][\A p \in Path : Loses(p) /\ run # None /\ run.prev \in Claims /\ run.prev.over
           => p \in Footprint(run.call)]_vars
=============================================================================
