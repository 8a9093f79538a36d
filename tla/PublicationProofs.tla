------------------------- MODULE PublicationProofs -------------------------
(***************************************************************************)
(* The archive moves what its plan read, once, and its row says so: for    *)
(* any pages, sources, thresholds and any number of deaths, outages,       *)
(* decisions and foreign commits.                                          *)
(*                                                                         *)
(* Both rest on one fact about the lane: between the look at HEAD and the  *)
(* write that relies on it only commits that are nobody's job can land,    *)
(* and none of them adds a claim.                                          *)
(***************************************************************************)
EXTENDS Publication, SequenceTheorems, FiniteSetTheorems, TLAPS

Commits == [tree : Trees, by : {"init", "compile", "groom", "manifest", "hand", "archive"},
            proposal : Nat]
Proposals == [page : Pages, action : {"archive", "unarchive"}, sources : SUBSET Sources,
              moves : BOOLEAN, ref : Nat, statement : BOOLEAN, broken : BOOLEAN,
              status : {"proposed", "confirmed", "executed", "failed", "dropped", "stale"}]
JobRows == [kind : {"compile", "groom", "challenge", "archive"}, arg : Sources \cup Pages \cup Nat,
            again : BOOLEAN, status : Open \cup {"done", "failed"}, tries : Nat, ref : Nat,
            cut : {"no", "midway", "behind"}]

Fields == {"ref", "upserts", "deleted", "lex", "vec", "retired", "left", "wrote"}

Types ==
    /\ history \in Seq(Commits) /\ history # <<>>
    /\ rows \in Seq(Proposals) /\ jobs \in Seq(JobRows)
    /\ confirming \subseteq 1..Len(rows)
    /\ current \in Nat /\ (current # 0 => current \in 1..Len(jobs))
    /\ digested \subseteq Sources /\ marks \subseteq Sources /\ told \subseteq Sources
    /\ Fields \subseteq DOMAIN work /\ work.left \subseteq Sources /\ work.ref \in Nat

\* Rows name what is there, and the claimed row is the one whose body runs.
LaneKept ==
    /\ \A r \in 1..Len(rows) : rows[r].ref \in 1..Len(history)
    /\ \A j \in 1..Len(jobs) :
          /\ jobs[j].kind = "archive" => jobs[j].arg \in 1..Len(rows)
          /\ jobs[j].kind \in {"compile", "challenge"} => jobs[j].arg \in Sources
          /\ jobs[j].status = "claimed" => j = current
    /\ at = "idle" <=> current = 0
    /\ at \notin {"idle", "rollover", "challenge"} => jobs[current].status = "claimed"
    /\ at \in {"rollover", "challenge"} => jobs[current].status = "done"

Base == Types /\ LaneKept

\* What every step leaves as it was: git history, the plans, what each job is about.
HistoryGrows ==
    /\ history' \in Seq(Commits) /\ Len(history') >= Len(history)
    /\ \A i \in 1..Len(history) : history'[i] = history[i]

RowsFollow ==
    /\ rows' \in Seq(Proposals) /\ Len(rows') >= Len(rows)
    /\ \A r \in 1..Len(rows) : /\ rows'[r].ref = rows[r].ref /\ rows'[r].action = rows[r].action
                               /\ rows'[r].page = rows[r].page
                               /\ rows[r].statement => rows'[r].statement
                               /\ rows[r].broken => rows'[r].broken
    /\ \A r \in 1..Len(rows') : r > Len(rows) => rows'[r].ref \in 1..Len(history)

JobsFollow ==
    /\ jobs' \in Seq(JobRows) /\ Len(jobs') >= Len(jobs)
    /\ \A j \in 1..Len(jobs) : jobs'[j].kind = jobs[j].kind /\ jobs'[j].arg = jobs[j].arg
    /\ \A j \in 1..Len(jobs') : j > Len(jobs) =>
          /\ jobs'[j].status = "queued"
          /\ jobs'[j].kind = "archive" => jobs'[j].arg \in 1..Len(rows)
          /\ jobs'[j].kind \in {"compile", "challenge"} => jobs'[j].arg \in Sources

Follows == HistoryGrows /\ RowsFollow /\ JobsFollow
-----------------------------------------------------------------------------
LEMMA InitBase == Init => Base
  <1>. SUFFICES ASSUME Init PROVE Base
    OBVIOUS
  <1>1. Start \in Trees
    BY PublicationAssumption DEF Start, Trees, Shelves
  <1>2. history \in Seq(Commits) /\ history # <<>> /\ Len(history) = 1
    BY <1>1 DEF Init, Commits
  <1>4. marks \subseteq Sources /\ digested \subseteq Sources
    BY PublicationAssumption DEF Init
  <1>5. Fields \subseteq DOMAIN work /\ work.left \subseteq Sources /\ work.ref \in Nat
    BY DEF Init, Blank, Fields
  <1>6. rows = <<>> /\ jobs = <<>> /\ confirming = {} /\ current = 0 /\ at = "idle" /\ told = {}
    BY DEF Init
  <1>7. Types
    BY <1>2, <1>4, <1>5, <1>6 DEF Types
  <1>. QED
    BY <1>6, <1>7 DEF Base, LaneKept

LEMMA HistorySame == Base /\ UNCHANGED history => HistoryGrows
  BY DEF Base, Types, HistoryGrows

LEMMA HistoryAppended ==
  ASSUME Base, NEW c \in Commits, history' = Append(history, c)
  PROVE  HistoryGrows /\ history' # <<>> /\ Len(history') = Len(history) + 1
         /\ history'[Len(history) + 1] = c
  BY DEF Base, Types, HistoryGrows

LEMMA RowsSame == Base /\ UNCHANGED rows => RowsFollow
  BY DEF Base, Types, RowsFollow

LEMMA RowReplaced ==
  ASSUME Base, NEW r \in 1..Len(rows), NEW new \in Proposals, rows' = [rows EXCEPT ![r] = new],
         new.ref = rows[r].ref, new.action = rows[r].action, new.page = rows[r].page,
         rows[r].statement => new.statement, rows[r].broken => new.broken
  PROVE  RowsFollow /\ Len(rows') = Len(rows) /\ rows'[r] = new
         /\ \A i \in 1..Len(rows) : i # r => rows'[i] = rows[i]
  BY DEF Base, Types, RowsFollow

LEMMA JobsSame == Base /\ UNCHANGED jobs => JobsFollow
  BY DEF Base, Types, JobsFollow

LEMMA JobAppended ==
  ASSUME Base, NEW row \in JobRows, jobs' = Append(jobs, row), row.status = "queued",
         row.kind = "archive" => row.arg \in 1..Len(rows),
         row.kind \in {"compile", "challenge"} => row.arg \in Sources
  PROVE  JobsFollow /\ Len(jobs') = Len(jobs) + 1 /\ jobs'[Len(jobs) + 1] = row
         /\ \A i \in 1..Len(jobs) : jobs'[i] = jobs[i]
  BY DEF Base, Types, JobsFollow

LEMMA JobReplaced ==
  ASSUME Base, NEW j \in 1..Len(jobs), NEW new \in JobRows, jobs' = [jobs EXCEPT ![j] = new],
         new.kind = jobs[j].kind, new.arg = jobs[j].arg
  PROVE  JobsFollow /\ Len(jobs') = Len(jobs) /\ jobs'[j] = new
         /\ \A i \in 1..Len(jobs) : i # j => jobs'[i] = jobs[i]
  BY DEF Base, Types, JobsFollow

\* With the three sequences settled, the lane is kept when the claimed row still is the current.
LEMMA LaneFollows ==
  ASSUME Base, Follows,
         \A j \in 1..Len(jobs) : jobs'[j].status = "claimed" => j = current',
         at' = "idle" <=> current' = 0,
         at' \notin {"idle", "rollover", "challenge"} => jobs'[current'].status = "claimed",
         at' \in {"rollover", "challenge"} => jobs'[current'].status = "done"
  PROVE  LaneKept'
  <1>1. \A r \in 1..Len(rows') : rows'[r].ref \in 1..Len(history')
    <2>. TAKE r \in 1..Len(rows')
    <2>1. r \in 1..Len(rows) => rows'[r].ref = rows[r].ref /\ rows[r].ref \in 1..Len(history)
      BY DEF Base, LaneKept, Follows, RowsFollow
    <2>2. r \notin 1..Len(rows) => rows'[r].ref \in 1..Len(history)
      BY DEF Base, Types, Follows, RowsFollow
    <2>. QED
      BY <2>1, <2>2 DEF Base, Types, Follows, HistoryGrows
  <1>2. ASSUME NEW j \in 1..Len(jobs')
        PROVE  /\ jobs'[j].kind = "archive" => jobs'[j].arg \in 1..Len(rows')
               /\ jobs'[j].kind \in {"compile", "challenge"} => jobs'[j].arg \in Sources
               /\ jobs'[j].status = "claimed" => j = current'
    <2>1. Len(rows) \in Nat /\ Len(rows') \in Nat /\ Len(rows') >= Len(rows)
      BY DEF Base, Types, Follows, RowsFollow
    <2>2. CASE j \in 1..Len(jobs)
      BY <2>1, <2>2 DEF Base, LaneKept, Follows, JobsFollow
    <2>3. CASE j \notin 1..Len(jobs)
      <3>1. j > Len(jobs)
        BY <2>3 DEF Base, Types, Follows, JobsFollow
      <3>. QED
        BY <2>1, <3>1 DEF Follows, JobsFollow
    <2>. QED
      BY <2>2, <2>3
  <1>. QED
    BY <1>1, <1>2 DEF LaneKept

\* The other variables, of which a step may set one or two.
Others ==
    /\ confirming \subseteq 1..Len(rows)
    /\ Fields \subseteq DOMAIN work /\ work.left \subseteq Sources /\ work.ref \in Nat
    /\ digested \subseteq Sources /\ marks \subseteq Sources /\ told \subseteq Sources

LEMMA TypesFollow ==
  ASSUME Base, Follows, Others', current' \in Nat, current' # 0 => current' \in 1..Len(jobs')
  PROVE  Types'
  <1>1. Len(history) > 0 /\ history' \in Seq(Commits) /\ Len(history') >= Len(history)
    BY DEF Base, Types, Follows, HistoryGrows
  <1>2. history' # <<>>
    BY <1>1
  <1>. QED
    BY <1>1, <1>2 DEF Types, Others, Follows, RowsFollow, JobsFollow

LEMMA OthersNow == Base => Others
  BY DEF Base, Types, Others

\* The step leaves the lane alone.
LEMMA LaneStill ==
  ASSUME Base, HistoryGrows, RowsFollow, Others', UNCHANGED <<jobs, current, at>>
  PROVE  Follows /\ Base'
  <1>1. Follows
    BY JobsSame DEF Follows
  <1>2. LaneKept'
    BY <1>1, LaneFollows DEF Base, LaneKept
  <1>3. Types'
    BY <1>1, TypesFollow DEF Base, Types
  <1>. QED
    BY <1>1, <1>2, <1>3 DEF Base

\* The current body goes to its next phase.
LEMMA BodyGoesOn ==
  ASSUME Base, HistoryGrows, RowsFollow, Others', UNCHANGED <<jobs, current>>,
         at \notin {"idle", "rollover", "challenge"}, at' \notin {"idle", "rollover", "challenge"}
  PROVE  Follows /\ Base'
  <1>1. Follows
    BY JobsSame DEF Follows
  <1>2. LaneKept'
    BY <1>1, LaneFollows DEF Base, LaneKept
  <1>3. Types'
    BY <1>1, TypesFollow DEF Base, Types
  <1>. QED
    BY <1>1, <1>2, <1>3 DEF Base

\* The current row is put back or ends, and the lane is free.
LEMMA RowLeaves ==
  ASSUME Base, HistoryGrows, RowsFollow, Others', current # 0,
         NEW new \in JobRows, new.kind = Me.kind, new.arg = Me.arg, new.status # "claimed",
         jobs' = [jobs EXCEPT ![current] = new], current' = 0, at' = "idle"
  PROVE  Follows /\ Base'
  <1>1. current \in 1..Len(jobs)
    BY DEF Base, Types
  <1>2. /\ JobsFollow /\ Len(jobs') = Len(jobs) /\ jobs'[current] = new
        /\ \A i \in 1..Len(jobs) : i # current => jobs'[i] = jobs[i]
    BY <1>1, JobReplaced DEF Me
  <1>3. Follows
    BY <1>2 DEF Follows
  <1>a. \A j \in 1..Len(jobs) : jobs'[j].status # "claimed"
    BY <1>1, <1>2 DEF Base, LaneKept
  <1>4. LaneKept'
    BY <1>3, <1>a, LaneFollows
  <1>b. current' \in Nat /\ (current' # 0 => current' \in 1..Len(jobs'))
    OBVIOUS
  <1>5. Types'
    BY <1>3, <1>b, TypesFollow
  <1>. QED
    BY <1>3, <1>4, <1>5 DEF Base

\* A row joins the queue while the current body, if any, stays or goes on.
LEMMA QueueGrows ==
  ASSUME Base, HistoryGrows, RowsFollow, Others', NEW row \in JobRows, jobs' = Append(jobs, row),
         row.status = "queued",
         row.kind = "archive" => row.arg \in 1..Len(rows),
         row.kind \in {"compile", "challenge"} => row.arg \in Sources,
         UNCHANGED current, at' = "idle" <=> at = "idle",
         at' \notin {"idle", "rollover", "challenge"} <=> at \notin {"idle", "rollover", "challenge"}
  PROVE  Follows /\ Base'
  <1>1. /\ JobsFollow /\ Len(jobs') = Len(jobs) + 1 /\ jobs'[Len(jobs) + 1] = row
        /\ \A i \in 1..Len(jobs) : jobs'[i] = jobs[i]
    BY JobAppended
  <1>2. Follows
    BY <1>1 DEF Follows
  <1>3. \A j \in 1..Len(jobs) : jobs'[j].status = "claimed" => j = current'
    BY <1>1 DEF Base, LaneKept
  <1>4. /\ at' \notin {"idle", "rollover", "challenge"} => jobs'[current'].status = "claimed"
        /\ at' \in {"rollover", "challenge"} => jobs'[current'].status = "done"
    BY <1>1 DEF Base, LaneKept, Types
  <1>5. LaneKept'
    BY <1>2, <1>3, <1>4, LaneFollows DEF Base, LaneKept
  <1>b. current' \in Nat /\ (current' # 0 => current' \in 1..Len(jobs'))
    BY <1>1 DEF Base, Types
  <1>6. Types'
    BY <1>2, <1>b, TypesFollow
  <1>. QED
    BY <1>2, <1>5, <1>6 DEF Base
-----------------------------------------------------------------------------
(* Every action keeps the base. *)

LEMMA TreeType == Base => Tree \in Trees /\ HEAD \in 1..Len(history) /\ HEAD \in Nat
  <1>. SUFFICES ASSUME Base PROVE Tree \in Trees /\ HEAD \in 1..Len(history) /\ HEAD \in Nat
    OBVIOUS
  <1>1. history \in Seq(Commits) /\ history # <<>>
    BY DEF Base, Types
  <1>2. HEAD \in 1..Len(history) /\ HEAD \in Nat
    BY <1>1 DEF HEAD
  <1>3. history[HEAD] \in Commits
    BY <1>1, <1>2
  <1>. QED
    BY <1>2, <1>3 DEF Commits, Tree

LEMMA MeType == Base /\ current # 0 => Me \in JobRows /\ current \in 1..Len(jobs)
  BY DEF Base, Types, Me

LEMMA RowType ==
  ASSUME Base, current # 0, Me.kind = "archive"
  PROVE  Row \in Proposals /\ Me.arg \in 1..Len(rows) /\ Row.ref \in 1..Len(history)
  <1>1. Me.arg \in 1..Len(rows)
    BY MeType DEF Base, LaneKept, Me
  <1>. QED
    BY <1>1 DEF Base, Types, LaneKept, Row

LEMMA BlankFields == DOMAIN Blank = Fields /\ Blank.left = {} /\ Blank.ref = 0
  BY DEF Blank, Fields

\* Phases that write a store or nothing.
LEMMA StoresBase ==
  ASSUME Base,
         \/ SyncPlan \/ WriteLexical \/ WriteVectors \/ AdvanceManifest \/ CompileNoop
         \/ RecordEvents \/ MarkDigested \/ ArchiveResumes \/ ArchiveProceeds
         \/ SetSourceArchived \/ MarksSet
  PROVE  Follows /\ Base' /\ UNCHANGED <<history, rows, jobs, current>>
  <1>1. /\ UNCHANGED <<history, rows, jobs, current, confirming>>
        /\ at \notin {"idle", "rollover", "challenge"} /\ at' \notin {"idle", "rollover", "challenge"}
    BY DEF SyncPlan, WriteLexical, WriteVectors, AdvanceManifest, CompileNoop, RecordEvents,
       MarkDigested, ArchiveResumes, ArchiveProceeds, SetSourceArchived, MarksSet, LeaveStores,
       Goto, Running
  <1>2. Fields \subseteq DOMAIN work' /\ work'.left \subseteq Sources /\ work'.ref \in Nat
    <2>1. Fields \subseteq DOMAIN work /\ work.left \subseteq Sources /\ work.ref \in Nat
      BY DEF Base, Types
    <2>2. CASE AdvanceManifest \/ RecordEvents \/ MarkDigested \/ MarksSet
      BY <2>1, <2>2 DEF AdvanceManifest, RecordEvents, MarkDigested, MarksSet, Goto
    <2>7. CASE WriteLexical \/ WriteVectors
      BY <2>1, <2>7 DEF WriteLexical, WriteVectors, Fields
    <2>6. CASE CompileNoop
      BY <2>1, <2>6, TreeType DEF CompileNoop, Blank, Fields
    <2>3. CASE SyncPlan
      BY <2>1, <2>3 DEF SyncPlan, Fields
    <2>4. CASE SetSourceArchived
      BY <2>1, <2>4 DEF SetSourceArchived, Fields
    <2>5. CASE ArchiveResumes \/ ArchiveProceeds
      <3>1. Row.sources \subseteq Sources
        BY <2>5, RowType DEF ArchiveResumes, ArchiveProceeds, Running, Proposals
      <3>2. CASE ArchiveResumes
        BY <3>1, <3>2, TreeType DEF ArchiveResumes, Blank, Fields
      <3>3. CASE ArchiveProceeds
        BY <2>1, <3>1, <3>3 DEF ArchiveProceeds, Blank, Fields
      <3>. QED
        BY <2>5, <3>2, <3>3
    <2>. QED
      BY <2>2, <2>3, <2>4, <2>5, <2>6, <2>7
  <1>3. digested' \subseteq Sources /\ told' \subseteq Sources
    <2>1. current # 0 /\ Me.kind = "compile" => Me.arg \in Sources
      BY MeType DEF Base, LaneKept, Me
    <2>2. digested \subseteq Sources /\ told \subseteq Sources
      BY DEF Base, Types
    <2>. QED
      BY <2>1, <2>2 DEF SyncPlan, WriteLexical, WriteVectors, AdvanceManifest, CompileNoop,
         RecordEvents, MarkDigested, ArchiveResumes, ArchiveProceeds, SetSourceArchived, MarksSet,
         LeaveStores, Running
  <1>4. marks' \subseteq Sources
    <2>1. marks \subseteq Sources
      BY DEF Base, Types
    <2>2. CASE ~SetSourceArchived
      BY <2>1, <2>2 DEF SyncPlan, WriteLexical, WriteVectors, AdvanceManifest, CompileNoop,
         RecordEvents, MarkDigested, ArchiveResumes, ArchiveProceeds, MarksSet, LeaveStores
    <2>3. CASE SetSourceArchived
      <3>1. work.left \subseteq Sources
        BY DEF Base, Types
      <3>. QED
        BY <2>1, <2>3, <3>1 DEF SetSourceArchived
    <2>. QED
      BY <2>2, <2>3
  <1>. QED
    BY <1>1, <1>2, <1>3, <1>4, HistorySame, RowsSame, BodyGoesOn, OthersNow DEF Others

\* Phases that commit: their tree is a tree.
LEMMA CommitsBase ==
  ASSUME Base, CompileCommits \/ GroomCommits \/ MoveDocuments
  PROVE  Follows /\ Base' /\ UNCHANGED <<rows, jobs, current>>
  <1>1. Tree \in Trees /\ HEAD \in Nat
    BY TreeType
  <1>2. \E c \in Commits : history' = Append(history, c)
    <2>1. CASE CompileCommits
      <3>. DEFINE t == [Tree EXCEPT !.shelf[Me.arg] = "page"]
      <3>1. t \in Trees
        BY <1>1 DEF Trees, Shelves
      <3>2. history' = Append(history, [tree |-> t, by |-> "compile", proposal |-> 0])
        BY <2>1 DEF CompileCommits, Commit
      <3>. HIDE DEF t
      <3>. QED
        BY <3>1, <3>2 DEF Commits
    <2>2. CASE GroomCommits
      <3>1. PICK kept \in SUBSET OnPage(Tree, Me.arg) :
              Commit([Tree EXCEPT !.shelf = [s \in Sources |->
                IF s \in OnPage(Tree, Me.arg) \ kept THEN "volume" ELSE @[s]]], "groom", 0)
        BY <2>2 DEF GroomCommits
      <3>. DEFINE t == [Tree EXCEPT !.shelf = [s \in Sources |->
                IF s \in OnPage(Tree, Me.arg) \ kept THEN "volume" ELSE @[s]]]
      <3>2. t \in Trees
        BY <1>1 DEF Trees, Shelves
      <3>3. history' = Append(history, [tree |-> t, by |-> "groom", proposal |-> 0])
        BY <3>1 DEF Commit
      <3>. HIDE DEF t
      <3>. QED
        BY <3>2, <3>3 DEF Commits
    <2>3. CASE MoveDocuments
      <3>. DEFINE t == [Tree EXCEPT !.archived =
                 IF Row.action = "archive" THEN @ \cup {Row.page} ELSE @ \ {Row.page}]
      <3>1. Row \in Proposals /\ Me.arg \in 1..Len(rows) /\ Len(rows) \in Nat
        BY <2>3, RowType DEF MoveDocuments, Running, Base, Types
      <3>2. t \in Trees
        BY <1>1, <3>1 DEF Trees, Proposals
      <3>3. history' = Append(history, [tree |-> t, by |-> "archive", proposal |-> Me.arg])
        BY <2>3 DEF MoveDocuments, Commit
      <3>. HIDE DEF t
      <3>. QED
        BY <3>1, <3>2, <3>3 DEF Commits
    <2>. QED
      BY <2>1, <2>2, <2>3
  <1>3. HistoryGrows
    BY <1>2, HistoryAppended
  <1>4. /\ UNCHANGED <<rows, jobs, current, confirming, digested, marks, told>>
        /\ at \notin {"idle", "rollover", "challenge"} /\ at' \notin {"idle", "rollover", "challenge"}
    BY DEF CompileCommits, GroomCommits, MoveDocuments, Running
  <1>5. Fields \subseteq DOMAIN work' /\ work'.left \subseteq Sources /\ work'.ref \in Nat
    <2>1. CASE CompileCommits
      BY <1>1, <2>1 DEF CompileCommits, Blank, Fields
    <2>3. CASE GroomCommits
      BY <1>1, <2>3 DEF GroomCommits, Blank, Fields
    <2>2. CASE MoveDocuments
      <3>1. Row.sources \subseteq Sources
        BY <2>2, RowType DEF MoveDocuments, Running, Proposals
      <3>. QED
        BY <1>1, <2>2, <3>1 DEF MoveDocuments, Blank, Fields
    <2>. QED
      BY <2>1, <2>2, <2>3
  <1>. QED
    BY <1>3, <1>4, <1>5, RowsSame, BodyGoesOn, OthersNow DEF Others

\* The worker's and the Owner's own commits.
LEMMA ForeignCommitsBase ==
  ASSUME Base, WriteMeta \/ \E p \in Pages : HandCommits(p)
  PROVE  Follows /\ Base' /\ UNCHANGED <<rows, lane>>
  <1>1. Tree \in Trees
    BY TreeType
  <1>2. \E c \in Commits : history' = Append(history, c)
    <2>1. CASE WriteMeta
      BY <1>1, <2>1 DEF WriteMeta, Commit, Commits
    <2>2. ASSUME NEW p \in Pages, HandCommits(p)
          PROVE  \E c \in Commits : history' = Append(history, c)
      <3>. DEFINE t == [shelf |-> [s \in Sources |-> IF About[s] = p THEN "absent" ELSE Tree.shelf[s]],
                        archived |-> Tree.archived \ {p}]
      <3>1. t \in Trees
        BY <1>1 DEF Trees, Shelves
      <3>2. history' = Append(history, [tree |-> t, by |-> "hand", proposal |-> 0])
        BY <2>2 DEF HandCommits, Commit
      <3>. HIDE DEF t
      <3>. QED
        BY <3>1, <3>2 DEF Commits
    <2>. QED
      BY <2>1, <2>2
  <1>3. HistoryGrows
    BY <1>2, HistoryAppended
  <1>4. UNCHANGED <<rows, jobs, current, at, work, confirming, digested, marks, told>>
    BY DEF WriteMeta, HandCommits, lane
  <1>5. Others'
    BY <1>4 DEF Base, Types, Others
  <1>. QED
    BY <1>3, <1>4, <1>5, RowsSame, LaneStill DEF lane

\* The decisions.
LEMMA PlanBase ==
  ASSUME Base, NEW p \in Pages, PlanArchive(p)
  PROVE  Follows /\ Base' /\ UNCHANGED <<history, lane>>
         /\ \A r \in 1..Len(rows) : rows'[r] = rows[r]
  <1>. DEFINE new == [page |-> p, action |-> IF p \in Tree.archived THEN "unarchive" ELSE "archive",
                      sources |-> Filed(Tree, p), moves |-> TRUE, ref |-> HEAD,
                      status |-> "proposed", statement |-> FALSE, broken |-> FALSE]
  <1>1. new \in Proposals /\ new.ref \in 1..Len(history)
    BY TreeType DEF Proposals, Filed
  <1>2. rows' = Append(rows, new)
        /\ UNCHANGED <<history, jobs, current, at, work, confirming, digested, marks, told>>
    BY DEF PlanArchive, lane
  <1>. HIDE DEF new
  <1>3. RowsFollow /\ Len(rows') = Len(rows) + 1 /\ \A r \in 1..Len(rows) : rows'[r] = rows[r]
    BY <1>1, <1>2 DEF Base, Types, RowsFollow
  <1>4. Others'
    BY <1>2, <1>3 DEF Base, Types, Others
  <1>. QED
    BY <1>2, <1>3, <1>4, HistorySame, LaneStill DEF lane

LEMMA StampBase ==
  ASSUME Base, NEW r \in 1..Len(rows), ConfirmReads(r) \/ ConfirmStale(r) \/ Drop(r)
  PROVE  /\ Follows /\ Base' /\ UNCHANGED <<history, lane>>
         /\ \A i \in 1..Len(rows) : rows'[i].status # rows[i].status =>
               rows[i].status \in {"proposed", "stale"}
  <1>1. UNCHANGED <<history, jobs, current, at, work, digested, marks, told>>
        /\ confirming' \subseteq 1..Len(rows)
    BY DEF ConfirmReads, ConfirmStale, Drop, lane, Base, Types
  <1>2. rows[r] \in Proposals
    BY DEF Base, Types
  <1>3. /\ RowsFollow /\ Len(rows') = Len(rows)
        /\ \A i \in 1..Len(rows) : rows'[i].status # rows[i].status =>
              rows[i].status \in {"proposed", "stale"}
    <2>1. CASE ConfirmReads(r)
      BY <2>1, RowsSame DEF ConfirmReads
    <2>2. CASE ConfirmStale(r)
      <3>. DEFINE new == [rows[r] EXCEPT !.status = "stale"]
      <3>1. new \in Proposals /\ new.ref = rows[r].ref /\ new.action = rows[r].action
            /\ new.statement = rows[r].statement /\ new.broken = rows[r].broken
            /\ new.page = rows[r].page
        BY <1>2 DEF Proposals
      <3>2. rows' = [rows EXCEPT ![r] = new] /\ rows[r].status = "proposed"
        BY <2>2 DEF ConfirmStale
      <3>. HIDE DEF new
      <3>. QED
        BY <3>1, <3>2, RowReplaced
    <2>3. CASE Drop(r)
      <3>. DEFINE new == [rows[r] EXCEPT !.status = "dropped"]
      <3>1. new \in Proposals /\ new.ref = rows[r].ref /\ new.action = rows[r].action
            /\ new.statement = rows[r].statement /\ new.broken = rows[r].broken
            /\ new.page = rows[r].page
        BY <1>2 DEF Proposals
      <3>2. rows' = [rows EXCEPT ![r] = new] /\ rows[r].status \in {"proposed", "stale"}
        BY <2>3 DEF Drop
      <3>. HIDE DEF new
      <3>. QED
        BY <3>1, <3>2, RowReplaced
    <2>. QED
      BY <2>1, <2>2, <2>3
  <1>4. Others'
    BY <1>1, <1>3 DEF Base, Types, Others
  <1>. QED
    BY <1>1, <1>3, <1>4, HistorySame, LaneStill DEF lane

LEMMA ConfirmBase ==
  ASSUME Base, NEW r \in 1..Len(rows), ConfirmWrites(r)
  PROVE  /\ Follows /\ Base' /\ UNCHANGED <<history, current, at, work>>
         /\ Len(rows') = Len(rows)
         /\ \A i \in 1..Len(rows) : rows'[i].status # rows[i].status =>
               rows[i].status = "proposed" /\ rows'[i].status = "confirmed"
         /\ \A j \in 1..Len(jobs) : jobs'[j] = jobs[j]
  <1>1. UNCHANGED <<history, current, at, work, digested, marks, told>>
        /\ confirming' \subseteq 1..Len(rows)
    BY DEF ConfirmWrites, Base, Types
  <1>2. rows[r] \in Proposals
    BY DEF Base, Types
  <1>3. CASE rows[r].status # "proposed"
    <2>1. UNCHANGED <<rows, jobs>>
      BY <1>3 DEF ConfirmWrites
    <2>2. Others'
      BY <1>1, <2>1 DEF Base, Types, Others
    <2>. QED
      BY <1>1, <2>1, <2>2, HistorySame, RowsSame, LaneStill
  <1>4. CASE rows[r].status = "proposed"
    <2>1. PICK moves \in BOOLEAN, kept \in {{}, rows[r].sources} :
            /\ rows' = [rows EXCEPT ![r].status = "confirmed", ![r].moves = moves,
                                    ![r].sources = kept]
            /\ jobs' = Append(jobs, Job("archive", r, FALSE))
      BY <1>4 DEF ConfirmWrites
    <2>. DEFINE new == [rows[r] EXCEPT !.status = "confirmed", !.moves = moves, !.sources = kept]
                row == Job("archive", r, FALSE)
    <2>2. /\ new \in Proposals /\ new.ref = rows[r].ref /\ new.action = rows[r].action
          /\ new.statement = rows[r].statement /\ new.broken = rows[r].broken
            /\ new.page = rows[r].page
          /\ new.status = "confirmed"
      BY <1>2 DEF Proposals
    <2>3. rows' = [rows EXCEPT ![r] = new]
      BY <2>1
    <2>4. row \in JobRows /\ row.status = "queued" /\ row.kind = "archive" /\ row.arg = r
      BY DEF Job, JobRows, Open, Base, Types
    <2>. HIDE DEF new, row
    <2>5. /\ RowsFollow /\ Len(rows') = Len(rows) /\ rows'[r] = new
          /\ \A i \in 1..Len(rows) : i # r => rows'[i] = rows[i]
      BY <2>2, <2>3, RowReplaced
    <2>6. Others'
      BY <1>1, <2>5 DEF Base, Types, Others
    <2>7. Follows /\ Base'
      <3>1. jobs' = Append(jobs, row)
        BY <2>1 DEF row
      <3>. QED
        BY <1>1, <2>4, <2>5, <2>6, <3>1, HistorySame, QueueGrows
    <2>8. \A j \in 1..Len(jobs) : jobs'[j] = jobs[j]
      BY <2>1 DEF Base, Types
    <2>. QED
      BY <1>1, <1>4, <2>2, <2>5, <2>7, <2>8
  <1>. QED
    BY <1>3, <1>4

\* The body that writes its own proposal's row and goes on.
LEMMA RowWritesBase ==
  ASSUME Base, ArchiveStates \/ RecordTerminal
  PROVE  /\ Follows /\ Base' /\ UNCHANGED <<history, jobs, current, work>>
         /\ Me.arg \in 1..Len(rows) /\ Len(rows') = Len(rows)
         /\ \A i \in 1..Len(rows) : i # Me.arg => rows'[i] = rows[i]
         /\ \/ /\ ArchiveStates /\ Row.status = "confirmed"
               /\ rows'[Me.arg] = [Row EXCEPT !.statement = TRUE]
            \/ RecordTerminal /\ rows'[Me.arg] = Row
            \/ RecordTerminal /\ Row.status = "confirmed" /\ rows'[Me.arg] = [Row EXCEPT !.status = "executed"]
  <1>1. /\ UNCHANGED <<history, jobs, current, work, confirming, digested, marks, told>>
        /\ current # 0 /\ Me.kind = "archive"
        /\ at \notin {"idle", "rollover", "challenge"} /\ at' \notin {"idle", "rollover", "challenge"}
    BY DEF ArchiveStates, RecordTerminal, Running, Goto
  <1>2. Row \in Proposals /\ Me.arg \in 1..Len(rows)
    BY <1>1, RowType
  <1>3. /\ RowsFollow /\ Len(rows') = Len(rows)
        /\ \A i \in 1..Len(rows) : i # Me.arg => rows'[i] = rows[i]
        /\ \/ /\ ArchiveStates /\ Row.status = "confirmed"
              /\ rows'[Me.arg] = [Row EXCEPT !.statement = TRUE]
           \/ RecordTerminal /\ rows'[Me.arg] = Row
           \/ RecordTerminal /\ Row.status = "confirmed" /\ rows'[Me.arg] = [Row EXCEPT !.status = "executed"]
    <2>1. CASE ArchiveStates
      <3>. DEFINE new == [Row EXCEPT !.statement = TRUE]
      <3>1. new \in Proposals /\ new.ref = Row.ref /\ new.action = Row.action
            /\ new.statement /\ new.broken = Row.broken /\ new.page = Row.page
        BY <1>2 DEF Proposals
      <3>2. rows' = [rows EXCEPT ![Me.arg] = new] /\ Row.status = "confirmed"
        BY <2>1 DEF ArchiveStates, Row
      <3>. HIDE DEF new
      <3>3. /\ RowsFollow /\ Len(rows') = Len(rows) /\ rows'[Me.arg] = new
            /\ \A i \in 1..Len(rows) : i # Me.arg => rows'[i] = rows[i]
        BY <1>2, <3>1, <3>2, RowReplaced DEF Row
      <3>. QED
        BY <2>1, <3>2, <3>3 DEF new
    <2>2. CASE RecordTerminal /\ Row.status = "confirmed"
      <3>. DEFINE new == [Row EXCEPT !.status = "executed"]
      <3>1. new \in Proposals /\ new.ref = Row.ref /\ new.action = Row.action
            /\ new.statement = Row.statement /\ new.broken = Row.broken
            /\ new.page = Row.page
        BY <1>2 DEF Proposals
      <3>2. rows' = [rows EXCEPT ![Me.arg] = new]
        BY <2>2 DEF RecordTerminal, Row
      <3>. HIDE DEF new
      <3>3. /\ RowsFollow /\ Len(rows') = Len(rows) /\ rows'[Me.arg] = new
            /\ \A i \in 1..Len(rows) : i # Me.arg => rows'[i] = rows[i]
        BY <1>2, <3>1, <3>2, RowReplaced DEF Row
      <3>. QED
        BY <2>2, <3>3 DEF new
    <2>3. CASE RecordTerminal /\ Row.status # "confirmed"
      BY <2>3, RowsSame DEF RecordTerminal, Row
    <2>. QED
      BY <1>1, <2>1, <2>2, <2>3
  <1>4. Others'
    BY <1>1, <1>3 DEF Base, Types, Others
  <1>. QED
    BY <1>1, <1>2, <1>3, <1>4, HistorySame, BodyGoesOn

\* The row a body or an interruption leaves behind.
LEMMA LeftRow ==
  ASSUME Base, current # 0, NEW st \in Open \cup {"done", "failed"}, NEW ref \in Nat, NEW tries \in Nat
  PROVE  LET new == [Me EXCEPT !.status = st, !.ref = ref, !.tries = tries]
         IN  new \in JobRows /\ new.kind = Me.kind /\ new.arg = Me.arg /\ new.status = st
  BY MeType DEF JobRows

\* A body's row is ended; the rows of the archive follow.
LEMMA EndsBase ==
  ASSUME Base, current # 0, RowsFollow, UNCHANGED <<history, confirming, digested, marks, told>>,
         Len(rows') = Len(rows), NEW st \in {"done", "failed"}, NEW ref \in Nat, End(st, ref)
  PROVE  /\ Follows /\ Base' /\ at' = "idle" /\ current' = 0
         /\ \A j \in 1..Len(jobs) : j # current => jobs'[j] = jobs[j]
         /\ Len(jobs') = Len(jobs) /\ jobs'[current].status = st
  <1>. DEFINE new == [Me EXCEPT !.status = st, !.ref = ref]
  <1>1. new \in JobRows /\ new.kind = Me.kind /\ new.arg = Me.arg /\ new.status = st
    BY MeType DEF JobRows
  <1>2. jobs' = [jobs EXCEPT ![current] = new] /\ current' = 0 /\ at' = "idle" /\ work' = Blank
    BY DEF End, Ended, Me
  <1>. HIDE DEF new
  <1>3. Others'
    BY <1>2, BlankFields DEF Base, Types, Others
  <1>4. Follows /\ Base'
    BY <1>1, <1>2, <1>3, HistorySame, RowLeaves
  <1>. QED
    BY <1>1, <1>2, <1>4, MeType, JobReplaced DEF Me

LEMMA EndingsBase ==
  ASSUME Base,
         \/ GroomDeclines \/ GroomFails \/ GroomCompletes \/ ChallengeCompletes
         \/ ArchiveNotConfirmed \/ ArchiveCompletes \/ (CompileCompletes /\ ~work.wrote)
  PROVE  Follows /\ Base' /\ at' = "idle" /\ UNCHANGED <<history, rows>>
  <1>1. current # 0 /\ UNCHANGED <<history, rows, confirming, digested, marks, told>>
    BY DEF GroomDeclines, GroomFails, GroomCompletes, ChallengeCompletes, ArchiveNotConfirmed,
       ArchiveCompletes, CompileCompletes, Running, LeaveStores
  <1>2. RowsFollow /\ work.ref \in Nat
    BY <1>1, RowsSame DEF Base, Types
  <1>3. \E st \in {"done", "failed"}, ref \in Nat : End(st, ref)
    <2>1. CASE ArchiveCompletes
      <3>1. Landed \subseteq Nat
        <4>1. current # 0 /\ Me.kind = "archive"
          BY <2>1 DEF ArchiveCompletes, Running
        <4>2. Row.ref \in Nat /\ HEAD \in Nat
          BY <4>1, RowType, TreeType DEF Proposals
        <4>. QED
          BY <4>2 DEF Landed
      <3>2. (IF Landed = {} THEN 0 ELSE CHOOSE i \in Landed : TRUE) \in Nat
        BY <3>1
      <3>. QED
        BY <2>1, <3>2 DEF ArchiveCompletes
    <2>2. CASE ~ArchiveCompletes
      BY <1>2, <2>2 DEF GroomDeclines, GroomFails, GroomCompletes, ChallengeCompletes,
         ArchiveNotConfirmed, CompileCompletes
    <2>. QED
      BY <2>1, <2>2
  <1>. QED
    BY <1>1, <1>2, <1>3, EndsBase

\* An archive whose row fails with it: its plan is stale, the loss guard refuses its sync, or it
\* met an error nothing retries.
LEMMA FailuresBase ==
  ASSUME Base, ArchiveStale \/ ArchiveFails \/ (SyncRefused /\ Me.kind = "archive")
  PROVE  /\ Follows /\ Base' /\ at' = "idle" /\ UNCHANGED history
         /\ Me.arg \in 1..Len(rows) /\ Len(rows') = Len(rows)
         /\ \A i \in 1..Len(rows) : i # Me.arg => rows'[i] = rows[i]
         /\ SyncRefused => rows'[Me.arg].broken
         /\ ArchiveFails /\ Landed # {} => rows'[Me.arg].broken
  <1>1. /\ current # 0 /\ Me.kind = "archive"
        /\ UNCHANGED <<history, confirming, digested, marks, told>> /\ End("failed", 0)
    BY DEF ArchiveStale, ArchiveFails, SyncRefused, Running
  <1>2. Row \in Proposals /\ Me.arg \in 1..Len(rows)
    BY <1>1, RowType
  <1>3. /\ RowsFollow /\ Len(rows') = Len(rows)
        /\ \A i \in 1..Len(rows) : i # Me.arg => rows'[i] = rows[i]
        /\ SyncRefused => rows'[Me.arg].broken
        /\ ArchiveFails /\ Landed # {} => rows'[Me.arg].broken
    <2>1. CASE ArchiveStale
      <3>. DEFINE new == [Row EXCEPT !.status = "failed"]
      <3>1. new \in Proposals /\ new.ref = Row.ref /\ new.action = Row.action
            /\ new.statement = Row.statement /\ new.broken = Row.broken
            /\ new.page = Row.page
        BY <1>2 DEF Proposals
      <3>2. rows' = [rows EXCEPT ![Me.arg] = new] /\ ~SyncRefused /\ Landed = {}
        BY <2>1 DEF ArchiveStale, SyncRefused, Running, Row
      <3>. HIDE DEF new
      <3>. QED
        BY <1>2, <3>1, <3>2, RowReplaced DEF Row
    <2>2. CASE SyncRefused /\ Me.kind = "archive"
      <3>. DEFINE new == [Row EXCEPT !.status = "failed", !.broken = TRUE]
      <3>1. new \in Proposals /\ new.ref = Row.ref /\ new.action = Row.action
            /\ new.statement = Row.statement /\ new.broken /\ new.page = Row.page
        BY <1>2 DEF Proposals
      <3>2. rows' = [rows EXCEPT ![Me.arg] = new]
        BY <2>2 DEF SyncRefused, Row
      <3>. HIDE DEF new
      <3>. QED
        BY <1>2, <3>1, <3>2, RowReplaced DEF Row
    <2>3. CASE ArchiveFails /\ ~SyncRefused
      <3>. DEFINE new == [Row EXCEPT !.status = "failed", !.broken = Row.broken \/ Landed # {}]
      <3>1. new \in Proposals /\ new.ref = Row.ref /\ new.action = Row.action
            /\ new.statement = Row.statement /\ new.page = Row.page
        BY <1>2 DEF Proposals
      <3>2. (Row.broken => new.broken) /\ (Landed # {} => new.broken)
        BY <1>2 DEF Proposals
      <3>3. rows' = [rows EXCEPT ![Me.arg] = new]
        BY <2>3 DEF ArchiveFails, Row
      <3>. HIDE DEF new
      <3>. QED
        BY <1>2, <2>3, <3>1, <3>2, <3>3, RowReplaced DEF Row
    <2>. QED
      BY <1>1, <2>1, <2>2, <2>3
  <1>. QED
    BY <1>1, <1>2, <1>3, EndsBase

\* A row goes back: its body died, its store was away, its round failed.
LEMMA LeavesBase ==
  ASSUME Base, Interrupted \/ RoundFails \/ StoreAway \/ (SyncRefused /\ Me.kind # "archive")
  PROVE  Follows /\ Base' /\ at' = "idle" /\ UNCHANGED <<history, rows>>
  <1>1. current # 0 /\ current' = 0 /\ at' = "idle" /\ work' = Blank
        /\ UNCHANGED <<history, rows, confirming, digested, marks, told>>
    BY DEF Interrupted, RoundFails, StoreAway, LeaveJob, SyncRefused
  <1>2. Me \in JobRows /\ current \in 1..Len(jobs)
    BY <1>1, MeType
  <1>3. RowsFollow /\ HistoryGrows /\ Others'
    BY <1>1, RowsSame, HistorySame, BlankFields DEF Base, Types, Others
  <1>4. CASE jobs' = jobs /\ Me.status # "claimed"
    <2>1. Follows
      BY <1>3, <1>4, JobsSame DEF Follows
    <2>2. \A j \in 1..Len(jobs) : jobs'[j].status # "claimed"
      BY <1>4 DEF Base, LaneKept, Me
    <2>3. LaneKept'
      BY <1>1, <2>1, <2>2, LaneFollows
    <2>4. current' \in Nat /\ (current' # 0 => current' \in 1..Len(jobs'))
      BY <1>1
    <2>5. Types'
      BY <1>3, <2>1, <2>4, TypesFollow
    <2>. QED
      BY <1>1, <2>1, <2>3, <2>5 DEF Base
  <1>5. CASE jobs' = [jobs EXCEPT ![current] = Requeued(@)]
    <2>. DEFINE new == Requeued(Me)
    <2>1. new \in JobRows /\ new.kind = Me.kind /\ new.arg = Me.arg /\ new.status # "claimed"
      <3>1. Cut(Me, EarlierOpen) \in {"no", "midway", "behind"}
        BY <1>2 DEF Cut, JobRows
      <3>2. new = [Me EXCEPT !.status = "queued", !.cut = Cut(Me, EarlierOpen)]
        BY DEF Requeued
      <3>. HIDE DEF new
      <3>. QED
        BY <1>2, <3>1, <3>2 DEF JobRows, Open
    <2>2. jobs' = [jobs EXCEPT ![current] = new]
      BY <1>5 DEF Me
    <2>. HIDE DEF new
    <2>. QED
      BY <1>1, <1>3, <2>1, <2>2, RowLeaves
  <1>6. CASE jobs' = [jobs EXCEPT ![current] = Parked(@)]
    <2>. DEFINE new == Parked(Me)
    <2>1. new \in JobRows /\ new.kind = Me.kind /\ new.arg = Me.arg /\ new.status # "claimed"
      <3>1. Me.tries \in Nat /\ MaxAttempts \in Nat
        BY <1>2, PublicationAssumption DEF JobRows
      <3>. DEFINE st == IF Me.tries < MaxAttempts THEN "waiting" ELSE "paused"
      <3>. DEFINE cut == Cut(Me, TRUE)
      <3>2. new = [Me EXCEPT !.tries = Me.tries + 1, !.cut = cut, !.status = st]
        BY DEF Parked
      <3>3. st \in Open /\ st # "claimed" /\ Me.tries + 1 \in Nat
        BY <3>1 DEF Open
      <3>4. cut \in {"no", "midway", "behind"}
        BY <1>2 DEF Cut, JobRows
      <3>. HIDE DEF st, cut, new
      <3>. QED
        BY <1>2, <3>2, <3>3, <3>4 DEF JobRows
    <2>2. jobs' = [jobs EXCEPT ![current] = new]
      BY <1>6 DEF Me
    <2>. HIDE DEF new
    <2>. QED
      BY <1>1, <1>3, <2>1, <2>2, RowLeaves
  <1>. QED
    BY <1>4, <1>5, <1>6 DEF Interrupted, RoundFails, StoreAway, LeaveJob, SyncRefused

\* The queue.
LEMMA QueueBase ==
  ASSUME Base, \/ \E s \in Sources : RequestCompile(s)
               \/ ClaimNext
               \/ \E j \in DOMAIN jobs : WaitElapses(j)
  PROVE  /\ Follows /\ Base' /\ UNCHANGED <<history, rows>>
         /\ at' # "move" \/ UNCHANGED <<current, at, work>>
  <1>1. UNCHANGED <<history, rows, confirming, digested, marks, told>>
    BY DEF RequestCompile, ClaimNext, WaitElapses, LeaveStores
  <1>2. HistoryGrows /\ RowsFollow
    BY <1>1, HistorySame, RowsSame
  <1>3. ASSUME NEW s \in Sources, RequestCompile(s)
        PROVE  Follows /\ Base' /\ UNCHANGED <<current, at, work>>
    <2>. DEFINE row == Job("compile", s, FALSE)
    <2>1. row \in JobRows /\ row.status = "queued" /\ row.kind = "compile" /\ row.arg = s
      BY DEF Job, JobRows, Open
    <2>2. jobs' = Append(jobs, row) /\ UNCHANGED <<current, at, work>>
      BY <1>3 DEF RequestCompile
    <2>. HIDE DEF row
    <2>3. Others'
      BY <1>1, <2>2 DEF Base, Types, Others
    <2>. QED
      BY <1>2, <2>1, <2>2, <2>3, QueueGrows
  <1>4. ASSUME NEW j \in DOMAIN jobs, WaitElapses(j)
        PROVE  Follows /\ Base' /\ UNCHANGED <<current, at, work>>
    <2>. DEFINE new == [jobs[j] EXCEPT !.status = "queued"]
    <2>1. j \in 1..Len(jobs) /\ jobs[j] \in JobRows /\ jobs[j].status = "waiting"
      BY <1>4 DEF Base, Types, WaitElapses
    <2>2. /\ new \in JobRows /\ new.kind = jobs[j].kind /\ new.arg = jobs[j].arg
          /\ new.status = "queued"
      BY <2>1 DEF JobRows, Open
    <2>3. jobs' = [jobs EXCEPT ![j] = new] /\ UNCHANGED <<current, at, work>>
      BY <1>4 DEF WaitElapses
    <2>. HIDE DEF new
    <2>4. /\ JobsFollow /\ Len(jobs') = Len(jobs) /\ jobs'[j] = new
          /\ \A i \in 1..Len(jobs) : i # j => jobs'[i] = jobs[i]
      BY <2>1, <2>2, <2>3, JobReplaced
    <2>5. Follows
      BY <1>2, <2>4 DEF Follows
    <2>6. j # current \/ at = "idle"
      BY <2>1 DEF Base, LaneKept
    <2>7. LaneKept'
      <3>1. \A i \in 1..Len(jobs) : jobs'[i].status = "claimed" => i = current'
        BY <2>2, <2>3, <2>4 DEF Base, LaneKept
      <3>2. /\ at' \notin {"idle", "rollover", "challenge"} => jobs'[current'].status = "claimed"
            /\ at' \in {"rollover", "challenge"} => jobs'[current'].status = "done"
        BY <2>3, <2>4, <2>6 DEF Base, LaneKept, Types
      <3>. QED
        BY <2>3, <2>5, <3>1, <3>2, LaneFollows DEF Base, LaneKept
    <2>8. Others'
      BY <1>1, <2>3 DEF Base, Types, Others
    <2>9. Types'
      BY <2>3, <2>4, <2>5, <2>8, TypesFollow DEF Base, Types
    <2>. QED
      BY <2>3, <2>5, <2>7, <2>9 DEF Base
  <1>5. ASSUME ClaimNext PROVE Follows /\ Base' /\ at' # "move"
    <2>1. PICK j \in DOMAIN jobs :
            /\ jobs[j].status = "queued" /\ jobs' = [jobs EXCEPT ![j].status = "claimed"]
            /\ current' = j /\ at' = "run" /\ work' = Blank
      BY <1>5 DEF ClaimNext
    <2>. DEFINE new == [jobs[j] EXCEPT !.status = "claimed"]
    <2>2. j \in 1..Len(jobs) /\ jobs[j] \in JobRows /\ current = 0
      BY <1>5 DEF Base, Types, ClaimNext
    <2>3. /\ new \in JobRows /\ new.kind = jobs[j].kind /\ new.arg = jobs[j].arg
          /\ new.status = "claimed"
      BY <2>2 DEF JobRows, Open
    <2>4. jobs' = [jobs EXCEPT ![j] = new]
      BY <2>1
    <2>. HIDE DEF new
    <2>5. /\ JobsFollow /\ Len(jobs') = Len(jobs) /\ jobs'[j] = new
          /\ \A i \in 1..Len(jobs) : i # j => jobs'[i] = jobs[i]
      BY <2>2, <2>3, <2>4, JobReplaced
    <2>6. Follows
      BY <1>2, <2>5 DEF Follows
    <2>7. j # 0 /\ j \in Nat
      BY <2>2
    <2>8. \A i \in 1..Len(jobs) : jobs'[i].status = "claimed" => i = current'
      BY <2>1, <2>2, <2>5 DEF Base, LaneKept
    <2>9. LaneKept'
      BY <2>1, <2>3, <2>5, <2>6, <2>7, <2>8, LaneFollows
    <2>10. Others'
      BY <1>1, <2>1, BlankFields DEF Base, Types, Others
    <2>11. current' \in Nat /\ (current' # 0 => current' \in 1..Len(jobs'))
      BY <2>1, <2>2, <2>5, <2>7
    <2>12. Types'
      BY <2>6, <2>10, <2>11, TypesFollow
    <2>. QED
      BY <2>1, <2>6, <2>9, <2>12 DEF Base
  <1>. QED
    BY <1>1, <1>3, <1>4, <1>5

\* After a compile's row has ended its body still asks for a groom and an audit.
LEMMA TriggersBase ==
  ASSUME Base,
         \/ (CompileCompletes /\ work.wrote) \/ MaybeTriggerRollover \/ MaybeTriggerChallenge
         \/ ChallengeCompensates
  PROVE  Follows /\ Base' /\ UNCHANGED <<history, rows>> /\ at' # "move"
  <1>1. /\ current # 0 /\ UNCHANGED <<history, rows, confirming, digested, marks, told>>
        /\ at # "idle" /\ at' # "move"
    BY DEF CompileCompletes, MaybeTriggerRollover, MaybeTriggerChallenge, ChallengeCompensates,
       Running, LeaveStores
  <1>2. HistoryGrows /\ RowsFollow
    BY <1>1, HistorySame, RowsSame
  <1>3. Me \in JobRows /\ current \in 1..Len(jobs)
    BY <1>1, MeType
  <1>4. work' = work \/ work' = Blank
    BY DEF CompileCompletes, MaybeTriggerRollover, MaybeTriggerChallenge, ChallengeCompensates
  <1>5. Others'
    BY <1>1, <1>4, BlankFields DEF Base, Types, Others
  <1>6. Me.kind \in {"compile", "challenge"} => Me.arg \in Sources
    BY <1>3 DEF Base, LaneKept, Me
  <1>7. CASE CompileCompletes /\ work.wrote
    <2>. DEFINE new == [Me EXCEPT !.status = "done", !.ref = work.ref]
    <2>1. new \in JobRows /\ new.kind = Me.kind /\ new.arg = Me.arg /\ new.status = "done"
      BY <1>3 DEF JobRows, Base, Types
    <2>2. jobs' = [jobs EXCEPT ![current] = new] /\ at' = "rollover" /\ UNCHANGED current
      BY <1>7 DEF CompileCompletes, Ended, Me
    <2>. HIDE DEF new
    <2>3. /\ JobsFollow /\ Len(jobs') = Len(jobs) /\ jobs'[current] = new
          /\ \A i \in 1..Len(jobs) : i # current => jobs'[i] = jobs[i]
      BY <1>3, <2>1, <2>2, JobReplaced DEF Me
    <2>4. Follows
      BY <1>2, <2>3 DEF Follows
    <2>5. \A j \in 1..Len(jobs) : jobs'[j].status # "claimed"
      BY <2>1, <2>3 DEF Base, LaneKept
    <2>a. jobs'[current'].status = "done" /\ at' = "rollover" /\ current' # 0
      BY <1>1, <2>1, <2>2, <2>3
    <2>6. LaneKept'
      BY <2>4, <2>5, <2>a, LaneFollows
    <2>7. current' \in Nat /\ (current' # 0 => current' \in 1..Len(jobs'))
      BY <1>3, <2>2, <2>3
    <2>8. Types'
      BY <1>5, <2>4, <2>7, TypesFollow
    <2>. QED
      BY <1>1, <2>4, <2>6, <2>8 DEF Base
  <1>8. CASE MaybeTriggerRollover
    <2>1. UNCHANGED current /\ at' = "challenge" /\ at = "rollover"
      BY <1>8 DEF MaybeTriggerRollover, Running
    <2>2. CASE jobs' = jobs
      <3>1. Follows
        BY <1>2, <2>2, JobsSame DEF Follows
      <3>2. LaneKept'
        BY <1>1, <2>1, <2>2, <3>1, LaneFollows DEF Base, LaneKept
      <3>3. Types'
        BY <1>5, <2>1, <2>2, <3>1, TypesFollow DEF Base, Types
      <3>. QED
        BY <1>1, <3>1, <3>2, <3>3 DEF Base
    <2>3. CASE jobs' # jobs
      <3>. DEFINE row == Job("groom", About[Me.arg], FALSE)
      <3>1. jobs' = Append(jobs, row)
        BY <1>8, <2>3 DEF MaybeTriggerRollover
      <3>2. About[Me.arg] \in Pages
        BY <1>6, <1>8, PublicationAssumption DEF MaybeTriggerRollover, Running
      <3>3. row \in JobRows /\ row.status = "queued" /\ row.kind = "groom"
        BY <3>2 DEF Job, JobRows, Open
      <3>. HIDE DEF row
      <3>. QED
        BY <1>1, <1>2, <1>5, <2>1, <3>1, <3>3, QueueGrows
    <2>. QED
      BY <2>2, <2>3
  <1>9. CASE ChallengeCompensates
    <2>. DEFINE row == Job("compile", Me.arg, TRUE)
    <2>1. /\ jobs' = Append(jobs, row) /\ UNCHANGED current /\ at' = "complete" /\ at = "run"
          /\ Me.arg \in Sources
      BY <1>6, <1>9 DEF ChallengeCompensates, Running
    <2>2. row \in JobRows /\ row.status = "queued" /\ row.kind = "compile" /\ row.arg \in Sources
      BY <2>1 DEF Job, JobRows, Open
    <2>. HIDE DEF row
    <2>. QED
      BY <1>1, <1>2, <1>5, <2>1, <2>2, QueueGrows
  <1>10. CASE MaybeTriggerChallenge
    <2>1. current' = 0 /\ at' = "idle" /\ Me.arg \in Sources
      BY <1>6, <1>10 DEF MaybeTriggerChallenge, Running
    <2>. DEFINE row == Job("challenge", Me.arg, FALSE)
    <2>2. row \in JobRows /\ row.status = "queued" /\ row.kind = "challenge" /\ row.arg \in Sources
      BY <2>1 DEF Job, JobRows, Open
    <2>3. jobs' = jobs \/ jobs' = Append(jobs, row)
      BY <1>10 DEF MaybeTriggerChallenge
    <2>. HIDE DEF row
    <2>4. JobsFollow /\ \A j \in 1..Len(jobs) : jobs'[j] = jobs[j]
      BY <2>2, <2>3, JobsSame, JobAppended
    <2>5. Follows
      BY <1>2, <2>4 DEF Follows
    <2>6. \A j \in 1..Len(jobs) : jobs'[j].status # "claimed"
      <3>1. at = "challenge"
        BY <1>10 DEF MaybeTriggerChallenge, Running
      <3>2. \A j \in 1..Len(jobs) : jobs[j].status # "claimed"
        BY <3>1 DEF Base, LaneKept
      <3>. QED
        BY <2>4, <3>2
    <2>7. LaneKept'
      BY <2>1, <2>5, <2>6, LaneFollows
    <2>8. current' \in Nat /\ (current' # 0 => current' \in 1..Len(jobs'))
      BY <2>1
    <2>9. Types'
      BY <1>5, <2>5, <2>8, TypesFollow
    <2>. QED
      BY <1>1, <2>5, <2>7, <2>9 DEF Base
  <1>. QED
    BY <1>7, <1>8, <1>9, <1>10

\* Every step follows and keeps the base.
LEMMA StepBase == Base /\ [Next]_vars => Follows /\ Base'
  <1>. SUFFICES ASSUME Base, [Next]_vars PROVE Follows /\ Base'
    OBVIOUS
  <1>1. CASE UNCHANGED vars
    <2>1. UNCHANGED <<history, rows, jobs, current, at, work, confirming, digested, marks, told>>
      BY <1>1 DEF vars, lane
    <2>2. Others'
      BY <2>1 DEF Base, Types, Others
    <2>. QED
      BY <2>1, <2>2, HistorySame, RowsSame, LaneStill
  <1>2. CASE Owner
    <2>1. ASSUME NEW r \in DOMAIN rows,
                 ConfirmReads(r) \/ ConfirmStale(r) \/ ConfirmWrites(r) \/ Drop(r)
          PROVE  Follows /\ Base'
      <3>1. r \in 1..Len(rows)
        BY DEF Base, Types
      <3>. QED
        BY <2>1, <3>1, StampBase, ConfirmBase
    <2>. QED
      BY <1>2, <2>1, QueueBase, PlanBase DEF Owner
  <1>3. CASE ClaimNext \/ \E j \in DOMAIN jobs : WaitElapses(j)
    BY <1>3, QueueBase
  <1>4. CASE Interrupted \/ RoundFails \/ StoreAway
    BY <1>4, LeavesBase
  <1>5. CASE WriteMeta \/ \E p \in Pages : HandCommits(p)
    BY <1>5, ForeignCommitsBase
  <1>6. CASE Body
    <2>1. CASE SyncRefused
      BY <2>1, FailuresBase, LeavesBase
    <2>2. CASE CompileCompletes
      BY <2>2, EndingsBase, TriggersBase
    <2>3. CASE \/ SyncPlan \/ WriteLexical \/ WriteVectors \/ AdvanceManifest \/ CompileNoop
               \/ RecordEvents \/ MarkDigested \/ ArchiveResumes \/ ArchiveProceeds
               \/ SetSourceArchived \/ MarksSet
      BY <2>3, StoresBase
    <2>4. CASE CompileCommits \/ GroomCommits \/ MoveDocuments
      BY <2>4, CommitsBase
    <2>5. CASE ArchiveStates \/ RecordTerminal
      BY <2>5, RowWritesBase
    <2>6. CASE ArchiveStale
      BY <2>6, FailuresBase
    <2>7. CASE \/ GroomDeclines \/ GroomFails \/ GroomCompletes \/ ChallengeCompletes
               \/ ArchiveNotConfirmed \/ ArchiveCompletes
      BY <2>7, EndingsBase
    <2>8. CASE MaybeTriggerRollover \/ MaybeTriggerChallenge \/ ChallengeCompensates
      BY <2>8, TriggersBase
    <2>. QED
      BY <1>6, <2>1, <2>2, <2>3, <2>4, <2>5, <2>6, <2>7, <2>8 DEF Body
  <1>7. CASE ArchiveFails
    BY <1>7, FailuresBase
  <1>. QED
    BY <1>1, <1>2, <1>3, <1>4, <1>5, <1>6, <1>7 DEF Next

LEMMA BaseAlways == Spec => []Base
  BY InitBase, StepBase, PTL DEF Spec
-----------------------------------------------------------------------------
(* The archive's decisions. *)

Carried(r) == rows[r].status \in {"confirmed", "executed"} \/ rows[r].broken
Quoted(r) == rows[r].action = "archive" => rows[r].statement
Unmoved(r) == \A k \in 1..Len(history) : history[k].proposal # r

\* The commit of a proposal: above its plan, alone, backed by its row and made where it was planned.
Backed(i, r) ==
    /\ r \in 1..Len(rows) /\ rows[r].ref < i /\ Carried(r) /\ Quoted(r)
    /\ \A k \in 1..Len(history) : history[k].proposal = r => k = i
    /\ OwnCommits => history[i - 1].tree = history[rows[r].ref].tree

Decisions ==
    \A i \in 1..Len(history) : history[i].proposal # 0 => Backed(i, history[i].proposal)

\* A body about to move has looked: its row is confirmed, nothing carries its trailer, and
\* whatever has been committed since is no change of the tree.
Moving ==
    Running("archive", "move") =>
        /\ rows[Me.arg].status = "confirmed" /\ Quoted(Me.arg) /\ Unmoved(Me.arg)
        /\ OwnCommits => Tree = history[rows[Me.arg].ref].tree

DecisionInv == Base /\ Decisions /\ Moving

LEMMA OwnCommitsWere == Base /\ Follows /\ OwnCommits' => OwnCommits
  <1>. SUFFICES ASSUME Base, Follows, OwnCommits', NEW i \in DOMAIN history PROVE history[i].by # "hand"
    BY DEF OwnCommits
  <1>1. history \in Seq(Commits) /\ history' \in Seq(Commits) /\ i \in 1..Len(history)
    BY DEF Base, Types, Follows, HistoryGrows
  <1>2. i \in DOMAIN history' /\ history'[i] = history[i]
    BY <1>1 DEF Follows, HistoryGrows
  <1>. QED
    BY <1>2 DEF OwnCommits

\* New commits of no proposal, and no row taken from a decision that has moved.
LEMMA DecisionsFollow ==
  ASSUME Base, Decisions, Follows,
         \A i \in 1..Len(history') : i > Len(history) => history'[i].proposal = 0,
         \A r \in 1..Len(rows) : Carried(r) => Carried(r)' \/ Unmoved(r)
  PROVE  Decisions'
  <1>1. OwnCommits' => OwnCommits
    BY OwnCommitsWere
  <1>. SUFFICES ASSUME NEW i \in 1..Len(history'), history'[i].proposal # 0
                PROVE  (Backed(i, history[i].proposal))'
    BY DEF Decisions
  <1>2. i \in 1..Len(history) /\ history'[i] = history[i]
    BY DEF Base, Types, Follows, HistoryGrows
  <1>r. PICK r : r = history[i].proposal
    OBVIOUS
  <1>3. Backed(i, r) /\ ~Unmoved(r)
    BY <1>2, <1>r DEF Decisions, Unmoved
  <1>4. /\ r \in 1..Len(rows) /\ r \in 1..Len(rows') /\ rows'[r].ref = rows[r].ref
        /\ rows'[r].action = rows[r].action /\ (rows[r].statement => rows'[r].statement)
    BY <1>3 DEF Backed, Base, Types, Follows, RowsFollow
  <1>5. Carried(r)' /\ Quoted(r)'
    <2>1. Carried(r) /\ Quoted(r)
      BY <1>3 DEF Backed
    <2>2. Carried(r)'
      BY <1>3, <1>4, <2>1
    <2>3. Quoted(r)'
      BY <1>4, <2>1 DEF Quoted
    <2>. QED
      BY <2>2, <2>3
  <1>6. \A k \in 1..Len(history') : history'[k].proposal = r => k = i
    <2>. SUFFICES ASSUME NEW k \in 1..Len(history'), history'[k].proposal = r PROVE k = i
      OBVIOUS
    <2>1. k \in 1..Len(history) /\ history'[k] = history[k]
      BY <1>2, <1>r DEF Base, Types, Follows, HistoryGrows
    <2>. QED
      BY <1>3, <2>1 DEF Backed
  <1>7. rows[r].ref \in 1..Len(history) /\ rows[r].ref < i /\ i - 1 \in 1..Len(history)
    BY <1>2, <1>3, <1>4 DEF Backed, Base, Types, LaneKept
  <1>8. history'[i - 1] = history[i - 1] /\ history'[rows[r].ref] = history[rows[r].ref]
    BY <1>7 DEF Follows, HistoryGrows
  <1>. QED
    BY <1>1, <1>2, <1>r, <1>3, <1>4, <1>5, <1>6, <1>7, <1>8 DEF Backed

\* Somebody else's step while a body is about to move.
LEMMA MovingFollows ==
  ASSUME Base, Base', Moving, Follows, UNCHANGED <<current, at>>,
         \A i \in 1..Len(history') : i > Len(history) => history'[i].proposal = 0,
         OwnCommits' => Tree' = Tree,
         \A r \in 1..Len(rows) : rows[r].status = "confirmed" => rows'[r].status = "confirmed"
  PROVE  Moving'
  <1>. SUFFICES ASSUME Running("archive", "move")' PROVE Moving'
    BY DEF Moving
  <1>1. Running("archive", "move") /\ Me'.arg = Me.arg
    BY MeType DEF Running, Me, Follows, JobsFollow
  <1>r. PICK r : r = Me.arg
    OBVIOUS
  <1>2. rows[r].status = "confirmed" /\ Quoted(r) /\ Unmoved(r)
        /\ (OwnCommits => Tree = history[rows[r].ref].tree)
    BY <1>1, <1>r DEF Moving
  <1>3. r \in 1..Len(rows) /\ rows[r].ref \in 1..Len(history)
    BY <1>1, <1>r, RowType DEF Running, Row
  <1>4. /\ rows'[r].ref = rows[r].ref /\ rows'[r].action = rows[r].action
        /\ rows[r].statement => rows'[r].statement
    BY <1>3 DEF Follows, RowsFollow
  <1>5. rows'[r].status = "confirmed" /\ Quoted(r)'
    BY <1>2, <1>3, <1>4 DEF Quoted
  <1>6. Unmoved(r)'
    <2>. SUFFICES ASSUME NEW k \in 1..Len(history') PROVE history'[k].proposal # r
      BY DEF Unmoved
    <2>1. CASE k \in 1..Len(history)
      BY <1>2, <2>1 DEF Unmoved, Follows, HistoryGrows
    <2>2. CASE k \notin 1..Len(history)
      BY <1>3, <2>2 DEF Base, Types
    <2>. QED
      BY <2>1, <2>2
  <1>7. OwnCommits' => OwnCommits
    BY OwnCommitsWere
  <1>8. OwnCommits' => Tree' = history'[rows'[r].ref].tree
    BY <1>2, <1>3, <1>4, <1>7 DEF Follows, HistoryGrows
  <1>. QED
    BY <1>1, <1>r, <1>5, <1>6, <1>8 DEF Moving

\* A step that commits nothing, or for nobody, and takes no row from a decision.
LEMMA QuietSteps ==
  ASSUME DecisionInv, Follows, Base', at' # "move",
         UNCHANGED history \/ \E c \in Commits : c.proposal = 0 /\ history' = Append(history, c),
         \A r \in 1..Len(rows) : Carried(r) => Carried(r)' \/ Unmoved(r)
  PROVE  DecisionInv'
  <1>1. \A i \in 1..Len(history') : i > Len(history) => history'[i].proposal = 0
    BY DEF DecisionInv, Base, Types
  <1>2. Decisions'
    BY <1>1, DecisionsFollow DEF DecisionInv
  <1>3. Moving'
    BY DEF Moving, Running
  <1>. QED
    BY <1>2, <1>3 DEF DecisionInv

\* Where HEAD is the plan's commit nothing of the proposal has landed.
LEMMA AtPlanUnmoved ==
  ASSUME DecisionInv, current # 0, Me.kind = "archive", HEAD = Row.ref
  PROVE  Unmoved(Me.arg) /\ Tree = history[rows[Me.arg].ref].tree
  <1>1. Me.arg \in 1..Len(rows)
    BY RowType DEF DecisionInv
  <1>2. ASSUME NEW k \in 1..Len(history), history[k].proposal = Me.arg PROVE FALSE
    <2>1. Backed(k, Me.arg)
      BY <1>1, <1>2 DEF DecisionInv, Decisions, Base, Types
    <2>2. rows[Me.arg].ref < k /\ k \in Nat /\ Len(history) \in Nat
      BY <2>1 DEF Backed, DecisionInv, Base, Types
    <2>. QED
      BY <2>2 DEF HEAD, Row
  <1>. QED
    BY <1>2 DEF Unmoved, Tree, Row

\* Nor has anything landed where the body finds its plan stale.
LEMMA NotLanded ==
  ASSUME DecisionInv, current # 0, Me.kind = "archive", Landed = {}
  PROVE  Unmoved(Me.arg)
  <1>1. Base /\ Landed = {} /\ current # 0 /\ Me.kind = "archive"
    BY DEF DecisionInv
  <1>2. Me.arg \in 1..Len(rows) /\ Len(rows) \in Nat /\ Row.ref \in Nat
    BY <1>1, RowType DEF Base, Types, Proposals
  <1>3. ASSUME NEW k \in 1..Len(history), history[k].proposal = Me.arg PROVE FALSE
    <2>1. Backed(k, Me.arg)
      BY <1>2, <1>3 DEF DecisionInv, Decisions
    <2>2. k \in (Row.ref + 1)..HEAD /\ k \in DOMAIN history
      BY <1>1, <1>2, <2>1 DEF Backed, Row, HEAD, Base, Types
    <2>. QED
      BY <1>1, <1>3, <2>2 DEF Landed
  <1>. QED
    BY <1>3 DEF Unmoved

LEMMA LooksKeep ==
  ASSUME DecisionInv, ArchiveProceeds \/ ArchiveStates PROVE DecisionInv'
  <1>1. current # 0 /\ Me.kind = "archive" /\ HEAD = Row.ref /\ Row.status = "confirmed"
    BY DEF ArchiveProceeds, ArchiveStates, Running
  <1>2. Base /\ Row \in Proposals /\ Me.arg \in 1..Len(rows) /\ Row.ref \in 1..Len(history)
    BY <1>1, RowType DEF DecisionInv
  <1>3. Follows /\ Base' /\ UNCHANGED <<history, jobs, current>>
    BY <1>2, StoresBase, RowWritesBase
  <1>4. Unmoved(Me.arg) /\ Tree = history[rows[Me.arg].ref].tree
    BY <1>1, AtPlanUnmoved
  <1>5. PICK r : r = Me.arg
    OBVIOUS
  <1>6. CASE ArchiveProceeds
    <2>1. UNCHANGED rows
      BY <1>6 DEF ArchiveProceeds, LeaveStores
    <2>2. Decisions'
      <3>1. \A q \in 1..Len(rows) : Carried(q) => Carried(q)'
        BY <2>1 DEF Carried
      <3>. QED
        BY <1>3, <3>1, DecisionsFollow DEF DecisionInv, Base, Types
    <2>3. Row.moves => Quoted(r)
      BY <1>5, <1>6 DEF ArchiveProceeds, Quoted, Row
    <2>4. ~Row.moves => at' # "move"
      BY <1>6 DEF ArchiveProceeds
    <2>5. CASE at' # "move"
      BY <1>3, <2>2, <2>5 DEF DecisionInv, Moving, Running
    <2>6. CASE at' = "move"
      <3>1. /\ rows[r].status = "confirmed" /\ Quoted(r) /\ Unmoved(r)
            /\ Tree = history[rows[r].ref].tree
        BY <1>1, <1>4, <1>5, <2>3, <2>4, <2>6 DEF Row
      <3>2. rows'[r].status = "confirmed" /\ Quoted(r)' /\ Unmoved(r)'
            /\ Tree' = history'[rows'[r].ref].tree /\ Me'.arg = r
        BY <1>3, <1>5, <2>1, <3>1 DEF Quoted, Unmoved, Tree, HEAD, Me
      <3>3. Moving'
        BY <3>2 DEF Moving
      <3>. QED
        BY <1>3, <2>2, <3>3 DEF DecisionInv
    <2>. QED
      BY <2>5, <2>6
  <1>7. CASE ArchiveStates
    <2>1. rows' = [rows EXCEPT ![Me.arg].statement = TRUE]
      BY <1>7 DEF ArchiveStates
    <2>2. \A q \in 1..Len(rows) : /\ rows'[q].status = rows[q].status /\ rows'[q].ref = rows[q].ref
                                  /\ rows'[q].broken = rows[q].broken
      BY <1>2, <2>1 DEF Base, Types, Proposals
    <2>3. rows'[Me.arg].statement
      BY <1>2, <2>1 DEF Base, Types, Proposals
    <2>4. Decisions'
      <3>1. \A q \in 1..Len(rows) : Carried(q) => Carried(q)'
        BY <2>2 DEF Carried
      <3>. QED
        BY <1>3, <3>1, DecisionsFollow DEF DecisionInv, Base, Types
    <2>5. rows'[r].status = "confirmed" /\ Quoted(r)' /\ Unmoved(r)'
          /\ Tree' = history'[rows'[r].ref].tree /\ Me'.arg = r
      BY <1>1, <1>2, <1>3, <1>4, <1>5, <2>2, <2>3 DEF Quoted, Unmoved, Tree, HEAD, Me, Row
    <2>6. Moving'
      BY <2>5 DEF Moving
    <2>. QED
      BY <1>3, <2>4, <2>6 DEF DecisionInv
  <1>. QED
    BY <1>6, <1>7

LEMMA MoveKeeps ==
  ASSUME DecisionInv, MoveDocuments PROVE DecisionInv'
  <1>1. Base /\ Running("archive", "move") /\ at' = "marks" /\ UNCHANGED rows
    BY DEF DecisionInv, MoveDocuments
  <1>2. Follows /\ Base'
    BY <1>1, CommitsBase
  <1>3. PICK r : r = Me.arg
    OBVIOUS
  <1>4. /\ r \in 1..Len(rows) /\ rows[r].ref \in 1..Len(history) /\ r # 0
        /\ rows[r].status = "confirmed" /\ Quoted(r) /\ Unmoved(r)
        /\ OwnCommits => Tree = history[rows[r].ref].tree
    BY <1>1, <1>3, RowType DEF DecisionInv, Moving, Running, Row
  <1>5. PICK t : history' = Append(history, [tree |-> t, by |-> "archive", proposal |-> r])
    BY <1>3 DEF MoveDocuments, Commit
  <1>6. PICK n \in Nat : n = Len(history) /\ n > 0
    BY DEF DecisionInv, Base, Types
  <1>7. /\ Len(history') = n + 1 /\ history'[n + 1].proposal = r
        /\ \A k \in 1..n : history'[k] = history[k]
    BY <1>1, <1>5, <1>6 DEF Base, Types
  <1>8. OwnCommits' => OwnCommits
    BY <1>1, <1>2, OwnCommitsWere
  <1>9. ASSUME NEW i \in 1..(n + 1), history'[i].proposal # 0
        PROVE  (Backed(i, history[i].proposal))'
    <2>1. CASE i = n + 1
      <3>1. rows'[r].ref < i /\ Carried(r)' /\ Quoted(r)'
        BY <1>1, <1>4, <1>6, <2>1 DEF Carried, Quoted
      <3>2. \A k \in 1..Len(history') : history'[k].proposal = r => k = i
        BY <1>4, <1>6, <1>7, <2>1 DEF Unmoved
      <3>3. OwnCommits' => history'[i - 1].tree = history'[rows'[r].ref].tree
        BY <1>1, <1>4, <1>6, <1>7, <1>8, <2>1 DEF Tree, HEAD
      <3>. QED
        BY <1>1, <1>4, <1>7, <2>1, <3>1, <3>2, <3>3 DEF Backed
    <2>2. CASE i \in 1..n
      <3>1. PICK q : q = history[i].proposal /\ q = history'[i].proposal
        BY <1>7, <2>2
      <3>2. Backed(i, q) /\ q # r
        BY <1>4, <1>6, <1>9, <2>2, <3>1 DEF DecisionInv, Decisions, Unmoved
      <3>3. q \in 1..Len(rows) /\ rows[q].ref \in 1..n /\ rows[q].ref < i
        BY <1>1, <1>6, <3>2 DEF Backed, Base, Types, LaneKept
      <3>4. Carried(q)' /\ Quoted(q)'
        BY <1>1, <3>2 DEF Backed, Carried, Quoted
      <3>5. \A k \in 1..Len(history') : history'[k].proposal = q => k = i
        BY <1>6, <1>7, <3>2 DEF Backed
      <3>6. i - 1 \in 1..n
        BY <1>6, <2>2, <3>3
      <3>7. OwnCommits' => history'[i - 1].tree = history'[rows'[q].ref].tree
        BY <1>1, <1>7, <1>8, <3>2, <3>3, <3>6 DEF Backed
      <3>. QED
        BY <1>1, <3>1, <3>3, <3>4, <3>5, <3>7 DEF Backed
    <2>. QED
      BY <1>6, <2>1, <2>2
  <1>10. Decisions'
    BY <1>7, <1>9 DEF Decisions
  <1>. QED
    BY <1>1, <1>2, <1>10 DEF DecisionInv, Moving, Running

\* A step of somebody else's: the lane's body stays where it is.
LEMMA AsideSteps ==
  ASSUME DecisionInv, Follows, Base', UNCHANGED <<current, at>>,
         UNCHANGED history \/ \E c \in Commits : c.proposal = 0 /\ history' = Append(history, c)
                                             /\ (c.by = "hand" \/ c.tree = Tree),
         \A r \in 1..Len(rows) : rows'[r].status # rows[r].status =>
            rows[r].status \in {"proposed", "stale"}
  PROVE  DecisionInv'
  <1>1. \A i \in 1..Len(history') : i > Len(history) => history'[i].proposal = 0
    BY DEF DecisionInv, Base, Types
  <1>2. \A r \in 1..Len(rows) : Carried(r) => Carried(r)'
    BY DEF Carried, Follows, RowsFollow
  <1>3. Decisions'
    BY <1>1, <1>2, DecisionsFollow DEF DecisionInv
  <1>4. OwnCommits' => Tree' = Tree
    <2>1. CASE UNCHANGED history
      BY <2>1 DEF Tree, HEAD
    <2>2. ASSUME NEW c \in Commits, history' = Append(history, c), c.by = "hand" \/ c.tree = Tree,
                 OwnCommits'
          PROVE  Tree' = Tree
      <3>1. history \in Seq(Commits)
        BY DEF DecisionInv, Base, Types
      <3>2. Len(history') = Len(history) + 1 /\ history'[Len(history) + 1] = c
            /\ Len(history) + 1 \in DOMAIN history'
        BY <2>2, <3>1
      <3>3. c.by # "hand"
        BY <2>2, <3>2 DEF OwnCommits
      <3>. QED
        BY <2>2, <3>2, <3>3 DEF Tree, HEAD
    <2>. QED
      BY <2>1, <2>2
  <1>5. \A r \in 1..Len(rows) : rows[r].status = "confirmed" => rows'[r].status = "confirmed"
    OBVIOUS
  <1>6. Moving'
    BY <1>1, <1>4, <1>5, MovingFollows DEF DecisionInv
  <1>. QED
    BY <1>3, <1>6 DEF DecisionInv

LEMMA OwnerKeeps == DecisionInv /\ Owner => DecisionInv'
  <1>. SUFFICES ASSUME DecisionInv, Owner PROVE DecisionInv'
    OBVIOUS
  <1>1. Base
    BY DEF DecisionInv
  <1>2. CASE \E s \in Sources : RequestCompile(s)
    <2>1. Follows /\ Base' /\ UNCHANGED <<history, rows, current, at>>
      BY <1>1, <1>2, QueueBase DEF RequestCompile
    <2>. QED
      BY <2>1, AsideSteps
  <1>3. ASSUME NEW p \in Pages, PlanArchive(p) PROVE DecisionInv'
    <2>1. Follows /\ Base' /\ UNCHANGED <<history, lane>> /\ \A r \in 1..Len(rows) : rows'[r] = rows[r]
      BY <1>1, <1>3, PlanBase
    <2>. QED
      BY <2>1, AsideSteps DEF lane
  <1>4. ASSUME NEW r \in DOMAIN rows,
               ConfirmReads(r) \/ ConfirmStale(r) \/ ConfirmWrites(r) \/ Drop(r)
        PROVE  DecisionInv'
    <2>1. r \in 1..Len(rows)
      BY <1>1 DEF Base, Types
    <2>2. /\ Follows /\ Base' /\ UNCHANGED <<history, current, at>>
          /\ \A i \in 1..Len(rows) : rows'[i].status # rows[i].status =>
                rows[i].status \in {"proposed", "stale"}
      BY <1>1, <1>4, <2>1, StampBase, ConfirmBase DEF lane
    <2>. QED
      BY <2>2, AsideSteps
  <1>. QED
    BY <1>2, <1>3, <1>4 DEF Owner

LEMMA ForeignKeeps == DecisionInv /\ (WriteMeta \/ \E p \in Pages : HandCommits(p)) => DecisionInv'
  <1>. SUFFICES ASSUME DecisionInv, WriteMeta \/ \E p \in Pages : HandCommits(p) PROVE DecisionInv'
    OBVIOUS
  <1>1. Follows /\ Base' /\ UNCHANGED <<rows, current, at>> /\ Tree \in Trees
    BY ForeignCommitsBase, TreeType DEF DecisionInv, lane
  <1>2. \E t : history' = Append(history, [tree |-> t, by |-> "hand", proposal |-> 0])
        \/ history' = Append(history, [tree |-> Tree, by |-> "manifest", proposal |-> 0])
    BY DEF WriteMeta, HandCommits, Commit
  <1>3. PICK c : history' = Append(history, c) /\ c.proposal = 0 /\ (c.by = "hand" \/ c.tree = Tree)
    BY <1>2
  <1>4. c \in Commits
    <2>1. history \in Seq(Commits) /\ history' \in Seq(Commits)
      BY <1>1 DEF DecisionInv, Base, Types
    <2>2. Len(history') = Len(history) + 1 /\ history'[Len(history) + 1] = c
      BY <1>3, <2>1
    <2>. QED
      BY <2>1, <2>2
  <1>. QED
    BY <1>1, <1>3, <1>4, AsideSteps

LEMMA LaneKeeps ==
  ASSUME DecisionInv,
         ClaimNext \/ (\E j \in DOMAIN jobs : WaitElapses(j)) \/ Interrupted \/ RoundFails \/ StoreAway
  PROVE  DecisionInv'
  <1>1. Base
    BY DEF DecisionInv
  <1>2. CASE \E j \in DOMAIN jobs : WaitElapses(j)
    <2>1. Follows /\ Base' /\ UNCHANGED <<history, rows, current, at>>
      BY <1>1, <1>2, QueueBase DEF WaitElapses
    <2>. QED
      BY <2>1, AsideSteps
  <1>3. CASE ClaimNext
    <2>1. Follows /\ Base' /\ UNCHANGED <<history, rows>> /\ at' # "move"
      BY <1>1, <1>3, QueueBase DEF ClaimNext
    <2>. QED
      BY <2>1, QuietSteps DEF Carried
  <1>4. CASE Interrupted \/ RoundFails \/ StoreAway
    <2>1. Follows /\ Base' /\ at' # "move" /\ UNCHANGED <<history, rows>>
      BY <1>1, <1>4, LeavesBase
    <2>. QED
      BY <2>1, QuietSteps DEF Carried
  <1>. QED
    BY <1>2, <1>3, <1>4

LEMMA BodyKeeps == DecisionInv /\ Body => DecisionInv'
  <1>. SUFFICES ASSUME DecisionInv, Body PROVE DecisionInv'
    OBVIOUS
  <1>1. Base
    BY DEF DecisionInv
  <1>2. CASE ArchiveProceeds \/ ArchiveStates
    BY <1>2, LooksKeep
  <1>3. CASE MoveDocuments
    BY <1>3, MoveKeeps
  <1>4. CASE \/ SyncPlan \/ WriteLexical \/ WriteVectors \/ AdvanceManifest \/ CompileNoop
             \/ RecordEvents \/ MarkDigested \/ ArchiveResumes \/ SetSourceArchived \/ MarksSet
    <2>1. Follows /\ Base' /\ UNCHANGED <<history, rows>>
      BY <1>1, <1>4, StoresBase
    <2>2. at' # "move"
      BY <1>4 DEF SyncPlan, WriteLexical, WriteVectors, AdvanceManifest, CompileNoop, RecordEvents,
         MarkDigested, ArchiveResumes, SetSourceArchived, MarksSet, Running, Goto
    <2>. QED
      BY <2>1, <2>2, QuietSteps DEF Carried
  <1>5. CASE CompileCommits \/ GroomCommits
    <2>1. Follows /\ Base' /\ UNCHANGED rows
      BY <1>1, <1>5, CommitsBase
    <2>2. at' # "move"
      BY <1>5 DEF CompileCommits, GroomCommits
    <2>3. \E c : history' = Append(history, c) /\ c.proposal = 0
      <3>1. CASE CompileCommits
        BY <3>1 DEF CompileCommits, Commit
      <3>2. CASE GroomCommits
        BY <3>2 DEF GroomCommits, Commit
      <3>. QED
        BY <1>5, <3>1, <3>2
    <2>4. \E c \in Commits : c.proposal = 0 /\ history' = Append(history, c)
      <3>1. PICK c : history' = Append(history, c) /\ c.proposal = 0
        BY <2>3
      <3>2. history \in Seq(Commits) /\ history' \in Seq(Commits)
        BY <1>1, <2>1 DEF Base, Types
      <3>3. Len(history') = Len(history) + 1 /\ history'[Len(history) + 1] = c
        BY <3>1, <3>2
      <3>. QED
        BY <3>1, <3>2, <3>3
    <2>. QED
      BY <2>1, <2>2, <2>4, QuietSteps DEF Carried
  <1>6. CASE RecordTerminal
    <2>3. at = "terminal" /\ current # 0 /\ Me.kind = "archive" /\ at' = "complete"
      BY <1>6 DEF RecordTerminal, Running, Goto
    <2>4. ~ArchiveStates
      BY <2>3 DEF ArchiveStates, Running
    <2>5. Row \in Proposals /\ Me.arg \in 1..Len(rows)
      BY <1>1, <2>3, RowType
    <2>6. /\ Follows /\ Base' /\ UNCHANGED history
          /\ \A i \in 1..Len(rows) : i # Me.arg => rows'[i] = rows[i]
          /\ rows'[Me.arg] = Row \/ rows'[Me.arg] = [Row EXCEPT !.status = "executed"]
      BY <1>1, <1>6, <2>4, RowWritesBase
    <2>1. /\ Follows /\ Base' /\ UNCHANGED history
          /\ \A i \in 1..Len(rows) : i # Me.arg => rows'[i] = rows[i]
          /\ rows'[Me.arg] = Row \/ rows'[Me.arg] = [Row EXCEPT !.status = "executed"]
          /\ at' # "move" /\ Row \in Proposals /\ Me.arg \in 1..Len(rows)
      BY <2>3, <2>5, <2>6
    <2>2. \A r \in 1..Len(rows) : Carried(r) => Carried(r)'
      BY <2>1 DEF Carried, Row, Proposals
    <2>. QED
      BY <2>1, <2>2, QuietSteps
  <1>7. CASE SyncRefused /\ Me.kind = "archive"
    <2>1. /\ Follows /\ Base' /\ UNCHANGED history /\ at' = "idle"
          /\ \A i \in 1..Len(rows) : i # Me.arg => rows'[i] = rows[i]
          /\ rows'[Me.arg].broken
      BY <1>1, <1>7, FailuresBase
    <2>2. \A r \in 1..Len(rows) : Carried(r) => Carried(r)'
      BY <2>1 DEF Carried
    <2>. QED
      BY <2>1, <2>2, QuietSteps
  <1>8. CASE ArchiveStale
    <2>1. /\ Follows /\ Base' /\ UNCHANGED history /\ at' = "idle"
          /\ \A i \in 1..Len(rows) : i # Me.arg => rows'[i] = rows[i]
      BY <1>1, <1>8, FailuresBase
    <2>2. Unmoved(Me.arg)
      BY <1>8, NotLanded DEF ArchiveStale, Running
    <2>3. \A r \in 1..Len(rows) : Carried(r) => Carried(r)' \/ Unmoved(r)
      BY <2>1, <2>2 DEF Carried
    <2>. QED
      BY <2>1, <2>3, QuietSteps
  <1>9. CASE \/ GroomDeclines \/ GroomFails \/ GroomCompletes \/ ChallengeCompletes
             \/ ArchiveNotConfirmed \/ ArchiveCompletes \/ CompileCompletes
             \/ MaybeTriggerRollover \/ MaybeTriggerChallenge \/ ChallengeCompensates
             \/ (SyncRefused /\ Me.kind # "archive")
    <2>1. Follows /\ Base' /\ at' # "move" /\ UNCHANGED <<history, rows>>
      <3>1. CASE CompileCompletes
        BY <1>1, <3>1, EndingsBase, TriggersBase
      <3>2. CASE \/ GroomDeclines \/ GroomFails \/ GroomCompletes \/ ChallengeCompletes
                 \/ ArchiveNotConfirmed \/ ArchiveCompletes
        BY <1>1, <3>2, EndingsBase
      <3>3. CASE MaybeTriggerRollover \/ MaybeTriggerChallenge \/ ChallengeCompensates
        BY <1>1, <3>3, TriggersBase
      <3>4. CASE SyncRefused /\ Me.kind # "archive"
        BY <1>1, <3>4, LeavesBase
      <3>. QED
        BY <1>9, <3>1, <3>2, <3>3, <3>4
    <2>. QED
      BY <2>1, QuietSteps DEF Carried
  <1>. QED
    BY <1>2, <1>3, <1>4, <1>5, <1>6, <1>7, <1>8, <1>9 DEF Body

LEMMA FailingKeeps == DecisionInv /\ ArchiveFails => DecisionInv'
  <1>. SUFFICES ASSUME DecisionInv, ArchiveFails PROVE DecisionInv'
    OBVIOUS
  <1>1. /\ Follows /\ Base' /\ UNCHANGED history /\ at' = "idle"
        /\ \A i \in 1..Len(rows) : i # Me.arg => rows'[i] = rows[i]
        /\ Landed # {} => rows'[Me.arg].broken
    BY FailuresBase DEF DecisionInv
  <1>2. Landed = {} => Unmoved(Me.arg)
    BY NotLanded DEF ArchiveFails
  <1>3. \A r \in 1..Len(rows) : Carried(r) => Carried(r)' \/ Unmoved(r)
    BY <1>1, <1>2 DEF Carried
  <1>. QED
    BY <1>1, <1>3, QuietSteps

LEMMA InitDecisions == Init => DecisionInv
  <1>. SUFFICES ASSUME Init PROVE DecisionInv
    OBVIOUS
  <1>1. Base
    BY InitBase
  <1>2. Len(history) = 1 /\ history[1].proposal = 0 /\ at = "idle"
    BY DEF Init
  <1>. QED
    BY <1>1, <1>2 DEF DecisionInv, Decisions, Moving, Running

LEMMA StepDecisions == DecisionInv /\ [Next]_vars => DecisionInv'
  <1>. SUFFICES ASSUME DecisionInv, [Next]_vars PROVE DecisionInv'
    OBVIOUS
  <1>1. CASE UNCHANGED vars
    <2>1. Follows /\ Base' /\ UNCHANGED <<history, rows, current, at>>
      BY <1>1, StepBase DEF DecisionInv, vars, lane
    <2>. QED
      BY <2>1, AsideSteps
  <1>2. CASE Next
    BY <1>2, OwnerKeeps, LaneKeeps, BodyKeeps, ForeignKeeps, FailingKeeps DEF Next
  <1>. QED
    BY <1>1, <1>2

LEMMA DecisionsAlways == Spec => []DecisionInv
  BY InitDecisions, StepDecisions, PTL DEF Spec

\* archive_job.py _execute: the documents the commit of a proposal moves are those its plan
\* read, whatever compiles, grooms, other decisions, manifests and deaths came between the plan,
\* the confirm, the claim and the move, as long as nobody commits to the library by hand.
THEOREM MovesAreAsShown == Spec => []MovesWhatWasShown
  <1>1. DecisionInv => MovesWhatWasShown
    <2>. SUFFICES ASSUME DecisionInv, OwnCommits, NEW i \in DOMAIN history, history[i].proposal # 0
                  PROVE  history[i - 1].tree = history[rows[history[i].proposal].ref].tree
      BY DEF MovesWhatWasShown
    <2>1. i \in 1..Len(history)
      BY DEF DecisionInv, Base, Types
    <2>. QED
      BY <2>1 DEF DecisionInv, Decisions, Backed
  <1>. QED
    BY <1>1, DecisionsAlways, PTL

\* archive_job.py _execute, _landed_commit: however often its job dies and is claimed again, one
\* decision makes one commit, and the row behind it is confirmed, executed or ended failed by that
\* job behind that commit, and names its statement.
THEOREM DecisionsMoveOnce == Spec => []OneMovePerDecision
  <1>1. DecisionInv => OneMovePerDecision
    <2>. SUFFICES ASSUME DecisionInv, NEW r \in DOMAIN rows
                  PROVE  LET moved == {i \in DOMAIN history : history[i].proposal = r} IN
                           /\ Cardinality(moved) <= 1
                           /\ moved # {} => /\ rows[r].status \in {"confirmed", "executed"} \/ rows[r].broken
                                            /\ rows[r].action = "archive" => rows[r].statement
      BY DEF OneMovePerDecision
    <2>. DEFINE moved == {i \in DOMAIN history : history[i].proposal = r}
    <2>1. r # 0 /\ DOMAIN history = 1..Len(history)
      BY DEF DecisionInv, Base, Types
    <2>2. CASE moved = {}
      <3>1. Cardinality(moved) = 0
        BY <2>2, FS_EmptySet
      <3>. QED
        BY <2>2, <3>1
    <2>3. ASSUME NEW i \in moved
          PROVE  /\ Cardinality(moved) <= 1
                 /\ rows[r].status \in {"confirmed", "executed"} \/ rows[r].broken
                 /\ rows[r].action = "archive" => rows[r].statement
      <3>1. Backed(i, r)
        BY <2>1 DEF DecisionInv, Decisions
      <3>2. moved = {i}
        BY <2>1, <3>1 DEF Backed
      <3>3. Cardinality(moved) = 1
        BY <3>2, FS_Singleton
      <3>. QED
        BY <3>1, <3>3 DEF Backed, Carried, Quoted
    <2>. QED
      BY <2>2, <2>3
  <1>. QED
    BY <1>1, DecisionsAlways, PTL
=============================================================================
