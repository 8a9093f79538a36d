---------------------------- MODULE EvolveProofs ----------------------------
(***************************************************************************)
(* An adoption that counts as adopted is in every store, the packs on main *)
(* are closed, what main changed under review survives the merge, and the  *)
(* merge leaves each anchor in one place: for any claims, pages and        *)
(* callers, and any number of rounds, verdicts, adoptions, deaths and      *)
(* commits in between.                                                     *)
(*                                                                         *)
(* Nothing keeps a verdict of the API process from falling between two     *)
(* steps of an adoption.  What the proof rests on is that only the job     *)
(* that has rebuilt the stores says "adopted" (Rebuilding, InStep), that a *)
(* manifest is composed on the one of its base (PacksKept), and that a     *)
(* draft redraws its base and nobody commits while a merge of the two with *)
(* main is in hand (DraftsKept), and that records and claims stand on      *)
(* different paths and only an agent's draft gives up a page (SortedKept). *)
(***************************************************************************)
EXTENDS Evolve, SequenceTheorems, TLAPS

Blocks == [anchor : Claims \cup Pages, path : Paths, text : Texts]
Trees == [paths : SUBSET Paths, skill : SUBSET Nat, blocks : SUBSET Blocks]
Commits == [tree : Trees, task : Nat]
Statuses == {"draft", "no_change", "adopted", "dropped", "expired"}
TaskRows == [status : Statuses, base : Nat, tree : Trees, skill : SUBSET Nat, agent : BOOLEAN]
JobRows == [kind : {"evolve", "adopt"}, task : Nat, status : Open \cup {"done"}]
Verdicts == [task : 1..Len(tasks), verdict : {"dropped", "expired"}, deleted : BOOLEAN]

Types ==
    /\ history \in Seq(Commits) /\ history # <<>>
    /\ tasks \in Seq(TaskRows) /\ jobs \in Seq(JobRows)
    /\ checking \subseteq Callers /\ deciding \subseteq Verdicts
    /\ current \in Nat /\ (current # 0 => current \in 1..Len(jobs))

\* Commits, tasks, branches and rows name what is there.
Named ==
    /\ \A i \in 1..Len(history) : /\ history[i].task \in 0..Len(tasks)
                                  /\ history[i].tree.skill \subseteq 1..Len(tasks)
    /\ \A t \in 1..Len(tasks) : /\ tasks[t].base \in 1..Len(history)
                                /\ tasks[t].skill \subseteq 1..Len(tasks)
    /\ branches \subseteq {t \in 1..Len(tasks) : tasks[t].status # "no_change"}
    /\ \A j \in 1..Len(jobs) : jobs[j].kind = "adopt" => jobs[j].task \in 1..Len(tasks)

LaneKept ==
    /\ at = "idle" <=> current = 0
    /\ current # 0 => jobs[current].status = "claimed"
    /\ \A j \in 1..Len(jobs) : jobs[j].status = "claimed" => j = current

\* What a body has in hand.
Drafting ==
    Running("evolve", "task") =>
        /\ work.base \in 1..Len(history) /\ work.tree \in Trees /\ work.agent \in BOOLEAN
        /\ work.tree.skill = history[work.base].tree.skill

Adopting ==
    /\ Running("adopt", "skill") \/ Running("adopt", "commit") =>
        work.tree.paths \subseteq Paths /\ work.tree.blocks \subseteq Blocks
    /\ Running("adopt", "skill") => {"tree", "skill", "agent"} \subseteq DOMAIN work
    /\ Running("adopt", "commit") => work.skill \subseteq 1..Len(tasks)

Base == Types /\ Named /\ LaneKept /\ Drafting /\ Adopting
-----------------------------------------------------------------------------
(* Trees. *)

LEMMA SubType ==
  ASSUME NEW t \in Trees, NEW ps \in SUBSET Paths
  PROVE  Sub(t, ps) \in Trees /\ Sub(t, ps).skill = t.skill
  BY DEF Sub, Trees

LEMMA LiveTypes ==
  ASSUME NEW t \in Trees
  PROVE  /\ LiveDocuments(t) \in Trees /\ LiveDocuments(t).skill = t.skill
         /\ Restructurable(t) \in Trees /\ Restructurable(t).skill = t.skill
  <1>1. {p \in t.paths : Shelf(p) # "archive"} \in SUBSET Paths
    BY DEF Trees
  <1>2. ({p \in t.paths : Shelf(p) # "archive"} \ RetiredPaths(t)) \in SUBSET Paths
    BY <1>1
  <1>. QED
    BY <1>1, <1>2, SubType DEF LiveDocuments, Restructurable

LEMMA OlderTypes ==
  ASSUME NEW t \in Trees
  PROVE  Older(t) \in Trees
  <1>. DEFINE ps == Restructurable(t).paths \ RetiredPaths(Main)
  <1>1. Restructurable(t) \in Trees
    BY LiveTypes
  <1>2. ps \in SUBSET Paths
    BY <1>1 DEF Trees
  <1>. HIDE DEF ps
  <1>3. Sub(Restructurable(t), ps) \in Trees
    BY <1>1, <1>2, SubType
  <1>. QED
    BY <1>3 DEF Older, ps

LEMMA MovedType ==
  ASSUME NEW t \in Trees, NEW cs, NEW to \in Paths
  PROVE  Moved(t, cs, to) \in Trees /\ Moved(t, cs, to).skill = t.skill
  <1>. DEFINE bs == {IF b \in cs THEN [b EXCEPT !.path = to] ELSE b : b \in t.blocks}
  <1>1. \A b \in t.blocks : b \in Blocks /\ [b EXCEPT !.path = to] \in Blocks
    BY DEF Trees, Blocks
  <1>2. bs \subseteq Blocks
    BY <1>1
  <1>3. Moved(t, cs, to) = [t EXCEPT !.paths = @ \cup {to}, !.blocks = bs]
    BY DEF Moved
  <1>. HIDE DEF bs
  <1>. QED
    BY <1>2, <1>3 DEF Trees

Shaped(t) == /\ t = [paths |-> t.paths, skill |-> t.skill, blocks |-> t.blocks]
             /\ t.paths \subseteq Paths /\ t.skill \subseteq Nat
Rehomed(b, cs, to) == IF b \in cs THEN [b EXCEPT !.path = to] ELSE b

LEMMA MovedFields ==
  ASSUME NEW t, Shaped(t), NEW cs, NEW to \in Paths,
         \A b \in t.blocks : Rehomed(b, cs, to) \in Blocks
  PROVE  /\ Moved(t, cs, to) \in Trees /\ Moved(t, cs, to).skill = t.skill
         /\ Moved(t, cs, to).paths = t.paths \cup {to}
         /\ \A m \in Moved(t, cs, to).blocks : \E b \in t.blocks : m = Rehomed(b, cs, to)
         /\ \A b \in t.blocks : Rehomed(b, cs, to) \in Moved(t, cs, to).blocks
  <1>. DEFINE bs == {IF b \in cs THEN [b EXCEPT !.path = to] ELSE b : b \in t.blocks}
  <1>1. /\ bs \subseteq Blocks /\ \A m \in bs : \E b \in t.blocks : m = Rehomed(b, cs, to)
        /\ \A b \in t.blocks : Rehomed(b, cs, to) \in bs
    BY DEF Rehomed
  <1>2. Moved(t, cs, to) = [t EXCEPT !.paths = @ \cup {to}, !.blocks = bs]
    BY DEF Moved
  <1>. HIDE DEF bs
  <1>3. /\ Moved(t, cs, to) = [paths |-> t.paths \cup {to}, skill |-> t.skill, blocks |-> bs]
        /\ t.paths \cup {to} \in SUBSET Paths /\ t.skill \in SUBSET Nat
    BY <1>2 DEF Shaped
  <1>. QED
    BY <1>1, <1>3 DEF Trees

LEMMA TextType ==
  ASSUME NEW bs \in SUBSET Blocks, NEW a \in Anchors(bs)
  PROVE  TextOf(bs, a) \in Texts
  <1>1. \E b \in bs : b.anchor = a
    BY DEF Anchors
  <1>2. (CHOOSE b \in bs : b.anchor = a) \in bs
    BY <1>1
  <1>. QED
    BY <1>2 DEF TextOf, Blocks

LEMMA FinalType ==
  ASSUME NEW base, NEW branch \in Trees, NEW main \in Trees
  PROVE  Final(base, branch, main).paths \subseteq Paths /\ Final(base, branch, main).blocks \subseteq Blocks
  <1>1. ToAdd(base, branch, main) \subseteq main.blocks /\ main.blocks \subseteq Blocks
        /\ branch.paths \subseteq Paths /\ branch.blocks \subseteq Blocks
    BY DEF ToAdd, Trees
  <1>2. Surviving(base, branch, main) \subseteq Blocks
    <2>. SUFFICES ASSUME NEW b \in branch.blocks,
                         b.anchor \in Anchors(base.blocks) /\ ChangedInWindow(base, main, b.anchor)
                  PROVE  [b EXCEPT !.text = TextOf(main.blocks, b.anchor)] \in Blocks
      BY <1>1 DEF Surviving
    <2>1. TextOf(main.blocks, b.anchor) \in Texts
      BY <1>1, TextType DEF ChangedInWindow
    <2>. QED
      BY <1>1, <2>1 DEF Blocks
  <1>3. {b.path : b \in ToAdd(base, branch, main)} \subseteq Paths
    BY <1>1 DEF Blocks
  <1>. QED
    BY <1>1, <1>2, <1>3 DEF Final

LEMMA OpenPathsType == \A t : OpenPaths(t) \subseteq Paths
  BY DEF OpenPaths, Paths

LEMMA OpenBlocksType == \A t \in Trees : OpenBlocks(t) \subseteq t.blocks
  BY DEF OpenBlocks, Restructurable, Sub, Trees

LEMMA SubFields ==
  ASSUME NEW t \in Trees, NEW ps \in SUBSET Paths
  PROVE  Sub(t, ps).paths = ps /\ Sub(t, ps).blocks = {b \in t.blocks : b.path \in ps}
  BY DEF Sub, Trees

LEMMA OpenOnes ==
  ASSUME NEW t \in Trees, NEW b \in OpenBlocks(t)
  PROVE  b \in t.blocks /\ b.path \in t.paths /\ Shelf(b.path) = "page" /\ b.path \notin RetiredPaths(t)
  <1>1. {p \in t.paths : Shelf(p) # "archive"} \ RetiredPaths(t) \in SUBSET Paths
    BY DEF Trees
  <1>2. Restructurable(t).blocks = {x \in t.blocks : x.path \in {p \in t.paths : Shelf(p) # "archive"} \ RetiredPaths(t)}
    BY <1>1, SubFields DEF Restructurable
  <1>. QED
    BY <1>2 DEF OpenBlocks

\* What stands where an open block stands is open.
LEMMA OpenPage ==
  ASSUME NEW t \in Trees, NEW p, NEW o \in OpenBlocks(t), o.path = p
  PROVE  \A b \in t.blocks : b.path = p => b \in OpenBlocks(t)
  <1>1. o.path \in t.paths /\ Shelf(o.path) = "page" /\ o.path \notin RetiredPaths(t)
    BY OpenOnes
  <1>2. {q \in t.paths : Shelf(q) # "archive"} \ RetiredPaths(t) \in SUBSET Paths
    BY DEF Trees
  <1>3. Restructurable(t).blocks = {x \in t.blocks : x.path \in {q \in t.paths : Shelf(q) # "archive"} \ RetiredPaths(t)}
    BY <1>2, SubFields DEF Restructurable
  <1>. QED
    BY <1>1, <1>3 DEF OpenBlocks

\* Every block is on a path the tree has.
Placed(t) == \A b \in t.blocks : b.path \in t.paths

\* Records stand where a page is archived, and claims everywhere else.
Sorted(t) == \A b \in t.blocks : b.anchor \in Pages <=> b.path \in RetiredPaths(t)

\* Blocks that are open go to a path that is not retired, or to the archive of their page.
LEMMA MovedSorted ==
  ASSUME NEW t, NEW m, NEW cs, NEW to, Sorted(t), t.blocks \subseteq Blocks,
         RetiredPaths(m) = RetiredPaths(t), to \notin RetiredPaths(t),
         \A x \in m.blocks : \E b \in t.blocks : x = Rehomed(b, cs, to),
         \A b \in t.blocks : b \in cs => b.path \notin RetiredPaths(t)
  PROVE  Sorted(m)
  <1>. SUFFICES ASSUME NEW x \in m.blocks PROVE x.anchor \in Pages <=> x.path \in RetiredPaths(t)
    BY DEF Sorted
  <1>1. PICK b \in t.blocks : x = Rehomed(b, cs, to)
    OBVIOUS
  <1>2. b.anchor \in Pages <=> b.path \in RetiredPaths(t)
    BY DEF Sorted
  <1>3. CASE b \in cs
    BY <1>1, <1>2, <1>3 DEF Rehomed, Blocks
  <1>4. CASE b \notin cs
    BY <1>1, <1>2, <1>4 DEF Rehomed
  <1>. QED
    BY <1>3, <1>4

\* A draft has the anchors of its base, and what is not open to it as the base has it.
Redrawn(base, t) ==
    /\ \A x \in t.blocks : \E o \in base.blocks :
            o.anchor = x.anchor /\ (o \notin OpenBlocks(base) => x = o)
    /\ \A p \in Pages : <<p, "archive">> \in t.paths <=> <<p, "archive">> \in base.paths

LEMMA MovedDrawn ==
  ASSUME NEW t \in Trees, NEW cs \in SUBSET OpenBlocks(t), NEW to \in OpenPaths(t)
  PROVE  /\ Redrawn(t, Moved(t, cs, to))
         /\ Moved(t, cs, to) \in Trees /\ Moved(t, cs, to).skill = t.skill
         /\ t.paths \subseteq Moved(t, cs, to).paths /\ (Sorted(t) => Sorted(Moved(t, cs, to)))
  <1>1. Shaped(t) /\ to \in Paths /\ to[2] = "page" /\ t.blocks \subseteq Blocks
    BY OpenPathsType DEF Shaped, Trees, OpenPaths
  <1>2. \A b \in t.blocks : /\ Rehomed(b, cs, to) \in Blocks
                            /\ Rehomed(b, cs, to).anchor = b.anchor
                            /\ b \notin OpenBlocks(t) => Rehomed(b, cs, to) = b
    BY <1>1 DEF Rehomed, Blocks
  <1>3. /\ Moved(t, cs, to) \in Trees /\ Moved(t, cs, to).skill = t.skill
        /\ Moved(t, cs, to).paths = t.paths \cup {to}
        /\ \A m \in Moved(t, cs, to).blocks : \E b \in t.blocks : m = Rehomed(b, cs, to)
    <2>1. Shaped(t) /\ to \in Paths
      BY <1>1
    <2>2. \A b \in t.blocks : Rehomed(b, cs, to) \in Blocks
      BY <1>2
    <2>. QED
      BY <2>1, <2>2, MovedFields
  <1>4. \A p \in Pages : to # <<p, "archive">>
    BY DEF OpenPaths
  <1>5. \A m \in Moved(t, cs, to).blocks : \E b \in t.blocks :
            b.anchor = m.anchor /\ (b \notin OpenBlocks(t) => m = b)
    BY <1>2, <1>3
  <1>6. RetiredPaths(Moved(t, cs, to)) = RetiredPaths(t) /\ to \notin RetiredPaths(t)
    BY <1>3, <1>4 DEF RetiredPaths, OpenPaths
  <1>7. \A b \in cs : b.path \notin RetiredPaths(t)
    BY OpenOnes
  <1>8. Sorted(t) => Sorted(Moved(t, cs, to))
    BY <1>1, <1>3, <1>6, <1>7, MovedSorted
  <1>. QED
    BY <1>3, <1>4, <1>5, <1>8 DEF Redrawn

LEMMA ReorganizedType ==
  ASSUME NEW t \in Trees, NEW agent \in BOOLEAN, NEW r \in Reorganized(t, agent)
  PROVE  /\ r \in Trees /\ r.skill = t.skill /\ Redrawn(t, r)
         /\ (Sorted(t) => Sorted(r)) /\ (agent \/ t.paths \subseteq r.paths)
  <1>. DEFINE One(b) == {Moved(t, {b}, p) : p \in OpenPaths(t) \ {b.path}}
                        \cup {[t EXCEPT !.blocks = @ \ {b}],
                              [t EXCEPT !.blocks = (@ \ {b}) \cup {[b EXCEPT !.text = "evolved"]}]}
             Merges == IF ~agent THEN {} ELSE {[Moved(t, {b \in OpenBlocks(t) : b.path = pq[1]}, pq[2]) EXCEPT !.paths = @ \ {pq[1]}] :
                           pq \in {x \in (OpenPaths(t) \cap t.paths) \X OpenPaths(t) : x[1] # x[2]}}
  <1>1. ASSUME NEW b \in OpenBlocks(t), NEW p \in OpenPaths(t), r = Moved(t, {b}, p)
        PROVE  /\ r \in Trees /\ r.skill = t.skill /\ Redrawn(t, r)
               /\ (Sorted(t) => Sorted(r)) /\ (agent \/ t.paths \subseteq r.paths)
    <2>1. {b} \in SUBSET OpenBlocks(t)
      OBVIOUS
    <2>. QED
      BY <1>1, <2>1, MovedDrawn
  <1>2. ASSUME NEW b \in OpenBlocks(t), r = [t EXCEPT !.blocks = @ \ {b}]
        PROVE  /\ r \in Trees /\ r.skill = t.skill /\ Redrawn(t, r)
               /\ (Sorted(t) => Sorted(r)) /\ (agent \/ t.paths \subseteq r.paths)
    <2>1. r.paths = t.paths /\ r.blocks = t.blocks \ {b}
      BY <1>2 DEF Trees
    <2>. QED
      BY <1>2, <2>1 DEF Trees, Redrawn, Sorted, RetiredPaths
  <1>3. ASSUME NEW b \in OpenBlocks(t), r = [t EXCEPT !.blocks = (@ \ {b}) \cup {[b EXCEPT !.text = "evolved"]}]
        PROVE  /\ r \in Trees /\ r.skill = t.skill /\ Redrawn(t, r)
               /\ (Sorted(t) => Sorted(r)) /\ (agent \/ t.paths \subseteq r.paths)
    <2>0. b \in Blocks /\ b \in t.blocks
      BY OpenBlocksType DEF Trees
    <2>1. /\ [b EXCEPT !.text = "evolved"] \in Blocks /\ [b EXCEPT !.text = "evolved"].anchor = b.anchor
          /\ [b EXCEPT !.text = "evolved"].path = b.path
      BY <2>0 DEF Blocks, Texts
    <2>. DEFINE e == [b EXCEPT !.text = "evolved"]
    <2>. HIDE DEF e
    <2>2. /\ r = [t EXCEPT !.blocks = (@ \ {b}) \cup {e}] /\ e \in Blocks
          /\ e.anchor = b.anchor /\ e.path = b.path
      BY <1>3, <2>1 DEF e
    <2>3. r.paths = t.paths /\ r.blocks = (t.blocks \ {b}) \cup {e}
      BY <2>2 DEF Trees
    <2>4. Sorted(t) => Sorted(r)
      BY <2>0, <2>2, <2>3 DEF Sorted, RetiredPaths
    <2>. QED
      BY <2>0, <2>2, <2>3, <2>4 DEF Trees, Redrawn
  <1>4. ASSUME NEW from \in OpenPaths(t), NEW to \in OpenPaths(t), NEW bs \in SUBSET OpenBlocks(t),
               r = [Moved(t, bs, to) EXCEPT !.paths = @ \ {from}], agent
        PROVE  /\ r \in Trees /\ r.skill = t.skill /\ Redrawn(t, r)
               /\ (Sorted(t) => Sorted(r)) /\ (agent \/ t.paths \subseteq r.paths)
    <2>1. /\ Moved(t, bs, to) \in Trees /\ Moved(t, bs, to).skill = t.skill /\ Redrawn(t, Moved(t, bs, to))
          /\ (Sorted(t) => Sorted(Moved(t, bs, to)))
      BY MovedDrawn
    <2>2. r \in Trees /\ r.skill = t.skill /\ r.blocks = Moved(t, bs, to).blocks
          /\ r.paths = Moved(t, bs, to).paths \ {from} /\ from[2] = "page"
      BY <1>4, <2>1 DEF Trees, OpenPaths
    <2>3. RetiredPaths(r) = RetiredPaths(Moved(t, bs, to))
      <3>1. \A q : <<q, "archive">> # from
        BY <2>2
      <3>2. \A q : <<q, "archive">> \in r.paths <=> <<q, "archive">> \in Moved(t, bs, to).paths
        BY <2>2, <3>1
      <3>. QED
        BY <3>2 DEF RetiredPaths
    <2>4. Sorted(t) => Sorted(r)
      BY <2>1, <2>2, <2>3 DEF Sorted
    <2>. QED
      BY <1>4, <2>1, <2>2, <2>4 DEF Redrawn
  <1>5. CASE agent /\ \E pq \in (OpenPaths(t) \cap t.paths) \X OpenPaths(t) :
               r = [Moved(t, {b \in OpenBlocks(t) : b.path = pq[1]}, pq[2]) EXCEPT !.paths = @ \ {pq[1]}]
    <2>1. PICK pq \in (OpenPaths(t) \cap t.paths) \X OpenPaths(t) :
               r = [Moved(t, {b \in OpenBlocks(t) : b.path = pq[1]}, pq[2]) EXCEPT !.paths = @ \ {pq[1]}]
      BY <1>5
    <2>2. pq[1] \in OpenPaths(t) /\ pq[2] \in OpenPaths(t)
          /\ {b \in OpenBlocks(t) : b.path = pq[1]} \in SUBSET OpenBlocks(t)
      BY <2>1
    <2>. QED
      BY <1>4, <1>5, <2>1, <2>2
  <1>6. CASE \E b \in OpenBlocks(t) : r \in One(b)
    <2>1. PICK b \in OpenBlocks(t) : r \in One(b)
      BY <1>6
    <2>2. CASE r \in {Moved(t, {b}, p) : p \in OpenPaths(t) \ {b.path}}
      BY <1>1, <2>2
    <2>3. CASE r = [t EXCEPT !.blocks = @ \ {b}]
      BY <1>2, <2>3
    <2>4. CASE r = [t EXCEPT !.blocks = (@ \ {b}) \cup {[b EXCEPT !.text = "evolved"]}]
      BY <1>3, <2>4
    <2>. QED
      BY <2>1, <2>2, <2>3, <2>4
  <1>7. CASE r \in Merges
    <2>1. agent
      BY <1>7 DEF Merges
    <2>. QED
      BY <1>5, <1>7, <2>1
  <1>8. r \in (UNION {One(b) : b \in OpenBlocks(t)}) \cup Merges
    BY DEF Reorganized
  <1>9. (\E b \in OpenBlocks(t) : r \in One(b)) \/ r \in Merges
    <2>. HIDE DEF One, Merges
    <2>. QED
      BY <1>8
  <1>. QED
    BY <1>6, <1>7, <1>9

LEMMA AdoptedType ==
  ASSUME NEW t \in Trees, NEW final, final.paths \subseteq Paths, final.blocks \subseteq Blocks,
         NEW removals, NEW skill \in SUBSET Nat
  PROVE  Adopted(t, final, removals, skill) \in Trees /\ Adopted(t, final, removals, skill).skill = skill
  BY DEF Adopted, Trees

LEMMA MainType ==
  ASSUME Types
  PROVE  /\ Len(history) \in Nat \ {0} /\ Len(history) \in 1..Len(history)
         /\ history[Len(history)] \in Commits /\ Main \in Trees
  <1>1. history \in Seq(Commits) /\ history # <<>>
    BY DEF Types
  <1>2. Len(history) \in Nat /\ Len(history) # 0
    BY <1>1, EmptySeq, LenProperties
  <1>3. history[Len(history)] \in Commits
    BY <1>1, <1>2, ElementOfSeq
  <1>. QED
    BY <1>2, <1>3 DEF Main, Commits

LEMMA MeType == Types /\ current # 0 => Me \in JobRows /\ current \in 1..Len(jobs)
  BY DEF Types, Me
-----------------------------------------------------------------------------
(* Types and names. *)

LEMMA InitBase == Init => Base
  <1>. SUFFICES ASSUME Init PROVE Base
    OBVIOUS
  <1>1. Start \in Trees /\ Start.skill = {}
    <2>1. \A c \in Begin : c \in Claims /\ <<Home[c], "page">> \in Paths
                          /\ Block(c, <<Home[c], "page">>, "first") \in Blocks
      BY EvolveAssumption DEF Block, Blocks, Paths, Texts
    <2>2. {<<Home[c], "page">> : c \in Begin} \subseteq Paths
          /\ {Block(c, <<Home[c], "page">>, "first") : c \in Begin} \subseteq Blocks
      BY <2>1
    <2>. QED
      BY <2>2 DEF Start, Trees
  <1>2. [tree |-> Start, task |-> 0] \in Commits
    BY <1>1 DEF Commits
  <1>3. history \in Seq(Commits) /\ Len(history) = 1 /\ history[1] = [tree |-> Start, task |-> 0]
    BY <1>2 DEF Init
  <1>4. Types
    BY <1>3 DEF Init, Types
  <1>5. Named
    BY <1>1, <1>3 DEF Init, Named
  <1>. QED
    BY <1>4, <1>5 DEF Init, Base, LaneKept, Drafting, Adopting, Running

\* A row whose status alone changes is still the row it was.
LEMMA StatusType ==
  ASSUME NEW j \in 1..Len(jobs), NEW st \in Open \cup {"done"}, jobs \in Seq(JobRows),
         jobs' = [jobs EXCEPT ![j].status = st]
  PROVE  /\ jobs' \in Seq(JobRows) /\ Len(jobs') = Len(jobs) /\ jobs'[j].status = st
         /\ \A i \in 1..Len(jobs) : /\ jobs'[i].kind = jobs[i].kind /\ jobs'[i].task = jobs[i].task
                                    /\ i # j => jobs'[i] = jobs[i]
  <1>1. jobs[j] \in JobRows
    OBVIOUS
  <1>2. [jobs[j] EXCEPT !.status = st] \in JobRows
    BY <1>1 DEF JobRows
  <1>. QED
    BY <1>1, <1>2 DEF JobRows

\* A step of the lane that leaves main, the tasks and the branches alone.
LEMMA LaneSteps ==
  ASSUME Base, UNCHANGED <<history, tasks, branches, deciding>>, checking' \subseteq Callers,
         ClaimNext \/ Interrupted \/ (current # 0 /\ End)
  PROVE  Base'
  <1>. USE DEF Base
  <1>0. jobs \in Seq(JobRows) /\ (current # 0 => current \in 1..Len(jobs))
    BY DEF Types
  <1>1. ASSUME NEW j \in 1..Len(jobs), NEW st \in Open \cup {"done"}, jobs' = [jobs EXCEPT ![j].status = st],
               \/ st = "claimed" /\ current = 0 /\ current' = j /\ at' = "run"
               \/ st # "claimed" /\ current = j /\ current' = 0 /\ at' = "idle"
        PROVE  Base'
    <2>2. /\ jobs' \in Seq(JobRows) /\ Len(jobs') = Len(jobs) /\ jobs'[j].status = st
          /\ \A i \in 1..Len(jobs) : /\ jobs'[i].kind = jobs[i].kind /\ jobs'[i].task = jobs[i].task
                                     /\ i # j => jobs'[i] = jobs[i]
      BY <1>0, <1>1, StatusType
    <2>3. Types'
      BY <1>0, <1>1, <2>2 DEF Types, Verdicts
    <2>4. Named'
      BY <2>2 DEF Named
    <2>5. LaneKept'
      BY <1>0, <1>1, <2>2 DEF LaneKept
    <2>6. Drafting' /\ Adopting'
      BY <1>1 DEF Drafting, Adopting, Running
    <2>. QED
      BY <2>3, <2>4, <2>5, <2>6
  <1>2. CASE ClaimNext
    <2>1. PICK j \in DOMAIN jobs : jobs' = [jobs EXCEPT ![j].status = "claimed"]
                                 /\ current' = j /\ at' = "run"
      BY <1>2 DEF ClaimNext
    <2>2. j \in 1..Len(jobs)
      BY <1>0, <2>1
    <2>. QED
      BY <1>1, <1>2, <2>1, <2>2 DEF ClaimNext, Open
  <1>3. CASE Interrupted
    BY <1>0, <1>1, <1>3 DEF Interrupted, Open
  <1>4. CASE current # 0 /\ End
    BY <1>0, <1>1, <1>4 DEF End
  <1>. QED
    BY <1>2, <1>3, <1>4

\* A caller of the API process.
LEMMA CallerSteps ==
  ASSUME Base, Caller
  PROVE  Base'
  <1>. USE DEF Base
  <1>1. ASSUME UNCHANGED <<history, tasks, branches, deciding, lane>>, checking' \subseteq Callers
        PROVE  Base'
    BY <1>1 DEF lane, Types, Verdicts, Named, LaneKept, Drafting, Adopting, Running, Me
  <1>2. ASSUME NEW k \in {"evolve", "adopt"}, NEW t \in Nat, k = "adopt" => t \in 1..Len(tasks),
               jobs' = Append(jobs, Row(k, t)), checking' \subseteq Callers,
               UNCHANGED <<history, tasks, branches, deciding, current, at, work>>
        PROVE  Base'
    <2>1. jobs \in Seq(JobRows) /\ Row(k, t) \in JobRows /\ (current # 0 => current \in 1..Len(jobs))
      BY <1>2 DEF Types, Row, JobRows, Open
    <2>2. /\ jobs' \in Seq(JobRows) /\ Len(jobs') = Len(jobs) + 1 /\ jobs'[Len(jobs) + 1] = Row(k, t)
          /\ \A i \in 1..Len(jobs) : jobs'[i] = jobs[i]
      BY <1>2, <2>1, AppendProperties
    <2>3. 1..Len(jobs') = 1..Len(jobs) \cup {Len(jobs) + 1} /\ Len(jobs) \in Nat
      BY <2>1, <2>2
    <2>4. Types'
      BY <1>2, <2>1, <2>2, <2>3 DEF Types, Verdicts
    <2>5. Named'
      BY <1>2, <2>2, <2>3 DEF Named, Row
    <2>6. LaneKept'
      BY <1>2, <2>1, <2>2, <2>3 DEF LaneKept, Row
    <2>7. Drafting' /\ Adopting'
      BY <1>2, <2>1, <2>2 DEF Drafting, Adopting, Running, Me
    <2>. QED
      BY <2>4, <2>5, <2>6, <2>7
  <1>3. ASSUME NEW c \in Callers, TriggerLooks(c) PROVE Base'
    BY <1>1, <1>3 DEF TriggerLooks, Types
  <1>4. ASSUME NEW c \in Callers, TriggerEnqueues(c) PROVE Base'
    BY <1>2, <1>4 DEF TriggerEnqueues, Types
  <1>5. ASSUME NEW t \in DOMAIN tasks, RequestAdopt(t) PROVE Base'
    <2>1. t \in 1..Len(tasks) /\ t \in Nat
      BY DEF Types
    <2>. QED
      BY <1>2, <1>5, <2>1 DEF RequestAdopt, Types
  <1>6. ASSUME NEW t \in DOMAIN tasks, NEW v \in {"dropped", "expired"}, VerdictReads(t, v) PROVE Base'
    <2>1. t \in 1..Len(tasks)
      BY DEF Types
    <2>2. UNCHANGED <<history, tasks, branches, checking, jobs, current, at, work>>
      BY <1>6 DEF VerdictReads, lane
    <2>3. [task |-> t, verdict |-> v, deleted |-> FALSE] \in Verdicts
      BY <2>1 DEF Verdicts
    <2>4. deciding' \subseteq Verdicts /\ Verdicts' = Verdicts
      BY <1>6, <2>2, <2>3 DEF VerdictReads, Types, Verdicts
    <2>5. Types'
      BY <2>2, <2>4 DEF Types
    <2>. QED
      BY <1>6, <2>2, <2>5 DEF VerdictReads, lane, Named, LaneKept, Drafting, Adopting, Running, Me
  <1>7. ASSUME NEW d \in deciding, VerdictDeletes(d) PROVE Base'
    <2>0. d \in Verdicts /\ [d EXCEPT !.deleted = TRUE] \in Verdicts /\ UNCHANGED <<tasks, jobs, current>>
      BY <1>7 DEF VerdictDeletes, Types, Verdicts, lane
    <2>a. deciding' \subseteq Verdicts
      BY <1>7, <2>0 DEF VerdictDeletes, Types
    <2>b. Verdicts' = Verdicts
      BY <2>0 DEF Verdicts
    <2>1. Types'
      BY <1>7, <2>0, <2>a, <2>b DEF VerdictDeletes, Types
    <2>. QED
      BY <1>7, <2>1 DEF VerdictDeletes, lane, Named, LaneKept, Drafting, Adopting, Running, Me
  <1>8. ASSUME NEW d \in deciding, VerdictDecides(d) PROVE Base'
    <2>1. d.task \in 1..Len(tasks) /\ d.verdict \in {"dropped", "expired"} /\ tasks \in Seq(TaskRows)
          /\ tasks[d.task] \in TaskRows
      BY DEF Types, Verdicts
    <2>2. [tasks[d.task] EXCEPT !.status = d.verdict] \in TaskRows
      BY <2>1 DEF TaskRows, Statuses
    <2>3. tasks' \in Seq(TaskRows) /\ Len(tasks') = Len(tasks)
      BY <1>8, <2>1, <2>2 DEF VerdictDecides
    <2>4. \A t \in 1..Len(tasks) : /\ tasks'[t].base = tasks[t].base /\ tasks'[t].skill = tasks[t].skill
                                   /\ tasks'[t].status = "no_change" => tasks[t].status = "no_change"
      BY <1>8, <2>1 DEF VerdictDecides, TaskRows
    <2>5. Types'
      BY <1>8, <2>3 DEF VerdictDecides, Types, Verdicts, lane
    <2>6. Named'
      BY <1>8, <2>3, <2>4 DEF VerdictDecides, Named, lane
    <2>. QED
      BY <1>8, <2>3, <2>5, <2>6 DEF VerdictDecides, lane, LaneKept, Drafting, Adopting, Running, Me
  <1>. QED
    BY <1>3, <1>4, <1>5, <1>6, <1>7, <1>8 DEF Caller

LEMMA PrefixKept ==
  ASSUME NEW S, NEW s \in Seq(S), NEW e \in S
  PROVE  /\ Append(s, e) \in Seq(S) /\ Append(s, e) # <<>> /\ Len(s) \in Nat
         /\ Len(Append(s, e)) = Len(s) + 1 /\ Append(s, e)[Len(s) + 1] = e
         /\ \A i \in 1..Len(s) : Append(s, e)[i] = s[i] /\ i \in 1..Len(Append(s, e))
         /\ 1..Len(Append(s, e)) = 1..Len(s) \cup {Len(s) + 1}
  BY AppendProperties

\* Main grows by one commit.
LEMMA CommitTypes ==
  ASSUME Types, NEW t \in Trees, NEW k \in Nat, history' = Append(history, [tree |-> t, task |-> k])
  PROVE  /\ history' \in Seq(Commits) /\ history' # <<>> /\ Len(history) \in Nat \ {0}
         /\ Len(history') = Len(history) + 1
         /\ history'[Len(history) + 1] = [tree |-> t, task |-> k]
         /\ \A i \in 1..Len(history) : history'[i] = history[i]
         /\ 1..Len(history') = 1..Len(history) \cup {Len(history) + 1}
         /\ Main' = t
  <1>1. [tree |-> t, task |-> k] \in Commits /\ history \in Seq(Commits)
    BY DEF Types, Commits
  <1>2. /\ history' \in Seq(Commits) /\ history' # <<>> /\ Len(history) \in Nat
        /\ Len(history') = Len(history) + 1 /\ history'[Len(history) + 1] = [tree |-> t, task |-> k]
        /\ \A i \in 1..Len(history) : history'[i] = history[i]
        /\ 1..Len(history') = 1..Len(history) \cup {Len(history) + 1}
    BY <1>1, PrefixKept
  <1>3. Main' = t
    BY <1>2 DEF Main
  <1>. QED
    BY <1>2, <1>3, MainType

\* A round of the draft kind ends with a task row.
LEMMA TaskTypes ==
  ASSUME Types, NEW r \in TaskRows, tasks' = Append(tasks, r)
  PROVE  /\ tasks' \in Seq(TaskRows) /\ Len(tasks) \in Nat /\ Len(tasks') = Len(tasks) + 1
         /\ tasks'[Len(tasks) + 1] = r /\ \A t \in 1..Len(tasks) : tasks'[t] = tasks[t]
         /\ 1..Len(tasks') = 1..Len(tasks) \cup {Len(tasks) + 1}
  <1>1. tasks \in Seq(TaskRows)
    BY DEF Types
  <1>. QED
    BY <1>1, PrefixKept

\* A phase of a body that leaves main, the tasks and the rows alone.
LEMMA PhaseSteps ==
  ASSUME Base, UNCHANGED <<history, tasks, checking, deciding, jobs, current>>,
         branches' \subseteq branches, current # 0, at' # "idle", Drafting', Adopting'
  PROVE  Base'
  <1>1. Types'
    BY DEF Base, Types, Verdicts
  <1>2. Named' /\ LaneKept'
    BY DEF Base, Named, LaneKept
  <1>. QED
    BY <1>1, <1>2 DEF Base

LEMMA OlderMainTypes ==
  ASSUME Base, Running("adopt", "run")
  PROVE  /\ Me.task \in 1..Len(tasks) /\ T \in TaskRows /\ T.base \in 1..Len(history)
         /\ history[T.base].tree \in Trees /\ T.tree \in Trees
         /\ BaseDocs \in Trees /\ BranchDocs \in Trees /\ MainDocs \in Trees
  <1>1. Me \in JobRows /\ current \in 1..Len(jobs) /\ Me.kind = "adopt"
    BY MeType DEF Base, Running
  <1>2. Me.task \in 1..Len(tasks)
    BY <1>1 DEF Base, Named, Me
  <1>3. T \in TaskRows /\ T.base \in 1..Len(history)
    BY <1>2 DEF Base, Types, Named, T
  <1>4. history[T.base].tree \in Trees /\ T.tree \in Trees
    <2>1. history \in Seq(Commits)
      BY DEF Base, Types
    <2>2. history[T.base] \in Commits
      BY <1>3, <2>1, ElementOfSeq
    <2>. QED
      BY <1>3, <2>2 DEF Commits, TaskRows
  <1>. QED
    BY <1>2, <1>3, <1>4, OlderTypes, LiveTypes, MainType DEF BaseDocs, BranchDocs, MainDocs, Base

\* The row a round leaves: that nothing came of it, or a draft of what it has in hand.
EmptyRow(r) ==
    /\ r.status = "no_change" /\ r.base = Len(history) /\ r.tree = Main /\ r.skill = {}
    /\ branches' = branches
DraftRow(r) ==
    /\ Running("evolve", "task") /\ r.status = "draft"
    /\ r.base = work.base /\ r.tree = work.tree /\ r.skill = work.tree.skill \cup {Len(tasks) + 1}
    /\ r.agent = work.agent
    /\ branches' = branches \cup {Len(tasks) + 1}

LEMMA RowDrafted ==
  ASSUME Base, EvolveEndsEmpty \/ CreateEvolveTask
  PROVE  \E r \in TaskRows :
           /\ tasks' = Append(tasks, r) /\ r.base \in 1..Len(history)
           /\ r.skill \subseteq 1..(Len(tasks) + 1) /\ (EmptyRow(r) \/ DraftRow(r))
  <1>. DEFINE t == Len(tasks) + 1
  <1>0. Main \in Trees /\ Len(history) \in 1..Len(history) /\ Len(history) \in Nat /\ Len(tasks) \in Nat
    BY MainType DEF Base, Types
  <1>1. CASE EvolveEndsEmpty
    <2>. DEFINE r == [status |-> "no_change", base |-> Len(history), tree |-> Main, skill |-> {}, agent |-> FALSE]
    <2>1. r \in TaskRows /\ r.base \in 1..Len(history) /\ r.skill \subseteq 1..t
      BY <1>0 DEF TaskRows, Statuses
    <2>2. tasks' = Append(tasks, r) /\ EmptyRow(r)
      BY <1>1 DEF EvolveEndsEmpty, EmptyRow
    <2>. QED
      BY <2>1, <2>2
  <1>2. CASE CreateEvolveTask
    <2>. DEFINE r == [status |-> "draft", base |-> work.base, tree |-> work.tree,
                      skill |-> work.tree.skill \cup {t}, agent |-> work.agent]
    <2>1. /\ work.base \in 1..Len(history) /\ work.tree \in Trees /\ work.agent \in BOOLEAN
          /\ work.tree.skill = history[work.base].tree.skill
      BY <1>2 DEF CreateEvolveTask, Base, Drafting
    <2>2. work.tree.skill \subseteq 1..Len(tasks) /\ 1..Len(tasks) \subseteq 1..t /\ t \in 1..t /\ 1..t \subseteq Nat
      BY <1>0, <2>1 DEF Base, Named
    <2>3. r \in TaskRows /\ r.base \in 1..Len(history) /\ r.skill \subseteq 1..t
      BY <1>0, <2>1, <2>2 DEF TaskRows, Statuses
    <2>4. tasks' = Append(tasks, r) /\ DraftRow(r)
      BY <1>2 DEF CreateEvolveTask, DraftRow
    <2>. HIDE DEF r
    <2>. QED
      BY <2>3, <2>4
  <1>. QED
    BY <1>1, <1>2

LEMMA DraftSteps ==
  ASSUME Base, EvolveEndsEmpty \/ CreateEvolveTask
  PROVE  Base'
  <1>. DEFINE t == Len(tasks) + 1
  <1>1. PICK r \in TaskRows :
          /\ tasks' = Append(tasks, r) /\ r.base \in 1..Len(history) /\ r.skill \subseteq 1..t
          /\ branches' = branches \/ (branches' = branches \cup {t} /\ r.status # "no_change")
    BY RowDrafted DEF EmptyRow, DraftRow
  <1>2. /\ tasks' \in Seq(TaskRows) /\ Len(tasks) \in Nat /\ Len(tasks') = t
        /\ tasks'[t] = r /\ \A u \in 1..Len(tasks) : tasks'[u] = tasks[u]
        /\ 1..Len(tasks') = 1..Len(tasks) \cup {t}
    BY <1>1, TaskTypes DEF Base
  <1>3. /\ UNCHANGED <<history, checking, deciding, jobs, current, work>> /\ current # 0
        /\ at # "idle" /\ at' = "complete"
    BY DEF EvolveEndsEmpty, CreateEvolveTask, Running
  <1>. HIDE DEF t
  <1>4. Verdicts \subseteq Verdicts'
    BY <1>2 DEF Verdicts
  <1>5. Types'
    BY <1>2, <1>3, <1>4 DEF Base, Types
  <1>6. Named'
    <2>1. \A i \in 1..Len(history) : /\ history[i].task \in 0..Len(tasks) /\ history[i].tree.skill \subseteq 1..Len(tasks)
      BY DEF Base, Named
    <2>2. 0..Len(tasks) \subseteq 0..Len(tasks') /\ 1..Len(tasks) \subseteq 1..Len(tasks')
      BY <1>2 DEF t
    <2>3. \A u \in 1..Len(tasks') : /\ tasks'[u].base \in 1..Len(history)
                                    /\ tasks'[u].skill \subseteq 1..Len(tasks')
      <3>1. 1..Len(tasks') = 1..t
        BY <1>2
      <3>. QED
        BY <1>1, <1>2, <2>2, <3>1 DEF Base, Named
    <2>4. branches' \subseteq {u \in 1..Len(tasks') : tasks'[u].status # "no_change"}
      BY <1>1, <1>2 DEF Base, Named
    <2>5. \A j \in 1..Len(jobs) : jobs[j].kind = "adopt" => jobs[j].task \in 1..Len(tasks')
      BY <2>2 DEF Base, Named
    <2>. QED
      BY <1>3, <2>1, <2>2, <2>3, <2>4, <2>5 DEF Named
  <1>7. LaneKept' /\ Drafting' /\ Adopting'
    BY <1>3 DEF Base, LaneKept, Drafting, Adopting, Running
  <1>. QED
    BY <1>5, <1>6, <1>7 DEF Base

LEMMA CommitSteps ==
  ASSUME Base, NEW t \in Trees, NEW k \in 0..Len(tasks), t.skill \subseteq 1..Len(tasks),
         history' = Append(history, [tree |-> t, task |-> k]),
         UNCHANGED <<tasks, branches, checking, deciding, jobs, current, work>>,
         at' \in {"idle", "pg"}, at' = "idle" <=> at = "idle"
  PROVE  Base'
  <1>1. k \in Nat
    BY DEF Base, Types
  <1>2. /\ history' \in Seq(Commits) /\ history' # <<>> /\ Len(history) \in Nat \ {0}
        /\ history'[Len(history) + 1] = [tree |-> t, task |-> k]
        /\ \A i \in 1..Len(history) : history'[i] = history[i]
        /\ 1..Len(history') = 1..Len(history) \cup {Len(history) + 1}
    BY <1>1, CommitTypes DEF Base
  <1>3. Types'
    BY <1>2 DEF Base, Types, Verdicts
  <1>4. Named'
    BY <1>2 DEF Base, Named
  <1>. QED
    BY <1>3, <1>4 DEF Base, LaneKept, Drafting, Adopting, Running, Me

LEMMA BranchCommitStep == Base /\ BranchCommit => Base'
  <1>. SUFFICES ASSUME Base, BranchCommit PROVE Base'
    OBVIOUS
  <1>1. PICK agent \in BOOLEAN : \E t \in Reorganized(Main, agent) :
          work' = [Idle EXCEPT !.base = Len(history), !.tree = t, !.agent = agent]
    BY DEF BranchCommit
  <1>a. PICK t \in Reorganized(Main, agent) :
          work' = [Idle EXCEPT !.base = Len(history), !.tree = t, !.agent = agent]
    BY <1>1
  <1>2. Main \in Trees /\ Len(history) \in 1..Len(history) /\ Main = history[Len(history)].tree
    BY MainType DEF Base, Main
  <1>3. t \in Trees /\ t.skill = Main.skill
    BY <1>2, ReorganizedType
  <1>4. work'.base = Len(history) /\ work'.tree = t /\ work'.agent = agent /\ at' = "task"
        /\ UNCHANGED <<history, tasks, branches, checking, deciding, jobs, current>>
    BY <1>a DEF BranchCommit, Idle
  <1>5. Drafting'
    BY <1>2, <1>3, <1>4 DEF Drafting
  <1>6. Adopting'
    BY <1>4 DEF Adopting, Running
  <1>. QED
    BY <1>4, <1>5, <1>6, PhaseSteps DEF BranchCommit, Running

LEMMA ReconcilesStep == Base /\ AdoptReconciles => Base'
  <1>. SUFFICES ASSUME Base, AdoptReconciles PROVE Base'
    OBVIOUS
  <1>1. BaseDocs \in Trees /\ BranchDocs \in Trees /\ MainDocs \in Trees
    BY OlderMainTypes DEF AdoptReconciles
  <1>2. work'.tree = Final(BaseDocs, BranchDocs, MainDocs) /\ DOMAIN work' = DOMAIN Idle /\ at' = "skill"
        /\ UNCHANGED <<history, tasks, branches, checking, deciding, jobs, current>>
    BY DEF AdoptReconciles, Idle
  <1>3. {"tree", "skill", "agent"} \subseteq DOMAIN work'
    BY <1>2 DEF Idle
  <1>4. work'.tree.paths \subseteq Paths /\ work'.tree.blocks \subseteq Blocks
    BY <1>1, <1>2, FinalType
  <1>5. Adopting' /\ Drafting'
    BY <1>2, <1>3, <1>4 DEF Adopting, Drafting, Running
  <1>. QED
    BY <1>2, <1>5, PhaseSteps DEF AdoptReconciles, Running

LEMMA ReadSkillStep == Base /\ ReadSkill => Base'
  <1>. SUFFICES ASSUME Base, ReadSkill PROVE Base'
    OBVIOUS
  <1>1. Me.task \in 1..Len(tasks)
    BY MeType DEF Base, ReadSkill, Running, Named, Me
  <1>2. Main.skill \subseteq 1..Len(tasks) /\ T.skill \subseteq 1..Len(tasks)
    BY <1>1, MainType DEF Base, Named, Main, T
  <1>3. {"tree", "skill", "agent"} \subseteq DOMAIN work /\ Running("adopt", "skill")
        /\ work.tree.paths \subseteq Paths /\ work.tree.blocks \subseteq Blocks
    BY DEF ReadSkill, Base, Adopting
  <1>4. work'.tree = work.tree /\ work'.skill \subseteq 1..Len(tasks) /\ at' = "commit"
        /\ UNCHANGED <<history, tasks, branches, checking, deciding, jobs, current>>
    BY <1>2, <1>3 DEF ReadSkill
  <1>5. Adopting' /\ Drafting'
    BY <1>3, <1>4 DEF Adopting, Drafting, Running
  <1>. QED
    BY <1>4, <1>5, PhaseSteps DEF ReadSkill, Running

\* What an adoption commits.
AdoptedTree ==
    Adopted(Main, work.tree, IF work.agent THEN MainDocs.paths \ work.tree.paths ELSE {}, work.skill)

LEMMA AdoptionTypes ==
  ASSUME Base, CommitAdoption
  PROVE  /\ AdoptedTree \in Trees /\ AdoptedTree.skill = work.skill /\ work.skill \subseteq 1..Len(tasks)
         /\ Me.task \in 1..Len(tasks) /\ Me.task \in 0..Len(tasks) /\ Me.task \in Nat \ {0}
         /\ history' = Append(history, [tree |-> AdoptedTree, task |-> Me.task])
  <1>1. Running("adopt", "commit")
    BY DEF CommitAdoption
  <1>2. work.tree.paths \subseteq Paths /\ work.tree.blocks \subseteq Blocks /\ work.skill \subseteq 1..Len(tasks)
    BY <1>1 DEF Base, Adopting
  <1>3. work.skill \in SUBSET Nat /\ Main \in Trees
    BY <1>2, MainType DEF Base, Types
  <1>4. Me.task \in 1..Len(tasks)
    BY <1>1, MeType DEF Base, Running, Named, Me
  <1>. QED
    BY <1>2, <1>3, <1>4, AdoptedType DEF CommitAdoption, AdoptedTree

LEMMA BodySteps == Base /\ Body => Base'
  <1>. SUFFICES ASSUME Base, Body PROVE Base'
    OBVIOUS
  <1>1. CASE EvolveEndsEmpty \/ CreateEvolveTask
    BY <1>1, DraftSteps
  <1>2. CASE Completes \/ AdoptRefused \/ AdoptFails
    BY <1>2, LaneSteps DEF Completes, AdoptRefused, AdoptFails, Running, Base, Types
  <1>3. CASE CommitAdoption
    <2>1. at = "commit" /\ at' = "pg" /\ UNCHANGED <<tasks, branches, checking, deciding, jobs, current, work>>
      BY <1>3 DEF CommitAdoption, Running
    <2>. QED
      BY <1>3, <2>1, AdoptionTypes, CommitSteps
  <1>4. CASE ReplaceClaims \/ IndexClaims \/ DeleteVectors \/ UpsertVectors \/ DeleteAdoptedBranch
    <2>1. /\ UNCHANGED <<history, tasks, checking, deciding, jobs, current, work>> /\ current # 0
          /\ branches' \subseteq branches /\ at' \in {"lex", "delete", "vec", "decide", "complete"}
      BY <1>4 DEF ReplaceClaims, IndexClaims, DeleteVectors, UpsertVectors, DeleteAdoptedBranch, Running
    <2>2. Drafting' /\ Adopting'
      BY <2>1 DEF Drafting, Adopting, Running
    <2>. QED
      BY <2>1, <2>2, PhaseSteps
  <1>5. CASE DecideAdopted
    <2>1. Me.task \in 1..Len(tasks) /\ tasks \in Seq(TaskRows) /\ tasks[Me.task] \in TaskRows
      BY <1>5, MeType DEF Base, DecideAdopted, Running, Named, Types, Me
    <2>2. [tasks[Me.task] EXCEPT !.status = "adopted"] \in TaskRows
      BY <2>1 DEF TaskRows, Statuses
    <2>3. tasks' \in Seq(TaskRows) /\ Len(tasks') = Len(tasks)
      BY <1>5, <2>1, <2>2 DEF DecideAdopted
    <2>4. \A t \in 1..Len(tasks) : /\ tasks'[t].base = tasks[t].base /\ tasks'[t].skill = tasks[t].skill
                                   /\ tasks'[t].status = "no_change" => tasks[t].status = "no_change"
      BY <1>5, <2>1 DEF DecideAdopted, TaskRows
    <2>5. Types'
      BY <1>5, <2>3 DEF DecideAdopted, Base, Types, Verdicts
    <2>6. Named'
      BY <1>5, <2>3, <2>4 DEF DecideAdopted, Base, Named
    <2>. QED
      BY <1>5, <2>5, <2>6 DEF DecideAdopted, Base, LaneKept, Drafting, Adopting, Running, Me
  <1>. QED
    BY <1>1, <1>2, <1>3, <1>4, <1>5, BranchCommitStep, ReconcilesStep, ReadSkillStep DEF Body

LEMMA OthersTree ==
  ASSUME Base, OtherJobs
  PROVE  \E t \in Trees : t.skill = Main.skill
                   /\ (Placed(Main) => Placed(t)) /\ (Sorted(Main) => Sorted(t)) /\ Meanwhile(t)
  <1>0. Main \in Trees /\ OpenBlocks(Main) \subseteq Main.blocks
    BY MainType, OpenBlocksType DEF Base
  <1>1. ASSUME NEW c \in Claims, CompileAdds(c)
        PROVE  \E t \in Trees : t.skill = Main.skill
                   /\ (Placed(Main) => Placed(t)) /\ (Sorted(Main) => Sorted(t)) /\ Meanwhile(t)
    <2>. DEFINE x == Block(c, <<>>, "first")
                cs == {x}
                home == <<Home[c], "page">>
                more == [Main EXCEPT !.blocks = @ \cup cs]
    <2>1. home \in Paths /\ [x EXCEPT !.path = home] = Block(c, home, "first")
          /\ Block(c, home, "first") \in Blocks
      BY EvolveAssumption DEF Paths, Blocks, Block, Texts
    <2>2. \A b \in Main.blocks : b \in Blocks
      BY <1>0 DEF Trees
    <2>3. Shaped(more) /\ more.skill = Main.skill /\ more.paths = Main.paths /\ more.blocks = Main.blocks \cup cs
      <3>. HIDE DEF cs
      <3>. QED
        BY <1>0 DEF Trees, Shaped
    <2>4. \A b \in more.blocks : Rehomed(b, cs, home) \in Blocks
      BY <2>1, <2>2, <2>3 DEF Rehomed
    <2>5. /\ Moved(more, cs, home) \in Trees /\ Moved(more, cs, home).skill = Main.skill
          /\ Moved(more, cs, home).paths = Main.paths \cup {home}
          /\ \A m \in Moved(more, cs, home).blocks : \E b \in more.blocks : m = Rehomed(b, cs, home)
      <3>. HIDE DEF more, x, home, cs
      <3>. QED
        BY <2>1, <2>3, <2>4, MovedFields
    <2>7. ASSUME Placed(Main) PROVE Placed(Moved(more, cs, home))
      <3>1. \A b \in more.blocks : Rehomed(b, cs, home).path \in Main.paths \cup {home}
        BY <2>1, <2>3, <2>7 DEF Placed, Rehomed, Block
      <3>. HIDE DEF more, x, home, cs
      <3>. QED
        BY <2>5, <3>1 DEF Placed
    <2>8. Meanwhile(Moved(more, cs, home)) /\ home \notin RetiredPaths(Main)
      BY <1>1 DEF CompileAdds
    <2>9. ASSUME Sorted(Main) PROVE Sorted(Moved(more, cs, home))
      <3>1. RetiredPaths(Moved(more, cs, home)) = RetiredPaths(Main)
        <4>1. \A p : home # <<p, "archive">>
          OBVIOUS
        <4>. HIDE DEF more, x, home, cs
        <4>. QED
          BY <2>5, <4>1 DEF RetiredPaths
      <3>2. \A b \in more.blocks : LET r == Rehomed(b, cs, home) IN
                r.anchor \in Pages <=> r.path \in RetiredPaths(Main)
        <4>1. \A b \in cs : LET r == Rehomed(b, cs, home) IN r.anchor \notin Pages /\ r.path = home
          BY <2>1, EvolveAssumption DEF Rehomed, Block
        <4>2. \A b \in Main.blocks \ cs : Rehomed(b, cs, home) = b
          BY DEF Rehomed
        <4>. HIDE DEF more, x, home, cs
        <4>. QED
          BY <2>3, <2>8, <2>9, <4>1, <4>2 DEF Sorted
      <3>. HIDE DEF more, x, home, cs
      <3>. QED
        BY <2>5, <3>1, <3>2 DEF Sorted
    <2>. HIDE DEF more, x, home, cs
    <2>. QED
      BY <2>5, <2>7, <2>8, <2>9
  <1>2. ASSUME NEW b \in Main.blocks, CompileEdits(b)
        PROVE  \E t \in Trees : t.skill = Main.skill
                   /\ (Placed(Main) => Placed(t)) /\ (Sorted(Main) => Sorted(t)) /\ Meanwhile(t)
    <2>. DEFINE t == [Main EXCEPT !.blocks = (@ \ {b}) \cup {[b EXCEPT !.text = "later"]}]
    <2>1. b \in Blocks
      BY <1>0 DEF Trees
    <2>2. [b EXCEPT !.text = "later"] \in Blocks /\ [b EXCEPT !.text = "later"].path = b.path
      BY <2>1 DEF Blocks, Texts
    <2>3. t \in Trees /\ t.skill = Main.skill
      BY <1>0, <2>2 DEF Trees
    <2>4. Placed(Main) => Placed(t)
      BY <1>0, <2>2 DEF Placed, Trees
    <2>5. Meanwhile(t)
      BY <1>2 DEF CompileEdits
    <2>6. Sorted(Main) => Sorted(t)
      <3>1. [b EXCEPT !.text = "later"].anchor = b.anchor
        BY <2>1 DEF Blocks
      <3>2. t.paths = Main.paths /\ t.blocks = (Main.blocks \ {b}) \cup {[b EXCEPT !.text = "later"]}
        BY <1>0 DEF Trees
      <3>. HIDE DEF t
      <3>. QED
        BY <2>2, <3>1, <3>2 DEF Sorted, RetiredPaths
    <2>. HIDE DEF t
    <2>. QED
      BY <2>3, <2>4, <2>5, <2>6
  <1>3. ASSUME NEW bs, NEW to \in Paths
        PROVE  Moved(Main, bs, to) \in Trees /\ Moved(Main, bs, to).skill = Main.skill
               /\ Moved(Main, bs, to).paths = Main.paths \cup {to}
               /\ (Placed(Main) => Placed(Moved(Main, bs, to)))
               /\ \A m \in Moved(Main, bs, to).blocks : \E b \in Main.blocks : m = Rehomed(b, bs, to)
    <2>1. \A b \in Main.blocks : /\ Rehomed(b, bs, to) \in Blocks
                                 /\ Rehomed(b, bs, to).path \in {b.path, to}
      BY <1>0 DEF Trees, Blocks, Rehomed
    <2>2. /\ Moved(Main, bs, to) \in Trees /\ Moved(Main, bs, to).skill = Main.skill
          /\ Moved(Main, bs, to).paths = Main.paths \cup {to}
          /\ \A m \in Moved(Main, bs, to).blocks : \E b \in Main.blocks : m = Rehomed(b, bs, to)
      BY <1>0, <2>1, MovedFields DEF Trees, Shaped
    <2>. QED
      BY <2>1, <2>2 DEF Placed
  <1>4. ASSUME NEW p \in Pages, Grooms(p)
        PROVE  \E t \in Trees : t.skill = Main.skill
                   /\ (Placed(Main) => Placed(t)) /\ (Sorted(Main) => Sorted(t)) /\ Meanwhile(t)
    <2>1. <<p, "volume">> \in Paths
      BY DEF Paths
    <2>. DEFINE page == {b \in OpenBlocks(Main) : b.path = <<p, "page">>}
    <2>2. PICK b \in page : Meanwhile(Moved(Main, page \ {b}, <<p, "volume">>))
      BY <1>4 DEF Grooms
    <2>. DEFINE closed == page \ {b}
                t == Moved(Main, closed, <<p, "volume">>)
    <2>3. \A x \in closed : x.path \notin RetiredPaths(Main)
      BY <1>0, OpenOnes
    <2>4. /\ t \in Trees /\ t.skill = Main.skill /\ (Placed(Main) => Placed(t))
          /\ t.paths = Main.paths \cup {<<p, "volume">>}
          /\ \A m \in t.blocks : \E x \in Main.blocks : m = Rehomed(x, closed, <<p, "volume">>)
      BY <1>3, <2>1
    <2>5. RetiredPaths(t) = RetiredPaths(Main) /\ <<p, "volume">> \notin RetiredPaths(Main)
      <3>. HIDE DEF t, closed
      <3>. QED
        BY <2>4 DEF RetiredPaths
    <2>6. Main.blocks \subseteq Blocks
      BY <1>0 DEF Trees
    <2>7. Sorted(Main) => Sorted(t)
      <3>. HIDE DEF t, closed
      <3>. QED
        BY <2>3, <2>4, <2>5, <2>6, MovedSorted
    <2>. QED
      BY <2>2, <2>4, <2>7
  <1>5. ASSUME NEW p \in Pages, Archives(p)
        PROVE  \E t \in Trees : t.skill = Main.skill
                   /\ (Placed(Main) => Placed(t)) /\ (Sorted(Main) => Sorted(t)) /\ Meanwhile(t)
    <2>. DEFINE page == {b \in OpenBlocks(Main) : b.path = <<p, "page">>}
                moved == Moved(Main, page, <<p, "archive">>)
                record == Block(p, <<p, "page">>, "record")
                t == [moved EXCEPT !.blocks = @ \cup {record}]
    <2>1. <<p, "archive">> \in Paths /\ record \in Blocks /\ record.path = <<p, "page">>
      BY DEF Paths, Blocks, Block, Texts
    <2>2. <<p, "page">> \in Main.paths
      <3>1. PICK b \in OpenBlocks(Main) : b.path = <<p, "page">>
        BY <1>5 DEF Archives
      <3>. QED
        BY <1>0, <3>1 DEF OpenBlocks, Restructurable, Sub, Trees
    <2>3. /\ moved \in Trees /\ moved.skill = Main.skill /\ (Placed(Main) => Placed(moved))
          /\ moved.paths = Main.paths \cup {<<p, "archive">>}
          /\ \A m \in moved.blocks : \E b \in Main.blocks : m = Rehomed(b, page, <<p, "archive">>)
      BY <1>3, <2>1
    <2>4. Meanwhile(t)
      BY <1>5 DEF Archives
    <2>6. \A b \in Main.blocks : b \in page => b.path \notin RetiredPaths(Main)
      BY <1>0, OpenOnes
    <2>7. \A b \in Main.blocks : b \notin page => b.path # <<p, "page">>
      <3>1. PICK o \in OpenBlocks(Main) : o.path = <<p, "page">>
        BY <1>5 DEF Archives
      <3>. QED
        BY <1>0, <3>1, OpenPage
    <2>8. record.anchor = p
      BY DEF Block
    <2>. HIDE DEF moved, record
    <2>9. t.paths = moved.paths /\ t.blocks = moved.blocks \cup {record}
      BY <2>3 DEF Trees
    <2>5. t \in Trees /\ t.skill = Main.skill /\ (Placed(Main) => Placed(t))
      <3>1. t \in Trees /\ t.skill = Main.skill
        BY <2>1, <2>3 DEF Trees
      <3>. HIDE DEF t
      <3>. QED
        BY <2>1, <2>2, <2>3, <2>9, <3>1 DEF Placed
    <2>. HIDE DEF t
    <2>10. RetiredPaths(t) = RetiredPaths(Main) \cup {<<p, "page">>}
      <3>1. \A q : <<q, "archive">> \in t.paths <=> <<q, "archive">> \in Main.paths \/ q = p
        BY <2>3, <2>9
      <3>2. \A x : x \in RetiredPaths(t) <=> x \in RetiredPaths(Main) \/ x = <<p, "page">>
        BY <3>1 DEF RetiredPaths
      <3>. QED
        BY <3>2
    <2>11. ASSUME Sorted(Main) PROVE Sorted(t)
      <3>1. ASSUME NEW m \in moved.blocks PROVE m.anchor \in Pages <=> m.path \in RetiredPaths(t)
        <4>1. PICK b \in Main.blocks : m = Rehomed(b, page, <<p, "archive">>)
          BY <2>3
        <4>2. b.anchor \in Pages <=> b.path \in RetiredPaths(Main)
          BY <2>11 DEF Sorted
        <4>3. CASE b \in page
          <5>1. m.anchor = b.anchor /\ m.path = <<p, "archive">>
            BY <1>0, <4>1, <4>3 DEF Rehomed, Trees, Blocks
          <5>2. <<p, "archive">> \notin RetiredPaths(t)
            BY DEF RetiredPaths
          <5>. QED
            BY <2>6, <4>2, <4>3, <5>1, <5>2
        <4>4. CASE b \notin page
          BY <2>7, <2>10, <4>1, <4>2, <4>4 DEF Rehomed
        <4>. QED
          BY <4>3, <4>4
      <3>. QED
        BY <2>1, <2>8, <2>9, <2>10, <3>1 DEF Sorted
    <2>. QED
      BY <2>4, <2>5, <2>11
  <1>. QED
    BY <1>1, <1>2, <1>4, <1>5 DEF OtherJobs

LEMMA StepBase == Base /\ [Next]_vars => Base'
  <1>. SUFFICES ASSUME Base, [Next]_vars PROVE Base'
    OBVIOUS
  <1>1. CASE OtherJobs
    <2>1. PICK t \in Trees : t.skill = Main.skill /\ Meanwhile(t)
      BY <1>1, OthersTree
    <2>2. t.skill \subseteq 1..Len(tasks)
      BY <2>1, MainType DEF Base, Named, Main
    <2>3. 0 \in 0..Len(tasks)
      BY DEF Base, Types
    <2>4. at = "idle" /\ history' = Append(history, [tree |-> t, task |-> 0])
          /\ UNCHANGED <<tasks, branches, checking, deciding, jobs, current, at, work>>
      BY <2>1 DEF Meanwhile, lane, Base, LaneKept
    <2>. QED
      BY <2>2, <2>3, <2>4, CommitSteps
  <1>2. CASE ClaimNext \/ Interrupted
    BY <1>2, LaneSteps DEF ClaimNext, Interrupted, Base, Types
  <1>3. CASE UNCHANGED vars
    BY <1>3 DEF vars, lane, Base, Types, Verdicts, Named, LaneKept, Drafting, Adopting, Running, Me
  <1>. QED
    BY <1>1, <1>2, <1>3, CallerSteps, BodySteps DEF Next
-----------------------------------------------------------------------------
(* Adoptions and the stores. *)

\* An adoption whose task nobody has called adopted.
Lag == \E i \in 1..Len(history) : history[i].task # 0 /\ tasks[history[i].task].status # "adopted"

\* The body that has committed its adoption has not called it so, and has brought main to the
\* stores it has passed.
Rebuilding ==
    current # 0 /\ Me.kind = "adopt" =>
        /\ at \in {"skill", "commit", "pg", "lex", "delete", "vec", "decide"} => T.status # "adopted"
        /\ at \in {"pg", "lex", "delete", "vec", "decide"} => history[Len(history)].task = Me.task
        /\ at \in {"lex", "delete", "vec", "decide"} => pg = Main.blocks
        /\ at \in {"delete", "vec", "decide"} => lex = Main.blocks
        /\ at = "decide" => vec = Main.blocks

InStep == Lag \/ (pg = Main.blocks /\ lex = Main.blocks /\ vec = Main.blocks)

LEMMA LagKept ==
  ASSUME Base, Base', Lag, 1..Len(history) \subseteq 1..Len(history'),
         \A i \in 1..Len(history) : history'[i] = history[i],
         \A t \in 1..Len(tasks) : tasks'[t].status = "adopted" => tasks[t].status = "adopted"
  PROVE  Lag'
  <1>1. PICK i \in 1..Len(history) : history[i].task # 0 /\ tasks[history[i].task].status # "adopted"
    BY DEF Lag
  <1>2. history[i].task \in 0..Len(tasks) /\ Len(tasks) \in Nat
    BY DEF Base, Named, Types
  <1>3. history[i].task \in 1..Len(tasks) /\ history'[i] = history[i] /\ i \in 1..Len(history')
    BY <1>1, <1>2
  <1>. QED
    BY <1>1, <1>3 DEF Lag

\* Main and the stores stand still.
LEMMA StoresStill ==
  ASSUME Base, Base', InStep, UNCHANGED <<history, pg, lex, vec>>,
         \A t \in 1..Len(tasks) : tasks'[t].status = "adopted" => tasks[t].status = "adopted"
  PROVE  InStep'
  <1>1. Main' = Main
    BY DEF Main
  <1>2. CASE Lag
    BY <1>2, LagKept DEF InStep
  <1>. QED
    BY <1>1, <1>2 DEF InStep

LEMMA OthersProject ==
  ASSUME Base, Base', InStep, OtherJobs
  PROVE  Rebuilding' /\ InStep'
  <1>1. PICK t \in Trees : Meanwhile(t)
    BY OthersTree
  <1>2. history' = Append(history, [tree |-> t, task |-> 0]) /\ UNCHANGED <<tasks, current>> /\ current = 0
        /\ pg' = t.blocks /\ lex' = (lex \ (pg \ t.blocks)) \cup (t.blocks \ pg)
        /\ vec' = (vec \ (pg \ t.blocks)) \cup (t.blocks \ pg)
    BY <1>1 DEF Meanwhile, lane
  <1>3. /\ \A i \in 1..Len(history) : history'[i] = history[i]
        /\ 1..Len(history') = 1..Len(history) \cup {Len(history) + 1} /\ Main' = t
    BY <1>1, <1>2, CommitTypes DEF Base
  <1>4. CASE Lag
    BY <1>2, <1>3, <1>4, LagKept DEF Rebuilding, InStep
  <1>5. CASE ~Lag
    <2>1. lex = pg /\ vec = pg
      BY <1>5 DEF InStep
    <2>2. lex' = t.blocks /\ vec' = t.blocks
      BY <1>2, <2>1
    <2>. QED
      BY <1>2, <1>3, <2>2 DEF Rebuilding, InStep
  <1>. QED
    BY <1>4, <1>5

LEMMA AdoptionProjects ==
  ASSUME Base, Base', Rebuilding, CommitAdoption
  PROVE  Rebuilding' /\ InStep'
  <1>1. /\ Me.task \in 1..Len(tasks) /\ Me.task \in Nat \ {0} /\ AdoptedTree \in Trees
        /\ history' = Append(history, [tree |-> AdoptedTree, task |-> Me.task])
    BY AdoptionTypes
  <1>2. /\ Len(history) \in Nat /\ Len(history') = Len(history) + 1
        /\ history'[Len(history) + 1] = [tree |-> AdoptedTree, task |-> Me.task]
    BY <1>1, CommitTypes DEF Base
  <1>3. at' = "pg" /\ UNCHANGED <<tasks, jobs, current>> /\ Running("adopt", "commit")
    BY DEF CommitAdoption
  <1>4. T.status # "adopted" /\ Me' = Me /\ T' = T
    BY <1>3 DEF Rebuilding, Running, Me, T
  <1>5. Lag'
    <2>1. Len(history') \in 1..Len(history') /\ history'[Len(history')].task = Me.task
      BY <1>2
    <2>. QED
      BY <1>1, <1>3, <1>4, <2>1 DEF Lag, T
  <1>. QED
    BY <1>2, <1>3, <1>4, <1>5 DEF Rebuilding, InStep

\* Callers put rows behind the current one.
LEMMA CallerKeepsMe ==
  ASSUME Base, Caller, current # 0
  PROVE  Me' = Me
  <1>0. UNCHANGED current
    BY DEF Caller, TriggerLooks, TriggerEnqueues, RequestAdopt, VerdictReads, VerdictDeletes, VerdictDecides, lane
  <1>1. CASE UNCHANGED jobs
    BY <1>0, <1>1 DEF Me
  <1>2. CASE \E r \in JobRows : jobs' = Append(jobs, r)
    <2>1. jobs \in Seq(JobRows) /\ (current # 0 => current \in 1..Len(jobs))
      BY DEF Base, Types
    <2>. QED
      BY <1>0, <1>2, <2>1, AppendProperties DEF Me
  <1>3. (UNCHANGED jobs) \/ \E r \in JobRows : jobs' = Append(jobs, r)
    <2>1. Row("evolve", 0) \in JobRows /\ \A t \in DOMAIN tasks : Row("adopt", t) \in JobRows
      BY DEF Row, JobRows, Open, Base, Types
    <2>. QED
      BY <2>1 DEF Caller, TriggerLooks, TriggerEnqueues, RequestAdopt, VerdictReads, VerdictDeletes, VerdictDecides, lane
  <1>. QED
    BY <1>1, <1>2, <1>3

LEMMA CallerProjects ==
  ASSUME Base, Base', Rebuilding, InStep, Caller
  PROVE  Rebuilding' /\ InStep'
  <1>0. UNCHANGED <<history, pg, lex, vec, current, at>>
    BY DEF Caller, TriggerLooks, TriggerEnqueues, RequestAdopt, VerdictReads, VerdictDeletes, VerdictDecides, lane, stores
  <1>1. current # 0 => Me' = Me
    BY CallerKeepsMe
  <1>2. \A t \in 1..Len(tasks) : tasks'[t].status = "adopted" => tasks[t].status = "adopted"
    <2>1. ASSUME NEW d \in deciding, VerdictDecides(d), NEW t \in 1..Len(tasks), tasks'[t].status = "adopted"
          PROVE  tasks[t].status = "adopted"
      <3>0. tasks \in Seq(TaskRows) /\ d \in Verdicts
        BY DEF Base, Types
      <3>1. d.verdict # "adopted" /\ tasks[t] \in TaskRows
        BY <3>0 DEF Verdicts
      <3>. QED
        BY <2>1, <3>0, <3>1 DEF VerdictDecides, TaskRows
    <2>2. (UNCHANGED tasks) \/ \E d \in deciding : VerdictDecides(d)
      BY DEF Caller, TriggerLooks, TriggerEnqueues, RequestAdopt, VerdictReads, VerdictDeletes
    <2>. QED
      BY <2>1, <2>2
  <1>3. InStep'
    BY <1>0, <1>2, StoresStill
  <1>4. current # 0 /\ Me.kind = "adopt" => Me.task \in 1..Len(tasks)
    BY MeType DEF Base, Named, Me
  <1>5. Main' = Main
    BY <1>0 DEF Main
  <1>6. Rebuilding'
    BY <1>0, <1>1, <1>2, <1>4, <1>5 DEF Rebuilding, T
  <1>. QED
    BY <1>3, <1>6

LEMMA StepProjects ==
  ASSUME Base, Base', Rebuilding, InStep, [Next]_vars
  PROVE  Rebuilding' /\ InStep'
  <1>1. CASE ClaimNext \/ Interrupted \/ Completes \/ AdoptRefused \/ AdoptFails
    <2>1. UNCHANGED <<history, tasks, pg, lex, vec>> /\ (current' = 0 \/ at' = "run")
      BY <1>1 DEF ClaimNext, Interrupted, Completes, AdoptRefused, AdoptFails, End, stores
    <2>. QED
      BY <2>1, StoresStill DEF Rebuilding
  <1>2. CASE EvolveEndsEmpty \/ CreateEvolveTask \/ BranchCommit
    <2>1. UNCHANGED <<history, jobs, current, pg, lex, vec>> /\ Me.kind = "evolve" /\ Me' = Me
      BY <1>2 DEF EvolveEndsEmpty, CreateEvolveTask, BranchCommit, Running, stores, Me
    <2>2. \A t \in 1..Len(tasks) : tasks'[t] = tasks[t]
      <3>1. CASE EvolveEndsEmpty \/ CreateEvolveTask
        BY <3>1, RowDrafted, TaskTypes DEF Base
      <3>2. CASE BranchCommit
        BY <3>2 DEF BranchCommit
      <3>. QED
        BY <1>2, <3>1, <3>2
    <2>. QED
      BY <2>1, <2>2, StoresStill DEF Rebuilding
  <1>3. CASE AdoptReconciles \/ ReadSkill \/ DeleteAdoptedBranch
    <2>1. UNCHANGED <<history, tasks, jobs, current, pg, lex, vec>> /\ Me' = Me /\ T' = T
      BY <1>3 DEF AdoptReconciles, ReadSkill, DeleteAdoptedBranch, stores, Me, T
    <2>2. Rebuilding'
      BY <1>3, <2>1 DEF AdoptReconciles, ReadSkill, DeleteAdoptedBranch, Rebuilding, Running
    <2>. QED
      BY <2>1, <2>2, StoresStill
  <1>4. CASE ReplaceClaims \/ IndexClaims \/ DeleteVectors \/ UpsertVectors
    <2>1. UNCHANGED <<history, tasks, jobs, current>> /\ Me' = Me /\ T' = T /\ Main' = Main
          /\ current # 0 /\ Me.kind = "adopt" /\ at \in {"pg", "lex", "delete", "vec"}
      BY <1>4 DEF ReplaceClaims, IndexClaims, DeleteVectors, UpsertVectors, Running, Me, T, Main
    <2>2. Rebuilding'
      BY <1>4, <2>1 DEF ReplaceClaims, IndexClaims, DeleteVectors, UpsertVectors, Rebuilding, Running
    <2>3. T.status # "adopted" /\ history[Len(history)].task = Me.task
      BY <2>1 DEF Rebuilding
    <2>4. Me.task \in 1..Len(tasks) /\ Len(history) \in 1..Len(history)
      BY <2>1, MeType, MainType DEF Base, Named, Me
    <2>5. Lag
      BY <2>3, <2>4 DEF Lag, T, Base, Types
    <2>. QED
      BY <2>1, <2>2, <2>5, LagKept DEF InStep
  <1>5. CASE DecideAdopted
    <2>1. UNCHANGED <<history, pg, lex, vec, current, jobs>> /\ at' = "branch" /\ Main' = Main /\ Running("adopt", "decide")
      BY <1>5 DEF DecideAdopted, stores, Main
    <2>. QED
      BY <2>1 DEF Rebuilding, InStep, Running
  <1>6. CASE UNCHANGED vars
    <2>1. UNCHANGED <<history, tasks, jobs, current, at, pg, lex, vec>> /\ Me' = Me /\ T' = T /\ Main' = Main
      BY <1>6 DEF vars, lane, stores, Me, T, Main
    <2>. QED
      BY <2>1, StoresStill DEF Rebuilding
  <1>. QED
    BY <1>1, <1>2, <1>3, <1>4, <1>5, <1>6, OthersProject, AdoptionProjects, CallerProjects DEF Next, Body
-----------------------------------------------------------------------------
(* Packs and drafts. *)

\* Main, the tasks and the branches only grow, but for statuses and branches deleted.
Grown ==
    /\ Len(history) \in Nat /\ Len(tasks) \in Nat
    /\ 1..Len(history) \subseteq 1..Len(history') /\ \A i \in 1..Len(history) : history'[i] = history[i]
    /\ 1..Len(tasks) \subseteq 1..Len(tasks')
    /\ \A t \in 1..Len(tasks) : /\ tasks'[t].base = tasks[t].base /\ tasks'[t].tree = tasks[t].tree
                                /\ tasks'[t].skill = tasks[t].skill /\ tasks'[t].agent = tasks[t].agent
                                /\ t \in branches' => t \in branches

\* What a step can add to main and to the tasks.
NewCommit ==
    \/ history' = history
    \/ /\ CommitAdoption
       /\ 1..Len(history') = 1..Len(history) \cup {Len(history) + 1}
       /\ history'[Len(history) + 1] = [tree |-> AdoptedTree, task |-> Me.task]
    \/ /\ OtherJobs /\ 1..Len(history') = 1..Len(history) \cup {Len(history) + 1}
       /\ history'[Len(history) + 1].task = 0 /\ history'[Len(history) + 1].tree.skill = Main.skill
       /\ Placed(Main) => Placed(history'[Len(history) + 1].tree)
       /\ Sorted(Main) => Sorted(history'[Len(history) + 1].tree)
NewTask ==
    \/ Len(tasks') = Len(tasks)
    \/ /\ 1..Len(tasks') = 1..Len(tasks) \cup {Len(tasks) + 1}
       /\ EmptyRow(tasks'[Len(tasks) + 1]) \/ DraftRow(tasks'[Len(tasks) + 1])

LEMMA DecidedGrows ==
  ASSUME Base, NEW k \in 1..Len(tasks), NEW st \in Statuses, tasks' = [tasks EXCEPT ![k].status = st],
         UNCHANGED <<history, branches>>
  PROVE  Grown /\ NewCommit /\ NewTask
  <1>1. tasks \in Seq(TaskRows) /\ tasks[k] \in TaskRows /\ Len(history) \in Nat
    BY DEF Base, Types
  <1>. QED
    BY <1>1 DEF Grown, NewCommit, NewTask, TaskRows

LEMMA StepGrows == Base /\ [Next]_vars => Grown /\ NewCommit /\ NewTask
  <1>. SUFFICES ASSUME Base, [Next]_vars PROVE Grown /\ NewCommit /\ NewTask
    OBVIOUS
  <1>0. Len(history) \in Nat /\ Len(tasks) \in Nat /\ tasks \in Seq(TaskRows)
    BY DEF Base, Types
  <1>1. CASE UNCHANGED <<history, tasks>> /\ branches' \subseteq branches
    BY <1>0, <1>1 DEF Grown, NewCommit, NewTask
  <1>2. CASE EvolveEndsEmpty \/ CreateEvolveTask
    <2>1. PICK r \in TaskRows : tasks' = Append(tasks, r) /\ (EmptyRow(r) \/ DraftRow(r))
      BY <1>2, RowDrafted
    <2>2. /\ Len(tasks') = Len(tasks) + 1 /\ tasks'[Len(tasks) + 1] = r
          /\ \A t \in 1..Len(tasks) : tasks'[t] = tasks[t]
          /\ 1..Len(tasks') = 1..Len(tasks) \cup {Len(tasks) + 1}
      BY <2>1, TaskTypes DEF Base
    <2>3. history' = history /\ branches' \subseteq branches \cup {Len(tasks) + 1}
      BY <1>2 DEF EvolveEndsEmpty, CreateEvolveTask
    <2>. QED
      BY <1>0, <2>1, <2>2, <2>3 DEF Grown, NewCommit, NewTask
  <1>3. CASE CommitAdoption
    <2>1. /\ AdoptedTree \in Trees /\ Me.task \in Nat
          /\ history' = Append(history, [tree |-> AdoptedTree, task |-> Me.task])
      BY <1>3, AdoptionTypes
    <2>2. /\ 1..Len(history') = 1..Len(history) \cup {Len(history) + 1}
          /\ history'[Len(history) + 1] = [tree |-> AdoptedTree, task |-> Me.task]
          /\ \A i \in 1..Len(history) : history'[i] = history[i]
      BY <2>1, CommitTypes DEF Base
    <2>3. UNCHANGED <<tasks, branches>>
      BY <1>3 DEF CommitAdoption
    <2>. QED
      BY <1>0, <1>3, <2>2, <2>3 DEF Grown, NewCommit, NewTask
  <1>4. CASE OtherJobs
    <2>1. PICK t \in Trees : /\ t.skill = Main.skill /\ (Placed(Main) => Placed(t))
                            /\ (Sorted(Main) => Sorted(t)) /\ Meanwhile(t)
      BY <1>4, OthersTree
    <2>2. history' = Append(history, [tree |-> t, task |-> 0]) /\ UNCHANGED <<tasks, branches>>
      BY <2>1 DEF Meanwhile
    <2>3. /\ 1..Len(history') = 1..Len(history) \cup {Len(history) + 1}
          /\ history'[Len(history) + 1] = [tree |-> t, task |-> 0]
          /\ \A i \in 1..Len(history) : history'[i] = history[i]
      BY <2>2, CommitTypes DEF Base
    <2>. QED
      BY <1>0, <1>4, <2>1, <2>2, <2>3 DEF Grown, NewCommit, NewTask
  <1>5. CASE DecideAdopted
    <2>1. Me.task \in 1..Len(tasks)
      BY <1>5, MeType DEF Base, DecideAdopted, Running, Named, Me
    <2>. QED
      BY <1>5, <2>1, DecidedGrows DEF DecideAdopted, Statuses
  <1>6. ASSUME NEW d \in deciding, VerdictDecides(d) PROVE Grown /\ NewCommit /\ NewTask
    <2>1. d \in Verdicts
      BY DEF Base, Types
    <2>2. d.task \in 1..Len(tasks) /\ d.verdict \in Statuses
      BY <2>1 DEF Verdicts, Statuses
    <2>. QED
      BY <1>6, <2>2, DecidedGrows DEF VerdictDecides
  <1>7. CASE ClaimNext \/ Interrupted \/ Completes \/ AdoptRefused \/ AdoptFails \/ BranchCommit
             \/ AdoptReconciles \/ ReadSkill \/ ReplaceClaims \/ IndexClaims \/ DeleteVectors
             \/ UpsertVectors \/ DeleteAdoptedBranch \/ UNCHANGED vars
    <2>1. UNCHANGED <<history, tasks>> /\ branches' \subseteq branches
      BY <1>7 DEF ClaimNext, Interrupted, Completes, AdoptRefused, AdoptFails, BranchCommit,
         AdoptReconciles, ReadSkill, ReplaceClaims, IndexClaims, DeleteVectors, UpsertVectors,
         DeleteAdoptedBranch, vars
    <2>. QED
      BY <1>1, <2>1
  <1>8. CASE Caller
    <2>1. (\E d \in deciding : VerdictDecides(d)) \/ (UNCHANGED <<history, tasks>> /\ branches' \subseteq branches)
      BY <1>8 DEF Caller, TriggerLooks, TriggerEnqueues, RequestAdopt, VerdictReads, VerdictDeletes
    <2>. QED
      BY <1>1, <1>6, <2>1
  <1>. QED
    BY <1>2, <1>3, <1>4, <1>5, <1>7, <1>8 DEF Next, Body

\* With a pack stands every pack its draft was composed on.
ClosedIn(h, k, S) == \A t \in S : h[k[t].base].tree.skill \subseteq S

PacksKept ==
    /\ \A i \in 1..Len(history) : ClosedIn(history, tasks, history[i].tree.skill)
    /\ \A t \in 1..Len(tasks) : ClosedIn(history, tasks, tasks[t].skill) /\ (t \in branches => t \in tasks[t].skill)
    /\ Running("adopt", "commit") =>
        ClosedIn(history, tasks, work.skill) /\ (Me.task \in branches => Me.task \in work.skill)

LEMMA ClosedStays ==
  ASSUME Base, Grown, NEW S \in SUBSET (1..Len(tasks)), ClosedIn(history, tasks, S)
  PROVE  ClosedIn(history', tasks', S)
  <1>1. \A t \in S : t \in 1..Len(tasks) /\ tasks[t].base \in 1..Len(history)
    BY DEF Base, Named
  <1>. QED
    BY <1>1 DEF Grown, ClosedIn

\* A body arrives at its commit by reading the manifest, or has been there.
LEMMA CommitReached ==
  ASSUME Base, [Next]_vars, Running("adopt", "commit")'
  PROVE  \/ ReadSkill
         \/ /\ Running("adopt", "commit") /\ UNCHANGED <<current, at, work>> /\ Me'.task = Me.task
            /\ UNCHANGED history
  <1>0. current' # 0 /\ at' = "commit" /\ Me'.kind = "adopt"
    BY DEF Running
  <1>1. CASE Body \/ ClaimNext \/ Interrupted
    BY <1>0, <1>1 DEF Body, ClaimNext, Interrupted, EvolveEndsEmpty, BranchCommit, CreateEvolveTask,
       Completes, AdoptRefused, AdoptFails, AdoptReconciles, CommitAdoption, ReplaceClaims,
       IndexClaims, DeleteVectors, UpsertVectors, DecideAdopted, DeleteAdoptedBranch, End
  <1>2. CASE OtherJobs
    <2>1. PICK t \in Trees : Meanwhile(t)
      BY <1>2, OthersTree
    <2>. QED
      BY <1>0, <2>1 DEF Meanwhile, lane
  <1>3. CASE UNCHANGED vars
    BY <1>0, <1>3 DEF vars, lane, Running, Me
  <1>4. CASE Caller
    <2>0. UNCHANGED <<history, current, at, work>>
      BY <1>4 DEF Caller, TriggerLooks, TriggerEnqueues, RequestAdopt, VerdictReads, VerdictDeletes, VerdictDecides, lane
    <2>1. Me' = Me
      BY <1>0, <1>4, <2>0, CallerKeepsMe
    <2>. QED
      BY <1>0, <2>0, <2>1 DEF Running
  <1>. QED
    BY <1>1, <1>2, <1>3, <1>4 DEF Next

LEMMA StepPacks ==
  ASSUME Base, Base', PacksKept, [Next]_vars
  PROVE  PacksKept'
  <1>0. Grown /\ NewCommit /\ NewTask
    BY StepGrows
  <1>1. /\ Main.skill \in SUBSET (1..Len(tasks)) /\ ClosedIn(history, tasks, Main.skill)
        /\ \A i \in 1..Len(history) : history[i].tree.skill \in SUBSET (1..Len(tasks))
        /\ \A t \in 1..Len(tasks) : tasks[t].skill \in SUBSET (1..Len(tasks))
        /\ branches \subseteq 1..Len(tasks)
    BY MainType DEF Base, Named, PacksKept, Main
  <1>2. \A i \in 1..Len(history') : ClosedIn(history', tasks', history'[i].tree.skill)
    <2>1. \A i \in 1..Len(history) : ClosedIn(history', tasks', history'[i].tree.skill)
      <3>1. \A i \in 1..Len(history) : ClosedIn(history', tasks', history[i].tree.skill)
        BY <1>0, <1>1, ClosedStays DEF PacksKept
      <3>. QED
        BY <1>0, <3>1 DEF Grown
    <2>2. CASE CommitAdoption /\ history'[Len(history) + 1] = [tree |-> AdoptedTree, task |-> Me.task]
      <3>1. history'[Len(history) + 1].tree.skill = work.skill /\ work.skill \in SUBSET (1..Len(tasks))
        BY <2>2, AdoptionTypes
      <3>2. ClosedIn(history, tasks, work.skill)
        BY <2>2 DEF CommitAdoption, PacksKept
      <3>3. ClosedIn(history', tasks', work.skill)
        BY <1>0, <3>1, <3>2, ClosedStays
      <3>. QED
        BY <1>0, <2>1, <3>1, <3>3 DEF NewCommit
    <2>3. CASE history'[Len(history) + 1].tree.skill = Main.skill
      <3>1. ClosedIn(history', tasks', Main.skill)
        BY <1>0, <1>1, ClosedStays
      <3>. QED
        BY <1>0, <2>1, <2>3, <3>1 DEF NewCommit
    <2>. QED
      BY <1>0, <2>1, <2>2, <2>3 DEF NewCommit
  <1>3. \A t \in 1..Len(tasks') : ClosedIn(history', tasks', tasks'[t].skill) /\ (t \in branches' => t \in tasks'[t].skill)
    <2>1. \A t \in 1..Len(tasks) : ClosedIn(history', tasks', tasks'[t].skill) /\ (t \in branches' => t \in tasks'[t].skill)
      <3>1. \A t \in 1..Len(tasks) : ClosedIn(history', tasks', tasks[t].skill)
        BY <1>0, <1>1, ClosedStays DEF PacksKept
      <3>. QED
        BY <1>0, <3>1 DEF Grown, PacksKept
    <2>. DEFINE n == Len(tasks) + 1
    <2>2. CASE EmptyRow(tasks'[n])
      <3>1. n \notin branches'
        BY <1>0, <1>1, <2>2 DEF EmptyRow, Grown
      <3>2. ClosedIn(history', tasks', tasks'[n].skill)
        BY <2>2 DEF EmptyRow, ClosedIn
      <3>. QED
        BY <1>0, <2>1, <3>1, <3>2 DEF NewTask
    <2>3. CASE DraftRow(tasks'[n])
      <3>1. /\ work.base \in 1..Len(history) /\ work.tree.skill = history[work.base].tree.skill
            /\ tasks'[n].base = work.base /\ tasks'[n].skill = work.tree.skill \cup {n}
        BY <2>3 DEF DraftRow, Base, Drafting
      <3>2. history'[work.base] = history[work.base]
        BY <1>0, <3>1 DEF Grown
      <3>3. ClosedIn(history', tasks', history[work.base].tree.skill)
        BY <1>0, <1>1, <3>1, ClosedStays DEF PacksKept
      <3>4. ClosedIn(history', tasks', tasks'[n].skill)
        BY <3>1, <3>2, <3>3 DEF ClosedIn
      <3>. QED
        BY <1>0, <2>1, <3>1, <3>4 DEF NewTask
    <2>. QED
      BY <1>0, <2>1, <2>2, <2>3 DEF NewTask
  <1>4. ASSUME Running("adopt", "commit")'
        PROVE  ClosedIn(history', tasks', work'.skill) /\ (Me'.task \in branches' => Me'.task \in work'.skill)
    <2>1. CASE ReadSkill
      <3>1. Me.task \in 1..Len(tasks)
        BY <2>1, MeType DEF Base, ReadSkill, Running, Named, Me
      <3>2. /\ work'.skill = IF Me.task \in branches THEN T.skill ELSE Main.skill
            /\ Me' = Me /\ UNCHANGED <<history, tasks, branches>>
        BY <2>1 DEF ReadSkill, Base, Adopting, Me
      <3>. QED
        BY <1>1, <3>1, <3>2 DEF PacksKept, T
    <2>2. CASE Running("adopt", "commit") /\ UNCHANGED <<current, at, work>> /\ Me'.task = Me.task /\ UNCHANGED history
      <3>1. work.skill \in SUBSET (1..Len(tasks)) /\ Me.task \in 1..Len(tasks)
        BY <2>2, MeType DEF Base, Adopting, Running, Named, Me
      <3>2. ClosedIn(history', tasks', work.skill)
        BY <1>0, <2>2, <3>1, ClosedStays DEF PacksKept
      <3>. QED
        BY <1>0, <2>2, <3>1, <3>2 DEF PacksKept, Grown
    <2>. QED
      BY <1>4, <2>1, <2>2, CommitReached
  <1>. QED
    BY <1>2, <1>3, <1>4 DEF PacksKept

\* The merge, of main, base and draft.
Left(main, t) == ({p \in t.paths : Shelf(p) # "archive"} \ RetiredPaths(t)) \ RetiredPaths(main)
OlderThan(main, t) == Sub(Restructurable(t), Restructurable(t).paths \ RetiredPaths(main))
Merge(main, base, draft) == Final(OlderThan(main, base), OlderThan(main, draft), LiveDocuments(main))

LEMMA MergeIsFinal ==
  Final(BaseDocs, BranchDocs, MainDocs) = Merge(Main, history[T.base].tree, T.tree)
  BY DEF BaseDocs, BranchDocs, MainDocs, Older, OlderThan, Merge

\* What is left of an older side: what neither it nor main has retired.
LEMMA OlderBlocks ==
  ASSUME NEW main, NEW t \in Trees
  PROVE  /\ OlderThan(main, t) \in Trees
         /\ OlderThan(main, t).paths = Left(main, t)
         /\ OlderThan(main, t).blocks = {b \in t.blocks : b.path \in Left(main, t)}
  <1>. DEFINE open == {p \in t.paths : Shelf(p) # "archive"} \ RetiredPaths(t)
  <1>1. open \in SUBSET Paths /\ Left(main, t) \in SUBSET Paths
    BY DEF Trees, Left
  <1>2. Restructurable(t) = Sub(t, open) /\ Restructurable(t) \in Trees
    BY LiveTypes DEF Restructurable
  <1>3. Restructurable(t).paths = open /\ Restructurable(t).blocks = {b \in t.blocks : b.path \in open}
    BY <1>1, <1>2, SubFields
  <1>4. OlderThan(main, t) = Sub(Restructurable(t), Left(main, t))
    BY <1>3 DEF OlderThan, Left
  <1>5. OlderThan(main, t).paths = Left(main, t)
        /\ OlderThan(main, t).blocks = {b \in Restructurable(t).blocks : b.path \in Left(main, t)}
    <2>. HIDE DEF open
    <2>. QED
      BY <1>1, <1>2, <1>4, SubFields
  <1>6. OlderThan(main, t) \in Trees
    <2>. HIDE DEF open
    <2>. QED
      BY <1>1, <1>2, <1>4, SubType
  <1>7. Left(main, t) \subseteq open
    BY DEF Left
  <1>. QED
    BY <1>3, <1>5, <1>6, <1>7

LEMMA LiveBlocks ==
  ASSUME NEW t \in Trees
  PROVE  LiveDocuments(t) \in Trees /\ LiveDocuments(t).blocks \subseteq t.blocks
  <1>1. {p \in t.paths : Shelf(p) # "archive"} \in SUBSET Paths
    BY DEF Trees
  <1>. QED
    BY <1>1, SubFields, LiveTypes DEF LiveDocuments

LEMMA OneText ==
  ASSUME NEW bs, Unique(bs), NEW b \in bs
  PROVE  TextOf(bs, b.anchor) = b.text
  <1>1. (CHOOSE x \in bs : x.anchor = b.anchor) = b
    BY DEF Unique
  <1>. QED
    BY <1>1 DEF TextOf

LEMMA SomeText ==
  ASSUME NEW bs, NEW a \in Anchors(bs)
  PROVE  \E x \in bs : x.anchor = a /\ TextOf(bs, a) = x.text
  <1>1. \E x \in bs : x.anchor = a
    BY DEF Anchors
  <1>. QED
    BY <1>1 DEF TextOf

\* The merge brings a claim that main changed, in main's words, when its page is not retired.
LEMMA MergeKeeps ==
  ASSUME NEW main \in Trees, NEW base \in Trees, NEW draft \in Trees,
         Placed(base), Redrawn(base, draft), Unique(main.blocks), NEW b \in LiveDocuments(main).blocks,
         \A o \in base.blocks : o.anchor = b.anchor => o.text # b.text /\ o.path \notin RetiredPaths(main)
  PROVE  \E c \in Merge(main, base, draft).blocks : c.anchor = b.anchor /\ c.text = b.text
  <1>. DEFINE B == OlderThan(main, base)
              R == OlderThan(main, draft)
              M == LiveDocuments(main)
  <1>0. /\ M.blocks \subseteq main.blocks /\ R.blocks \subseteq draft.blocks
        /\ B.blocks = {o \in base.blocks : o.path \in Left(main, base)}
        /\ R.blocks = {o \in draft.blocks : o.path \in Left(main, draft)}
    BY LiveBlocks, OlderBlocks
  <1>f. Merge(main, base, draft) = Final(B, R, M)
    BY DEF Merge
  <1>. HIDE DEF B, R, M
  <1>m. b \in M.blocks
    BY DEF M
  <1>1. Unique(M.blocks) /\ TextOf(M.blocks, b.anchor) = b.text /\ b.anchor \in Anchors(M.blocks)
    <2>1. Unique(M.blocks)
      BY <1>0 DEF Unique
    <2>. QED
      BY <1>m, <2>1, OneText DEF Anchors
  <1>2. b.anchor \in Anchors(B.blocks) => ChangedInWindow(B, M, b.anchor)
    <2>1. ASSUME b.anchor \in Anchors(B.blocks) PROVE TextOf(B.blocks, b.anchor) # b.text
      <3>1. PICK x \in B.blocks : x.anchor = b.anchor /\ TextOf(B.blocks, b.anchor) = x.text
        BY <2>1, SomeText
      <3>. QED
        BY <1>0, <3>1
    <2>. QED
      BY <1>1, <2>1 DEF ChangedInWindow
  <1>3. CASE b.anchor \notin Anchors(R.blocks)
    <2>1. b \in ToAdd(B, R, M)
      BY <1>m, <1>2, <1>3 DEF ToAdd
    <2>2. b \in Final(B, R, M).blocks
      BY <1>m, <2>1 DEF Final
    <2>. QED
      BY <1>f, <2>2
  <1>4. CASE b.anchor \in Anchors(R.blocks)
    <2>1. PICK x \in R.blocks : x.anchor = b.anchor
      BY <1>4 DEF Anchors
    <2>2. x \in draft.blocks /\ x.path \in Left(main, draft)
      BY <1>0, <2>1
    <2>3. PICK o \in base.blocks : o.anchor = x.anchor /\ (o \notin OpenBlocks(base) => x = o)
      BY <2>2 DEF Redrawn
    <2>4. o.path \notin RetiredPaths(main) /\ o.path \in base.paths
      BY <2>1, <2>3 DEF Placed
    <2>5. RetiredPaths(draft) = RetiredPaths(base)
      BY DEF Redrawn, RetiredPaths
    <2>6. Shelf(o.path) # "archive" /\ o.path \notin RetiredPaths(base)
      <3>1. CASE o \in OpenBlocks(base)
        BY <3>1, OpenOnes
      <3>2. CASE x = o
        BY <2>2, <2>5, <3>2 DEF Left
      <3>. QED
        BY <2>3, <3>1, <3>2
    <2>7. o \in B.blocks
      BY <1>0, <2>4, <2>6 DEF Left
    <2>8. x.anchor \in Anchors(B.blocks) /\ ChangedInWindow(B, M, x.anchor)
      BY <1>2, <2>1, <2>3, <2>7 DEF Anchors
    <2>. DEFINE c == [x EXCEPT !.text = TextOf(M.blocks, x.anchor)]
    <2>9. c \in Surviving(B, R, M)
      BY <2>1, <2>8 DEF Surviving
    <2>10. c.anchor = b.anchor /\ c.text = b.text
      BY <1>1, <2>1, <2>2 DEF Trees, Blocks
    <2>11. c \in Final(B, R, M).blocks
      BY <2>9 DEF Final
    <2>. QED
      BY <1>f, <2>10, <2>11
  <1>. QED
    BY <1>3, <1>4

\* What is merged stands on pages that are merged.
LEMMA MergePlaced ==
  ASSUME NEW main \in Trees, NEW base, NEW draft \in Trees
  PROVE  Placed(Merge(main, base, draft))
  <1>. DEFINE B == OlderThan(main, base)
              R == OlderThan(main, draft)
              M == LiveDocuments(main)
  <1>0. R.blocks = {o \in draft.blocks : o.path \in Left(main, draft)} /\ R.paths = Left(main, draft)
        /\ R.blocks \subseteq Blocks
    BY OlderBlocks DEF Trees
  <1>f. Merge(main, base, draft) = Final(B, R, M)
    BY DEF Merge
  <1>. HIDE DEF B, R, M
  <1>1. \A x \in Surviving(B, R, M) : x.path \in R.paths
    <2>1. \A x \in R.blocks : \A y : [x EXCEPT !.text = y].path = x.path
      BY <1>0 DEF Blocks
    <2>. QED
      BY <1>0, <2>1 DEF Surviving
  <1>. QED
    BY <1>1, <1>f DEF Final, Placed

\* A merged block is one of main, or stands where the draft has its anchor.
LEMMA MergeSources ==
  ASSUME NEW main \in Trees, NEW base, NEW draft \in Trees, NEW f \in Merge(main, base, draft).blocks
  PROVE  \/ f \in main.blocks
         \/ \E d \in draft.blocks : d.path \in Left(main, draft) /\ f.path = d.path /\ f.anchor = d.anchor
  <1>. DEFINE B == OlderThan(main, base)
              R == OlderThan(main, draft)
              M == LiveDocuments(main)
  <1>0. R.blocks = {o \in draft.blocks : o.path \in Left(main, draft)} /\ R.blocks \subseteq Blocks
        /\ M.blocks \subseteq main.blocks
    BY OlderBlocks, LiveBlocks DEF Trees
  <1>f. Merge(main, base, draft) = Final(B, R, M)
    BY DEF Merge
  <1>. HIDE DEF B, R, M
  <1>1. ASSUME f \in Surviving(B, R, M)
        PROVE  \E d \in R.blocks : f.path = d.path /\ f.anchor = d.anchor
    <2>1. PICK d \in R.blocks : f = d \/ f = [d EXCEPT !.text = TextOf(M.blocks, d.anchor)]
      BY <1>1 DEF Surviving
    <2>2. PICK y : f = d \/ f = [d EXCEPT !.text = y]
      BY <2>1
    <2>3. d \in Blocks
      BY <1>0
    <2>4. f.path = d.path /\ f.anchor = d.anchor
      BY <2>2, <2>3 DEF Blocks
    <2>. QED
      BY <2>4
  <1>2. f \in Surviving(B, R, M) \/ f \in M.blocks
    BY <1>f DEF Final, ToAdd
  <1>. QED
    BY <1>0, <1>1, <1>2

LEMMA MergePaths ==
  ASSUME NEW main \in Trees, NEW base, NEW draft \in Trees
  PROVE  /\ Left(main, draft) \subseteq Merge(main, base, draft).paths
         /\ \A q \in Merge(main, base, draft).paths : Shelf(q) # "archive"
         /\ LiveDocuments(main).paths = {q \in main.paths : Shelf(q) # "archive"}
  <1>. DEFINE B == OlderThan(main, base)
              R == OlderThan(main, draft)
              M == LiveDocuments(main)
              live == {q \in main.paths : Shelf(q) # "archive"}
  <1>0. R.paths = Left(main, draft) /\ \A q \in R.paths : Shelf(q) # "archive"
    BY OlderBlocks DEF Left
  <1>f. Merge(main, base, draft) = Final(B, R, M)
    BY DEF Merge
  <1>1. live \in SUBSET Paths /\ M = Sub(main, live)
    BY DEF LiveDocuments, Trees
  <1>2. M.paths = live /\ M.blocks = {b \in main.blocks : b.path \in live}
    <2>. HIDE DEF M, live
    <2>. QED
      BY <1>1, SubFields
  <1>3. \A b \in M.blocks : Shelf(b.path) # "archive"
    BY <1>2
  <1>. HIDE DEF B, R, M
  <1>4. Final(B, R, M).paths = R.paths \cup ({b.path : b \in ToAdd(B, R, M)} \ R.paths)
        /\ ToAdd(B, R, M) \subseteq M.blocks
    BY DEF Final, ToAdd
  <1>5. \A q \in Final(B, R, M).paths : Shelf(q) # "archive"
    BY <1>0, <1>3, <1>4
  <1>. QED
    BY <1>0, <1>2, <1>4, <1>5, <1>f DEF M

\* The block of the base that a draft's open block redraws was open there.
LEMMA DrawnFrom ==
  ASSUME NEW base \in Trees, NEW draft \in Trees, Redrawn(base, draft), NEW main,
         NEW d \in draft.blocks, d.path \in Left(main, draft)
  PROVE  \E o \in base.blocks : /\ o.anchor = d.anchor /\ Shelf(o.path) # "archive"
                                /\ o.path \notin RetiredPaths(base)
  <1>1. PICK o \in base.blocks : o.anchor = d.anchor /\ (o \notin OpenBlocks(base) => d = o)
    BY DEF Redrawn
  <1>2. RetiredPaths(draft) = RetiredPaths(base)
    BY DEF Redrawn, RetiredPaths
  <1>3. Shelf(o.path) # "archive" /\ o.path \notin RetiredPaths(base)
    <2>1. CASE o \in OpenBlocks(base)
      BY <2>1, OpenOnes
    <2>2. CASE d = o
      BY <1>2, <2>2 DEF Left
    <2>. QED
      BY <1>1, <2>1, <2>2
  <1>. QED
    BY <1>1, <1>3

LEMMA MergeSorted ==
  ASSUME NEW main \in Trees, NEW base, NEW draft \in Trees, Sorted(main), Sorted(draft),
         NEW f \in Merge(main, base, draft).blocks
  PROVE  f.anchor \in Pages <=> f.path \in RetiredPaths(main)
  <1>1. CASE f \in main.blocks
    BY <1>1 DEF Sorted
  <1>2. ASSUME NEW d \in draft.blocks, d.path \in Left(main, draft), f.path = d.path, f.anchor = d.anchor
        PROVE  f.anchor \notin Pages /\ f.path \notin RetiredPaths(main)
    BY <1>2 DEF Sorted, Left
  <1>. QED
    BY <1>1, <1>2, MergeSources

\* What an adoption takes off main: nothing, or what an agent's draft has merged away.
Removed(main, final, agent) == IF agent THEN LiveDocuments(main).paths \ final.paths ELSE {}

\* A claim of main that stays where it is was not merged in elsewhere.
LEMMA MergeApart ==
  ASSUME NEW main \in Trees, NEW base \in Trees, NEW draft \in Trees, NEW agent, NEW removes,
         Placed(main), Placed(base), Sorted(main), Sorted(base), Redrawn(base, draft),
         agent \/ base.paths \subseteq draft.paths, agent => removes, Unique(main.blocks),
         \A o \in base.blocks, d \in draft.blocks, m \in main.blocks :
            o.anchor = m.anchor /\ d.anchor = m.anchor => m.path \in {o.path, d.path},
         NEW f \in Merge(main, base, draft).blocks, NEW m \in main.blocks, f.anchor = m.anchor,
         m.path \notin Merge(main, base, draft).paths \cup Removed(main, Merge(main, base, draft), removes)
  PROVE  f = m
  <1>. DEFINE final == Merge(main, base, draft)
  <1>0. /\ Left(main, draft) \subseteq final.paths /\ Placed(final)
        /\ LiveDocuments(main).paths = {q \in main.paths : Shelf(q) # "archive"}
    BY MergePaths, MergePlaced
  <1>. HIDE DEF final
  <1>m. m.path \in main.paths /\ m.path \notin final.paths /\ m.path \notin Removed(main, final, removes)
        /\ f \in final.blocks
    BY DEF Placed, final
  <1>1. CASE f \in main.blocks
    BY <1>1 DEF Unique
  <1>2. ASSUME NEW d \in draft.blocks, d.path \in Left(main, draft), f.path = d.path, f.anchor = d.anchor
        PROVE  FALSE
    <2>1. PICK o \in base.blocks : /\ o.anchor = d.anchor /\ Shelf(o.path) # "archive"
                                   /\ o.path \notin RetiredPaths(base)
      BY <1>2, DrawnFrom
    <2>2. m.path = o.path
      <3>1. m.path \in {o.path, d.path}
        BY <1>2, <2>1
      <3>. QED
        BY <1>0, <1>2, <1>m, <3>1
    <2>3. m.path \notin RetiredPaths(main)
      <3>1. o.anchor \notin Pages
        BY <2>1 DEF Sorted
      <3>2. m.anchor = o.anchor
        BY <1>2, <2>1
      <3>. QED
        BY <3>1, <3>2 DEF Sorted
    <2>4. CASE removes
      BY <1>0, <1>m, <2>1, <2>2, <2>4 DEF Removed
    <2>5. CASE ~removes
      <3>1. o.path \in draft.paths
        BY <2>5 DEF Placed
      <3>2. RetiredPaths(draft) = RetiredPaths(base)
        BY DEF Redrawn, RetiredPaths
      <3>3. o.path \in Left(main, draft)
        BY <2>1, <2>2, <2>3, <3>1, <3>2 DEF Left
      <3>. QED
        BY <1>0, <1>m, <2>2, <3>3
    <2>. QED
      BY <2>4, <2>5
  <1>3. f \in Merge(main, base, draft).blocks
    OBVIOUS
  <1>. QED
    BY <1>1, <1>2, <1>3, MergeSources
-----------------------------------------------------------------------------
(* Drafts and what they are adopted into. *)

InHand == current # 0 /\ at \in {"skill", "commit"} /\ Me.kind = "adopt"

\* A draft redraws its base, trees are placed, and the merge an adoption has in hand is that
\* of main as it still is.
DraftsKept ==
    /\ history[1].task = 0
    /\ \A i \in 1..Len(history) : Placed(history[i].tree)
    /\ \A t \in 1..Len(tasks) : Redrawn(history[tasks[t].base].tree, tasks[t].tree)
    /\ Running("evolve", "task") => Redrawn(history[work.base].tree, work.tree)
    /\ InHand => work.tree = Merge(Main, history[T.base].tree, T.tree)

KeptFresh(before, base, after) ==
    Unique(before.blocks) =>
        \A b \in LiveDocuments(before).blocks :
            (\A o \in base.blocks : o.anchor = b.anchor =>
                o.text # b.text /\ o.path \notin RetiredPaths(before)) =>
                    \E c \in after.blocks : c.anchor = b.anchor /\ c.text = b.text

LEMMA FreshByIndex ==
  FreshWorkKept <=> \A i \in Adoptions :
      KeptFresh(history[i - 1].tree, history[tasks[history[i].task].base].tree, history[i].tree)
  BY DEF FreshWorkKept, KeptFresh, BaseOf

LEMMA TreeTypes ==
  ASSUME Base
  PROVE  /\ Main \in Trees /\ Placed(Main) <=> Placed(history[Len(history)].tree)
         /\ \A i \in 1..Len(history) : history[i].tree \in Trees
         /\ \A t \in 1..Len(tasks) : tasks[t].tree \in Trees /\ tasks[t].base \in 1..Len(history)
  <1>1. history \in Seq(Commits) /\ tasks \in Seq(TaskRows)
    BY DEF Base, Types
  <1>2. \A i \in 1..Len(history) : history[i] \in Commits
    BY <1>1
  <1>3. \A t \in 1..Len(tasks) : tasks[t] \in TaskRows
    BY <1>1
  <1>. QED
    BY <1>2, <1>3, MainType DEF Base, Named, Main, Commits, TaskRows

LEMMA AdoptionKeeps ==
  ASSUME Base, DraftsKept, CommitAdoption
  PROVE  KeptFresh(Main, history[T.base].tree, AdoptedTree) /\ Placed(AdoptedTree)
  <1>. DEFINE removals == IF work.agent THEN MainDocs.paths \ work.tree.paths ELSE {}
  <1>0. Running("adopt", "commit")
    BY DEF CommitAdoption
  <1>1. Me.task \in 1..Len(tasks)
    BY <1>0, MeType DEF Base, Running, Named, Me
  <1>2. /\ Main \in Trees /\ Placed(Main) /\ history[T.base].tree \in Trees /\ T.tree \in Trees
        /\ Placed(history[T.base].tree) /\ Redrawn(history[T.base].tree, T.tree)
    BY <1>1, TreeTypes, MainType DEF DraftsKept, T, Base
  <1>3. work.tree = Merge(Main, history[T.base].tree, T.tree)
    BY <1>0 DEF DraftsKept, InHand, Running
  <1>4. AdoptedTree = Adopted(Main, work.tree, removals, work.skill)
    BY DEF AdoptedTree
  <1>. HIDE DEF removals
  <1>5. /\ AdoptedTree.paths = (Main.paths \ removals) \cup work.tree.paths
        /\ AdoptedTree.blocks = {b \in Main.blocks : b.path \notin work.tree.paths \cup removals}
                                \cup work.tree.blocks
    BY <1>4 DEF Adopted
  <1>6. Placed(work.tree)
    BY <1>2, <1>3, MergePlaced
  <1>7. Placed(AdoptedTree)
    BY <1>2, <1>5, <1>6 DEF Placed
  <1>8. ASSUME Unique(Main.blocks), NEW b \in LiveDocuments(Main).blocks,
               \A o \in history[T.base].tree.blocks : o.anchor = b.anchor =>
                  o.text # b.text /\ o.path \notin RetiredPaths(Main)
        PROVE  \E c \in AdoptedTree.blocks : c.anchor = b.anchor /\ c.text = b.text
    <2>1. \E c \in work.tree.blocks : c.anchor = b.anchor /\ c.text = b.text
      BY <1>2, <1>3, <1>8, MergeKeeps
    <2>. QED
      BY <1>5, <2>1
  <1>. QED
    BY <1>7, <1>8 DEF KeptFresh

\* A merge comes into a body's hand when it is made, and stays as it is.
LEMMA HandReached ==
  ASSUME Base, [Next]_vars, InHand'
  PROVE  \/ AdoptReconciles
         \/ InHand /\ work'.tree = work.tree /\ Me'.task = Me.task /\ UNCHANGED history
  <1>0. current' # 0 /\ at' \in {"skill", "commit"} /\ Me'.kind = "adopt"
    BY DEF InHand
  <1>1. CASE ReadSkill
    BY <1>1 DEF ReadSkill, Base, Adopting, Running, InHand, Me
  <1>2. CASE (Body /\ ~AdoptReconciles /\ ~ReadSkill) \/ ClaimNext \/ Interrupted
    BY <1>0, <1>2 DEF Body, ClaimNext, Interrupted, EvolveEndsEmpty, BranchCommit, CreateEvolveTask,
       Completes, AdoptRefused, AdoptFails, CommitAdoption, ReplaceClaims,
       IndexClaims, DeleteVectors, UpsertVectors, DecideAdopted, DeleteAdoptedBranch, End
  <1>3. CASE OtherJobs
    <2>1. PICK t \in Trees : Meanwhile(t)
      BY <1>3, OthersTree
    <2>. QED
      BY <1>0, <2>1 DEF Meanwhile, lane
  <1>4. CASE UNCHANGED vars
    BY <1>0, <1>4 DEF vars, lane, InHand, Me
  <1>5. CASE Caller
    <2>0. UNCHANGED <<history, current, at, work>>
      BY <1>5 DEF Caller, TriggerLooks, TriggerEnqueues, RequestAdopt, VerdictReads, VerdictDeletes, VerdictDecides, lane
    <2>1. Me' = Me
      BY <1>0, <1>5, <2>0, CallerKeepsMe
    <2>. QED
      BY <1>0, <2>0, <2>1 DEF InHand
  <1>. QED
    BY <1>1, <1>2, <1>3, <1>4, <1>5 DEF Next

LEMMA DraftReached ==
  ASSUME Base, [Next]_vars, Running("evolve", "task")'
  PROVE  BranchCommit \/ (Running("evolve", "task") /\ UNCHANGED <<work, history>>)
  <1>0. current' # 0 /\ at' = "task" /\ Me'.kind = "evolve"
    BY DEF Running
  <1>1. CASE (Body /\ ~BranchCommit) \/ ClaimNext \/ Interrupted
    BY <1>0, <1>1 DEF Body, ClaimNext, Interrupted, EvolveEndsEmpty, CreateEvolveTask,
       Completes, AdoptRefused, AdoptFails, AdoptReconciles, ReadSkill, CommitAdoption, ReplaceClaims,
       IndexClaims, DeleteVectors, UpsertVectors, DecideAdopted, DeleteAdoptedBranch, End
  <1>2. CASE OtherJobs
    <2>1. PICK t \in Trees : Meanwhile(t)
      BY <1>2, OthersTree
    <2>. QED
      BY <1>0, <2>1 DEF Meanwhile, lane
  <1>3. CASE UNCHANGED vars
    BY <1>0, <1>3 DEF vars, lane, Running, Me
  <1>4. CASE Caller
    <2>0. UNCHANGED <<history, current, at, work>>
      BY <1>4 DEF Caller, TriggerLooks, TriggerEnqueues, RequestAdopt, VerdictReads, VerdictDeletes, VerdictDecides, lane
    <2>1. Me' = Me
      BY <1>0, <1>4, <2>0, CallerKeepsMe
    <2>. QED
      BY <1>0, <2>0, <2>1 DEF Running
  <1>. QED
    BY <1>1, <1>2, <1>3, <1>4 DEF Next

LEMMA StepDrafts ==
  ASSUME Base, Base', DraftsKept, [Next]_vars
  PROVE  DraftsKept'
  <1>0. Grown /\ NewCommit /\ NewTask
    BY StepGrows
  <1>1. /\ Main \in Trees /\ Placed(Main) /\ 1 \in 1..Len(history)
        /\ \A t \in 1..Len(tasks) : tasks[t].base \in 1..Len(history)
    BY TreeTypes, MainType DEF Base, DraftsKept
  <1>2. history'[1].task = 0
    BY <1>0, <1>1 DEF Grown, DraftsKept
  <1>3. \A i \in 1..Len(history') : Placed(history'[i].tree)
    <2>1. \A i \in 1..Len(history) : Placed(history'[i].tree)
      BY <1>0 DEF Grown, DraftsKept
    <2>2. CASE CommitAdoption /\ history'[Len(history) + 1] = [tree |-> AdoptedTree, task |-> Me.task]
      <3>1. Placed(history'[Len(history) + 1].tree)
        BY <2>2, AdoptionKeeps
      <3>. QED
        BY <1>0, <2>1, <3>1 DEF NewCommit
    <2>. QED
      BY <1>0, <1>1, <2>1, <2>2 DEF NewCommit, DraftsKept
  <1>4. \A t \in 1..Len(tasks') : Redrawn(history'[tasks'[t].base].tree, tasks'[t].tree)
    <2>1. \A t \in 1..Len(tasks) : Redrawn(history'[tasks'[t].base].tree, tasks'[t].tree)
      BY <1>0, <1>1 DEF Grown, DraftsKept
    <2>. DEFINE n == Len(tasks) + 1
    <2>2. CASE EmptyRow(tasks'[n])
      <3>1. Len(history) \in 1..Len(history) /\ tasks'[n].base = Len(history) /\ tasks'[n].tree = Main
        BY <2>2, MainType DEF EmptyRow, Base
      <3>2. history'[tasks'[n].base].tree = Main
        BY <1>0, <3>1 DEF Grown, Main
      <3>3. Redrawn(Main, Main)
        BY DEF Redrawn
      <3>. QED
        BY <1>0, <2>1, <3>1, <3>2, <3>3 DEF NewTask
    <2>3. CASE DraftRow(tasks'[n])
      <3>1. /\ work.base \in 1..Len(history) /\ Redrawn(history[work.base].tree, work.tree)
            /\ tasks'[n].base = work.base /\ tasks'[n].tree = work.tree
        BY <2>3 DEF DraftRow, Base, Drafting, DraftsKept
      <3>2. history'[tasks'[n].base] = history[work.base]
        BY <1>0, <3>1 DEF Grown
      <3>. QED
        BY <1>0, <2>1, <3>1, <3>2 DEF NewTask
    <2>. QED
      BY <1>0, <2>1, <2>2, <2>3 DEF NewTask
  <1>5. ASSUME Running("evolve", "task")'
        PROVE  Redrawn(history'[work'.base].tree, work'.tree)
    <2>1. CASE BranchCommit
      <3>0. PICK agent \in BOOLEAN : \E t \in Reorganized(Main, agent) :
                 work' = [Idle EXCEPT !.base = Len(history), !.tree = t, !.agent = agent]
        BY <2>1 DEF BranchCommit
      <3>1. PICK t \in Reorganized(Main, agent) :
                 work' = [Idle EXCEPT !.base = Len(history), !.tree = t, !.agent = agent]
        BY <3>0
      <3>2. work'.base = Len(history) /\ work'.tree = t
        BY <3>1 DEF Idle
      <3>3. Redrawn(Main, t) /\ history' = history
        BY <1>1, <2>1, <3>1, ReorganizedType DEF BranchCommit
      <3>. QED
        BY <3>2, <3>3 DEF Main
    <2>. QED
      BY <1>5, <2>1, DraftReached DEF DraftsKept
  <1>6. ASSUME InHand'
        PROVE  work'.tree = Merge(Main', history'[T'.base].tree, T'.tree)
    <2>1. CASE AdoptReconciles
      <3>1. /\ work' = [Idle EXCEPT !.task = Me.task, !.tree = Final(BaseDocs, BranchDocs, MainDocs)]
            /\ UNCHANGED <<history, tasks, jobs, current>>
        BY <2>1 DEF AdoptReconciles
      <3>2. work'.tree = Merge(Main, history[T.base].tree, T.tree)
        BY <3>1, MergeIsFinal DEF Idle
      <3>3. Main' = Main /\ T' = T
        BY <3>1 DEF Main, T, Me
      <3>. QED
        BY <3>1, <3>2, <3>3
    <2>2. CASE InHand /\ work'.tree = work.tree /\ Me'.task = Me.task /\ UNCHANGED history
      <3>1. Me.task \in 1..Len(tasks)
        BY <2>2, MeType DEF Base, InHand, Named, Me
      <3>2. T'.base = T.base /\ T'.tree = T.tree /\ Main' = Main
        BY <1>0, <2>2, <3>1 DEF Grown, T, Main
      <3>3. work.tree = Merge(Main, history[T.base].tree, T.tree)
        BY <2>2 DEF DraftsKept
      <3>. QED
        BY <2>2, <3>2, <3>3
    <2>. QED
      BY <1>6, <2>1, <2>2, HandReached
  <1>. QED
    BY <1>2, <1>3, <1>4, <1>5, <1>6 DEF DraftsKept

\* Trees are sorted, only an agent's draft gives up a page of its base, and a merge in hand
\* has passed its own check.
Gives(base, tree, agent) == Sorted(tree) /\ (agent \/ base.paths \subseteq tree.paths)

SortedKept ==
    /\ \A i \in 1..Len(history) : Sorted(history[i].tree)
    /\ \A t \in 1..Len(tasks) : Gives(history[tasks[t].base].tree, tasks[t].tree, tasks[t].agent)
    /\ Running("evolve", "task") => Gives(history[work.base].tree, work.tree, work.agent)
    /\ InHand => Unique(work.tree.blocks)

\* The trees an adoption is made of.
LEMMA AdoptionParts ==
  ASSUME Base, DraftsKept, SortedKept, CommitAdoption
  PROVE  LET base == history[T.base].tree
             final == Merge(Main, base, T.tree)
             removals == Removed(Main, final, work.agent)
         IN /\ Main \in Trees /\ base \in Trees /\ T.tree \in Trees /\ Me.task \in 1..Len(tasks)
            /\ Placed(Main) /\ Placed(base) /\ Sorted(Main) /\ Sorted(base) /\ Sorted(T.tree)
            /\ Redrawn(base, T.tree) /\ (T.agent \/ base.paths \subseteq T.tree.paths)
            /\ Unique(final.blocks)
            /\ AdoptedTree.paths = (Main.paths \ removals) \cup final.paths
            /\ AdoptedTree.blocks = {b \in Main.blocks : b.path \notin final.paths \cup removals} \cup final.blocks
  <1>0. Running("adopt", "commit")
    BY DEF CommitAdoption
  <1>1. Me.task \in 1..Len(tasks) /\ Len(history) \in 1..Len(history)
    BY <1>0, MeType, MainType DEF Base, Running, Named, Me
  <1>2. T.base \in 1..Len(history)
    BY <1>1, TreeTypes DEF T
  <1>3. /\ Main \in Trees /\ history[T.base].tree \in Trees /\ T.tree \in Trees
        /\ Placed(Main) /\ Placed(history[T.base].tree) /\ Redrawn(history[T.base].tree, T.tree)
    BY <1>1, <1>2, TreeTypes, MainType DEF DraftsKept, T, Base
  <1>4. /\ Sorted(Main) /\ Sorted(history[T.base].tree) /\ Sorted(T.tree)
        /\ (T.agent \/ history[T.base].tree.paths \subseteq T.tree.paths)
    BY <1>1, <1>2 DEF SortedKept, Gives, Main, T
  <1>5. work.tree = Merge(Main, history[T.base].tree, T.tree) /\ Unique(work.tree.blocks)
    BY <1>0 DEF DraftsKept, SortedKept, InHand, Running
  <1>6. AdoptedTree = Adopted(Main, work.tree, Removed(Main, work.tree, work.agent), work.skill)
    BY DEF AdoptedTree, Removed, MainDocs
  <1>7. /\ AdoptedTree.paths = (Main.paths \ Removed(Main, work.tree, work.agent)) \cup work.tree.paths
        /\ AdoptedTree.blocks = {b \in Main.blocks : b.path \notin work.tree.paths \cup Removed(Main, work.tree, work.agent)}
                                \cup work.tree.blocks
    BY <1>6 DEF Adopted
  <1>. QED
    BY <1>1, <1>3, <1>4, <1>5, <1>7

\* An adoption leaves records and claims sorted: what is archived is none of its business.
LEMMA AdoptionSorted ==
  ASSUME Base, DraftsKept, SortedKept, CommitAdoption
  PROVE  Sorted(AdoptedTree)
  <1>. DEFINE base == history[T.base].tree
              final == Merge(Main, base, T.tree)
              removals == Removed(Main, final, work.agent)
  <1>1. /\ Main \in Trees /\ base \in Trees /\ T.tree \in Trees /\ Sorted(Main) /\ Sorted(T.tree)
        /\ AdoptedTree.paths = (Main.paths \ removals) \cup final.paths
        /\ AdoptedTree.blocks = {b \in Main.blocks : b.path \notin final.paths \cup removals} \cup final.blocks
    BY AdoptionParts
  <1>2. /\ \A q \in final.paths : Shelf(q) # "archive"
        /\ LiveDocuments(Main).paths = {q \in Main.paths : Shelf(q) # "archive"}
    BY <1>1, MergePaths
  <1>3. \A f \in final.blocks : f.anchor \in Pages <=> f.path \in RetiredPaths(Main)
    BY <1>1, MergeSorted
  <1>. HIDE DEF final
  <1>4. \A q \in removals : Shelf(q) # "archive"
    BY <1>2 DEF Removed
  <1>. HIDE DEF removals
  <1>5. RetiredPaths(AdoptedTree) = RetiredPaths(Main)
    <2>1. \A p : <<p, "archive">> \in AdoptedTree.paths <=> <<p, "archive">> \in Main.paths
      <3>1. \A p : Shelf(<<p, "archive">>) = "archive"
        BY DEF Shelf
      <3>. QED
        BY <1>1, <1>2, <1>4, <3>1
    <2>. QED
      BY <2>1 DEF RetiredPaths
  <1>. QED
    BY <1>1, <1>3, <1>5 DEF Sorted

\* An adoption leaves each anchor in one place, where nothing had moved.
LEMMA AdoptionUnique ==
  ASSUME Base, DraftsKept, SortedKept, CommitAdoption,
         InPlace(Me.task), Unique(Main.blocks), T.agent => work.agent
  PROVE  Unique(AdoptedTree.blocks)
  <1>. DEFINE base == history[T.base].tree
              final == Merge(Main, base, T.tree)
              removals == Removed(Main, final, work.agent)
              stays == {b \in Main.blocks : b.path \notin final.paths \cup removals}
  <1>1. /\ Main \in Trees /\ base \in Trees /\ T.tree \in Trees
        /\ Placed(Main) /\ Placed(base) /\ Sorted(Main) /\ Sorted(base) /\ Redrawn(base, T.tree)
        /\ (T.agent \/ base.paths \subseteq T.tree.paths) /\ Unique(final.blocks)
        /\ AdoptedTree.blocks = stays \cup final.blocks
    BY AdoptionParts
  <1>2. \A o \in base.blocks, d \in T.tree.blocks, m \in Main.blocks :
            o.anchor = m.anchor /\ d.anchor = m.anchor => m.path \in {o.path, d.path}
    BY DEF InPlace, T
  <1>3. \A f \in final.blocks, m \in stays : f.anchor = m.anchor => f = m
    <2>1. ASSUME NEW f \in final.blocks, NEW m \in stays, f.anchor = m.anchor PROVE f = m
      <3>1. m \in Main.blocks /\ m.path \notin final.paths \cup removals
        OBVIOUS
      <3>. HIDE DEF base
      <3>. QED
        BY <1>1, <1>2, <2>1, <3>1, MergeApart
    <2>. QED
      BY <2>1
  <1>4. Unique(stays)
    BY DEF Unique
  <1>. HIDE DEF final, stays
  <1>. QED
    BY <1>1, <1>3, <1>4 DEF Unique

LEMMA StepSorted ==
  ASSUME Base, Base', DraftsKept, SortedKept, [Next]_vars
  PROVE  SortedKept'
  <1>0. Grown /\ NewCommit /\ NewTask
    BY StepGrows
  <1>1. /\ Main \in Trees /\ Sorted(Main) /\ Len(history) \in 1..Len(history)
        /\ \A t \in 1..Len(tasks) : tasks[t].base \in 1..Len(history)
    BY TreeTypes, MainType DEF Base, SortedKept, Main
  <1>2. \A i \in 1..Len(history') : Sorted(history'[i].tree)
    <2>1. \A i \in 1..Len(history) : Sorted(history'[i].tree)
      BY <1>0 DEF Grown, SortedKept
    <2>2. CASE CommitAdoption /\ history'[Len(history) + 1] = [tree |-> AdoptedTree, task |-> Me.task]
      <3>1. Sorted(history'[Len(history) + 1].tree)
        BY <2>2, AdoptionSorted
      <3>. QED
        BY <1>0, <2>1, <3>1 DEF NewCommit
    <2>. QED
      BY <1>0, <1>1, <2>1, <2>2 DEF NewCommit, SortedKept
  <1>3. \A t \in 1..Len(tasks') : Gives(history'[tasks'[t].base].tree, tasks'[t].tree, tasks'[t].agent)
    <2>1. \A t \in 1..Len(tasks) : Gives(history'[tasks'[t].base].tree, tasks'[t].tree, tasks'[t].agent)
      BY <1>0, <1>1 DEF Grown, SortedKept
    <2>. DEFINE n == Len(tasks) + 1
    <2>2. CASE EmptyRow(tasks'[n])
      <3>1. tasks'[n].base = Len(history) /\ tasks'[n].tree = Main
        BY <2>2 DEF EmptyRow
      <3>2. history'[tasks'[n].base].tree = Main
        BY <1>0, <1>1, <3>1 DEF Grown, Main
      <3>. QED
        BY <1>0, <1>1, <2>1, <3>1, <3>2 DEF NewTask, Gives
    <2>3. CASE DraftRow(tasks'[n])
      <3>1. /\ work.base \in 1..Len(history) /\ Gives(history[work.base].tree, work.tree, work.agent)
            /\ tasks'[n].base = work.base /\ tasks'[n].tree = work.tree /\ tasks'[n].agent = work.agent
        BY <2>3 DEF DraftRow, Base, Drafting, SortedKept
      <3>2. history'[tasks'[n].base] = history[work.base]
        BY <1>0, <3>1 DEF Grown
      <3>. QED
        BY <1>0, <2>1, <3>1, <3>2 DEF NewTask
    <2>. QED
      BY <1>0, <2>1, <2>2, <2>3 DEF NewTask
  <1>4. ASSUME Running("evolve", "task")'
        PROVE  Gives(history'[work'.base].tree, work'.tree, work'.agent)
    <2>1. CASE BranchCommit
      <3>0. PICK agent \in BOOLEAN : \E t \in Reorganized(Main, agent) :
                 work' = [Idle EXCEPT !.base = Len(history), !.tree = t, !.agent = agent]
        BY <2>1 DEF BranchCommit
      <3>1. PICK t \in Reorganized(Main, agent) :
                 work' = [Idle EXCEPT !.base = Len(history), !.tree = t, !.agent = agent]
        BY <3>0
      <3>2. work'.base = Len(history) /\ work'.tree = t /\ work'.agent = agent
        BY <3>1 DEF Idle
      <3>3. Gives(Main, t, agent) /\ history' = history
        BY <1>1, <2>1, <3>1, ReorganizedType DEF BranchCommit, Gives
      <3>. QED
        BY <3>2, <3>3 DEF Main
    <2>. QED
      BY <1>4, <2>1, DraftReached DEF SortedKept
  <1>5. ASSUME InHand'
        PROVE  Unique(work'.tree.blocks)
    <2>1. CASE AdoptReconciles
      <3>1. work'.tree = Final(BaseDocs, BranchDocs, MainDocs)
        BY <2>1 DEF AdoptReconciles, Idle
      <3>. QED
        BY <2>1, <3>1 DEF AdoptReconciles, Reconciles
    <2>. QED
      BY <1>5, <2>1, HandReached DEF SortedKept
  <1>. QED
    BY <1>2, <1>3, <1>4, <1>5 DEF SortedKept

LEMMA StepFresh ==
  ASSUME Base, Base', DraftsKept, FreshWorkKept, [Next]_vars
  PROVE  FreshWorkKept'
  <1>0. Grown /\ NewCommit /\ NewTask
    BY StepGrows
  <1>. DEFINE Fresh(h, k, i) == KeptFresh(h[i - 1].tree, h[k[h[i].task].base].tree, h[i].tree)
  <1>1. \A i \in Adoptions : Fresh(history, tasks, i)
    BY FreshByIndex
  <1>2. \A i \in Adoptions : /\ i \in 1..Len(history) /\ i - 1 \in 1..Len(history)
                             /\ history[i].task \in 1..Len(tasks)
                             /\ tasks[history[i].task].base \in 1..Len(history)
    <2>1. DOMAIN history = 1..Len(history) /\ Len(history) \in Nat /\ Len(tasks) \in Nat
      BY DEF Base, Types
    <2>. QED
      BY <2>1 DEF Adoptions, Base, Named, DraftsKept
  <1>3. DOMAIN history' = 1..Len(history')
    BY DEF Base, Types
  <1>4. ASSUME NEW i \in 1..Len(history'), history'[i].task # 0
        PROVE  Fresh(history', tasks', i)
    <2>1. CASE i \in 1..Len(history)
      <3>1. i \in Adoptions
        BY <1>0, <1>4, <2>1 DEF Grown, Adoptions, Base, Types
      <3>2. /\ history'[i] = history[i] /\ history'[i - 1] = history[i - 1]
            /\ tasks'[history[i].task].base = tasks[history[i].task].base
            /\ history'[tasks[history[i].task].base] = history[tasks[history[i].task].base]
        BY <1>0, <1>2, <3>1 DEF Grown
      <3>3. Fresh(history, tasks, i)
        BY <1>1, <3>1
      <3>. QED
        BY <3>2, <3>3
    <2>2. CASE i = Len(history) + 1 /\ CommitAdoption /\ history'[i] = [tree |-> AdoptedTree, task |-> Me.task]
      <3>1. /\ Len(history) \in Nat /\ Len(history) \in 1..Len(history)
            /\ Me.task \in 1..Len(tasks) /\ T.base \in 1..Len(history)
        BY <2>2, AdoptionTypes, MainType, TreeTypes DEF Base, T
      <3>2. /\ history'[i].task = Me.task /\ history'[i].tree = AdoptedTree
            /\ i - 1 = Len(history) /\ history'[Len(history)] = history[Len(history)]
            /\ tasks'[Me.task].base = T.base /\ history'[T.base] = history[T.base]
        BY <1>0, <2>2, <3>1 DEF Grown, T
      <3>3. KeptFresh(Main, history[T.base].tree, AdoptedTree)
        BY <2>2, AdoptionKeeps
      <3>. QED
        BY <3>2, <3>3 DEF Main
    <2>. QED
      BY <1>0, <1>4, <2>1, <2>2 DEF NewCommit
  <1>5. FreshWorkKept' <=> \A i \in Adoptions' : Fresh(history', tasks', i)
    BY DEF FreshWorkKept, KeptFresh, BaseOf
  <1>6. \A i \in Adoptions' : i \in 1..Len(history') /\ history'[i].task # 0
    BY <1>3 DEF Adoptions
  <1>. QED
    BY <1>4, <1>5, <1>6
-----------------------------------------------------------------------------
(* The theorems. *)

EvolveInv == Base /\ Rebuilding /\ InStep /\ PacksKept /\ DraftsKept /\ SortedKept /\ FreshWorkKept

LEMMA InitInv == Init => EvolveInv
  <1>. SUFFICES ASSUME Init PROVE EvolveInv
    OBVIOUS
  <1>0. Base
    BY InitBase
  <1>1. Len(history) = 1 /\ history[1] = [tree |-> Start, task |-> 0] /\ Main = Start /\ DOMAIN history = 1..1
    BY DEF Init, Main
  <1>2. current = 0 /\ tasks = <<>> /\ pg = Start.blocks /\ lex = Start.blocks /\ vec = Start.blocks
    BY DEF Init
  <1>3. Rebuilding /\ InStep
    BY <1>1, <1>2 DEF Rebuilding, InStep
  <1>4. PacksKept
    <2>1. Start.skill = {} /\ Len(tasks) = 0
      BY <1>2 DEF Start
    <2>. QED
      BY <1>1, <1>2, <2>1 DEF PacksKept, ClosedIn, Running
  <1>5. DraftsKept
    <2>1. Placed(Start)
      BY DEF Placed, Start, Block
    <2>2. Len(tasks) = 0
      BY <1>2
    <2>. QED
      BY <1>1, <1>2, <2>1, <2>2 DEF DraftsKept, Running, InHand
  <1>6. FreshWorkKept
    BY <1>1 DEF FreshWorkKept, Adoptions
  <1>7. SortedKept
    <2>1. Sorted(Start)
      <3>1. RetiredPaths(Start) = {}
        <4>1. \A p : <<p, "archive">> \notin Start.paths
          BY DEF Start
        <4>. QED
          BY <4>1 DEF RetiredPaths
      <3>2. \A b \in Start.blocks : b.anchor \notin Pages
        BY EvolveAssumption DEF Start, Block
      <3>. QED
        BY <3>1, <3>2 DEF Sorted
    <2>2. Len(tasks) = 0
      BY <1>2
    <2>. QED
      BY <1>1, <1>2, <2>1, <2>2 DEF SortedKept, Running, InHand
  <1>. QED
    BY <1>0, <1>3, <1>4, <1>5, <1>6, <1>7 DEF EvolveInv

LEMMA StepInv == EvolveInv /\ [Next]_vars => EvolveInv'
  <1>. SUFFICES ASSUME EvolveInv, [Next]_vars PROVE EvolveInv'
    OBVIOUS
  <1>1. Base'
    BY StepBase DEF EvolveInv
  <1>2. Rebuilding' /\ InStep'
    BY <1>1, StepProjects DEF EvolveInv
  <1>3. PacksKept'
    BY <1>1, StepPacks DEF EvolveInv
  <1>4. DraftsKept'
    BY <1>1, StepDrafts DEF EvolveInv
  <1>5. FreshWorkKept'
    BY <1>1, StepFresh DEF EvolveInv
  <1>6. SortedKept'
    BY <1>1, StepSorted DEF EvolveInv
  <1>. QED
    BY <1>1, <1>2, <1>3, <1>4, <1>5, <1>6 DEF EvolveInv

LEMMA Invariant == Spec => []EvolveInv
  BY InitInv, StepInv, PTL DEF Spec

LEMMA TypesFollow == Base => TypeOK
  <1>. SUFFICES ASSUME Base PROVE TypeOK
    OBVIOUS
  <1>. DEFINE Here == [tree : [paths : SUBSET Paths, skill : SUBSET (DOMAIN tasks),
                               blocks : SUBSET [anchor : Claims \cup Pages, path : Paths, text : Texts]],
                       task : 0..Len(tasks)]
  <1>1. /\ history \in Seq(Commits) /\ tasks \in Seq(TaskRows) /\ jobs \in Seq(JobRows)
        /\ DOMAIN tasks = 1..Len(tasks) /\ DOMAIN jobs = 1..Len(jobs)
    BY DEF Base, Types
  <1>2. history \in Seq(Here)
    <2>1. \A i \in 1..Len(history) : history[i] \in Commits /\ history[i].task \in 0..Len(tasks)
                                     /\ history[i].tree.skill \in SUBSET (DOMAIN tasks)
      BY <1>1 DEF Base, Named
    <2>2. \A i \in 1..Len(history) : history[i] \in Here
      BY <2>1 DEF Commits, Trees, Blocks
    <2>. HIDE DEF Here
    <2>. QED
      BY <1>1, <2>2
  <1>3. \A t \in DOMAIN tasks : tasks[t].status \in {"draft", "no_change", "adopted", "dropped", "expired"}
    <2>1. \A t \in DOMAIN tasks : tasks[t] \in TaskRows
      BY <1>1
    <2>. QED
      BY <2>1 DEF TaskRows, Statuses
  <1>4. branches \subseteq {t \in DOMAIN tasks : tasks[t].status # "no_change"} /\ checking \subseteq Callers
    BY <1>1 DEF Base, Named, Types
  <1>5. /\ current # 0 <=> \E j \in DOMAIN jobs : jobs[j].status = "claimed"
        /\ \A j \in DOMAIN jobs : jobs[j].status = "claimed" => j = current
    BY <1>1 DEF Base, Types, LaneKept
  <1>. QED
    BY <1>2, <1>3, <1>4, <1>5 DEF TypeOK

\* Everything is of its type, commits and rows name tasks that exist, and the canonical lane
\* has at most one claimed row, the one at work.
THEOREM EvolveTypes == Spec => []TypeOK
  <1>1. EvolveInv => TypeOK
    BY TypesFollow DEF EvolveInv
  <1>. QED
    BY <1>1, Invariant, PTL

\* evolve_service.py reconcile_adopt: what main changed or added under review is there after
\* the adoption, in main's words, where the merge can know of it.
THEOREM FreshWorkSurvives == Spec => []FreshWorkKept
  <1>1. EvolveInv => FreshWorkKept
    BY DEF EvolveInv
  <1>. QED
    BY <1>1, Invariant, PTL

\* evolve_service.py adopt_evolve_job, _read_main_skill: with a pack stand the packs its draft
\* was composed on.
THEOREM PacksStandTogether == Spec => []AdoptedSkillsStay
  <1>1. ASSUME EvolveInv PROVE AdoptedSkillsStay
    <2>1. DOMAIN history = 1..Len(history)
      BY <1>1 DEF EvolveInv, Base, Types
    <2>. QED
      BY <1>1, <2>1 DEF EvolveInv, PacksKept, ClosedIn, AdoptedSkillsStay
  <1>. QED
    BY <1>1, Invariant, PTL

\* adopt_evolve_job: the manifest goes to main with the data, in the same commit.
THEOREM SkillGoesWithData == Spec => SkillFlipsWithData
  <1>1. ASSUME EvolveInv, [Next]_vars, NEW i \in DOMAIN history' \ DOMAIN history, history'[i].task \in branches
        PROVE  history'[i].task \in history'[i].tree.skill
    <2>1. Grown /\ NewCommit /\ Base /\ Base'
      BY <1>1, StepGrows, StepBase DEF EvolveInv
    <2>2. DOMAIN history = 1..Len(history) /\ DOMAIN history' = 1..Len(history')
      BY <2>1 DEF Base, Types
    <2>3. CASE CommitAdoption /\ i = Len(history) + 1 /\ history'[i] = [tree |-> AdoptedTree, task |-> Me.task]
      <3>1. AdoptedTree.skill = work.skill /\ Running("adopt", "commit")
        BY <2>1, <2>3, AdoptionTypes DEF CommitAdoption
      <3>. QED
        BY <1>1, <2>3, <3>1 DEF EvolveInv, PacksKept
    <2>4. 0 \notin branches
      BY <2>1 DEF Base, Named
    <2>. QED
      BY <1>1, <2>1, <2>2, <2>3, <2>4 DEF NewCommit
  <1>2. EvolveInv /\ [Next]_vars =>
            [\A i \in DOMAIN history' \ DOMAIN history :
                history'[i].task \in branches => history'[i].task \in history'[i].tree.skill]_history
    BY <1>1
  <1>. QED
    BY <1>2, Invariant, PTL DEF Spec, SkillFlipsWithData

\* evolve_service.py adopt_evolve_job commits without the compile gate: the merge leaves each
\* anchor in one place, where no groom, archive or other adoption had moved a claim.
THEOREM AnchorsStayUnique == Spec => CompiledAnchorsStayUnique
  <1>. DEFINE Asked(i) == LET t == history'[i].task IN
                  t # 0 /\ InPlace(t) /\ Unique(Main.blocks) /\ (tasks[t].agent => work.agent)
  <1>1. ASSUME EvolveInv, [Next]_vars, NEW i \in DOMAIN history' \ DOMAIN history, Asked(i)
        PROVE  Unique(history'[i].tree.blocks)
    <2>1. Grown /\ NewCommit /\ Base /\ Base'
      BY <1>1, StepGrows, StepBase DEF EvolveInv
    <2>2. DOMAIN history = 1..Len(history) /\ DOMAIN history' = 1..Len(history')
      BY <2>1 DEF Base, Types
    <2>3. CASE CommitAdoption /\ i = Len(history) + 1 /\ history'[i] = [tree |-> AdoptedTree, task |-> Me.task]
      <3>1. InPlace(Me.task) /\ Unique(Main.blocks) /\ (T.agent => work.agent)
        BY <1>1, <2>3 DEF T
      <3>. QED
        BY <1>1, <2>3, <3>1, AdoptionUnique DEF EvolveInv
    <2>. QED
      BY <1>1, <2>1, <2>2, <2>3 DEF NewCommit
  <1>2. EvolveInv /\ [Next]_vars =>
            [\A i \in DOMAIN history' \ DOMAIN history :
                LET t == history'[i].task IN
                (t # 0 /\ InPlace(t) /\ Unique(Main.blocks) /\ (tasks[t].agent => work.agent))
                    => Unique(history'[i].tree.blocks)]_history
    BY <1>1
  <1>. QED
    BY <1>2, Invariant, PTL DEF Spec, CompiledAnchorsStayUnique

\* rebuild_projection: what counts as adopted, once the lane and the verdicts are at rest, is
\* main in every store.
THEOREM AdoptedIsProjected == Spec => []AdoptionsAreProjected
  <1>1. ASSUME EvolveInv PROVE AdoptionsAreProjected
    <2>1. DOMAIN history = 1..Len(history)
      BY <1>1 DEF EvolveInv, Base, Types
    <2>2. ASSUME \A i \in Adoptions : tasks[history[i].task].status = "adopted" PROVE ~Lag
      BY <2>1, <2>2 DEF Adoptions, Lag
    <2>. QED
      BY <1>1, <2>2 DEF EvolveInv, InStep, AdoptionsAreProjected
  <1>. QED
    BY <1>1, Invariant, PTL
=============================================================================
