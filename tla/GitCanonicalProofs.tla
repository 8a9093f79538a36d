------------------------- MODULE GitCanonicalProofs -------------------------
(***************************************************************************)
(* What the repository keeps for every set of paths, pages, writers and    *)
(* calls, through failures, deaths and hand edits at any step.  The        *)
(* inductive invariant IInv adds to type correctness where a body stands:  *)
(* its plan lies inside its footprint, its claim is on disk, a recovery    *)
(* has a dead claimant, and what is not declared is as committed.          *)
(***************************************************************************)
EXTENDS GitCanonical, TLAPS

Recovering == {"reset", "checkout", "unlink", "verify"}
Working    == {"preflight", "applying", "undoing"}

OpDeclared(c, op) ==
    /\ op.do \in {"rm", "mv"} => op.at \in Footprint(c)
    /\ op.do = "mv" => op.from \in Footprint(c)
    /\ op.do \in {"write", "add"} => op.at \in DOMAIN c.files

PlanDeclared ==
    run # None => /\ \A op \in run.todo : OpDeclared(run.call, op)
                  /\ \A op \in run.did : OpDeclared(run.call, op) /\ op.do \in {"rm", "mv", "write"}

ClaimHeld == run # None /\ run.at # "claiming" => claim = ClaimOf(run.by, run.call)

RecoveryLicensed == run # None /\ run.at \in Recovering => ProvablyGone(run.prev)

TreeDeclared ==
    run # None =>
        /\ run.at \in Recovering => \A p \in Path \ run.prev.paths : Untouched(p)
        /\ run.at \in Working => \A p \in Path \ Footprint(run.call) : Untouched(p)

IInv == TypeOK /\ PlanDeclared /\ ClaimHeld /\ RecoveryLicensed /\ TreeDeclared

USE NamesAssumption, MarksAssumption

-----------------------------------------------------------------------------
(* The calls *)

LEMMA FootprintType ==
    ASSUME NEW c \in Call
    PROVE  /\ Footprint(c) \subseteq Path
           /\ DOMAIN c.files \subseteq Footprint(c)
           /\ c.removals \subseteq Footprint(c)
           /\ \A m \in c.moves : m.to \in Footprint(c) /\ m.from \in Footprint(c)
           /\ \A p \in DOMAIN c.files : c.files[p] \in Content
BY CallsAssumption DEF Footprint, Moved, Content

LEMMA InitInv == Init => IInv
BY DEF Init, IInv, TypeOK, Content, AnyClaim, PlanDeclared, ClaimHeld, RecoveryLicensed,
       TreeDeclared

\* A step that moves the call on, its plan, claim and predecessor as they were.
LEMMA BecomeType ==
    ASSUME TypeOK, NEW phase \in Phases, run # None, Become(phase)
    PROVE  /\ run' \in Runs /\ run' # None /\ run'.at = phase
           /\ run'.by = run.by /\ run'.call = run.call /\ run'.prev = run.prev
           /\ run'.todo = run.todo /\ run'.did = run.did
BY DEF TypeOK, Become, Runs

-----------------------------------------------------------------------------
(* The claim and the look at the tree *)

LEMMA BeginInv == ASSUME IInv, NEW w \in Writer, NEW c \in Call, Begin(w, c) PROVE IInv'
<1>1. run' \in Runs /\ run'.at = "claiming" /\ run'.todo = {} /\ run'.did = {}
  BY DEF Begin, IInv, TypeOK, Runs, Phases
<1> QED
  BY <1>1 DEF Begin, tree, IInv, TypeOK, PlanDeclared, ClaimHeld, RecoveryLicensed, TreeDeclared,
              Recovering, Working

LEMMA WriteMarkerInv == ASSUME IInv, WriteMarker PROVE IInv'
<1>1. run \in Runs /\ run # None
  BY DEF WriteMarker, At, IInv, TypeOK
<1>2. CASE claim' = ClaimOf(run.by, run.call) /\ Become("looking")
  <2>1. /\ run' \in Runs /\ run' # None /\ run'.at = "looking"
        /\ run'.by = run.by /\ run'.call = run.call /\ run'.todo = run.todo /\ run'.did = run.did
    BY <1>1, <1>2, BecomeType DEF IInv, Phases
  <2>2. claim' \in AnyClaim
    BY <1>1, <1>2, FootprintType DEF ClaimOf, AnyClaim, Claims, Runs
  <2> QED
    BY <1>1, <1>2, <2>1, <2>2 DEF WriteMarker, tree, IInv, TypeOK, PlanDeclared, ClaimHeld,
       RecoveryLicensed, TreeDeclared, Recovering, Working
<1>3. CASE claim' \in {claim, Torn} /\ run' = None
  BY <1>3 DEF WriteMarker, tree, IInv, TypeOK, AnyClaim, PlanDeclared, ClaimHeld,
       RecoveryLicensed, TreeDeclared
<1> QED BY <1>2, <1>3 DEF WriteMarker

\* A body is entered with the tree as committed but for hand edits.
LEMMA EnterBodyInv ==
    ASSUME IInv, run # None, run.at # "claiming", EnterBody, UNCHANGED <<tree, claim>>,
           \A p \in Path : Untouched(p)
    PROVE  IInv'
<1>1. run \in Runs /\ run.call \in Call
  BY DEF IInv, TypeOK, Runs
<1>2. PlainPatch(run.call) \subseteq Ops /\ \A op \in PlainPatch(run.call) : OpDeclared(run.call, op)
  BY <1>1, FootprintType DEF PlainPatch, Ops, Op, OpDeclared
<1>3. /\ run' \in Runs /\ run' # None /\ run'.at \in {"clearing", "preflight", "applying"}
      /\ run'.by = run.by /\ run'.call = run.call /\ run'.did = run.did
      /\ run'.todo \in {run.todo, PlainPatch(run.call)}
  BY <1>1, <1>2 DEF EnterBody, Runs, Phases
<1>4. \A p \in Path : Untouched(p)'
  BY DEF tree, Untouched
<1> QED
  BY <1>1, <1>2, <1>3, <1>4 DEF tree, IInv, TypeOK, PlanDeclared, ClaimHeld, RecoveryLicensed,
     TreeDeclared, Recovering

LEMMA CleanIsUntouched == ASSUME NEW p \in Path, ~Dirty(p) PROVE Untouched(p)
BY DEF Dirty, Untouched

LEMMA LookCleanInv == ASSUME IInv, LookClean PROVE IInv'
<1>1. \A p \in Path : Untouched(p)
  BY CleanIsUntouched DEF LookClean, DirtyPaths
<1> QED BY <1>1, EnterBodyInv DEF LookClean, At

\* A step that only moves the call on to its end.
LEMMA EndInv ==
    ASSUME IInv, run # None, run.at # "claiming", Become("clearing"), claim' = claim,
           head' \in [Path -> Content], index' \in [Path -> Content], work' \in [Path -> Content]
    PROVE  IInv'
<1>1. /\ run' \in Runs /\ run' # None /\ run'.at = "clearing"
      /\ run'.by = run.by /\ run'.call = run.call /\ run'.todo = run.todo /\ run'.did = run.did
  BY BecomeType DEF IInv, Phases
<1> QED
  BY <1>1 DEF IInv, TypeOK, PlanDeclared, ClaimHeld, RecoveryLicensed, TreeDeclared, Recovering,
              Working

LEMMA LookRecoverInv == ASSUME IInv, LookRecover PROVE IInv'
<1>1. /\ run' \in Runs /\ run' # None /\ run'.at = "reset" /\ run'.prev = run.prev
      /\ run'.by = run.by /\ run'.call = run.call /\ run'.todo = run.todo /\ run'.did = run.did
  BY BecomeType DEF LookRecover, At, IInv, Phases
<1>2. ProvablyGone(run.prev) /\ \A p \in Path \ run.prev.paths : Untouched(p)
  BY CleanIsUntouched DEF LookRecover, MayRecover, DirtyPaths
<1> QED
  BY <1>1, <1>2 DEF LookRecover, At, tree, Untouched, IInv, TypeOK, PlanDeclared, ClaimHeld,
     RecoveryLicensed, TreeDeclared, Working

LEMMA LookRefuseInv == ASSUME IInv, LookRefuse PROVE IInv'
BY EndInv DEF LookRefuse, At, tree, IInv, TypeOK

-----------------------------------------------------------------------------
(* The recovery *)

LEMMA FromHeadType ==
    ASSUME TypeOK, NEW ps, NEW f \in [Path -> Content] PROVE FromHead(f, ps) \in [Path -> Content]
BY DEF FromHead, TypeOK

LEMMA WithoutType ==
    ASSUME NEW ps, NEW f \in [Path -> Content] PROVE Without(f, ps) \in [Path -> Content]
BY DEF Without, Content

\* A recovery step that goes on to the next.
LEMMA RecoverInv ==
    ASSUME IInv, run # None, run.at \in Recovering, NEW next \in Recovering, Become(next),
           head' = head, claim' = claim,
           index' \in [Path -> Content], work' \in [Path -> Content],
           \A p \in Path \ run.prev.paths : index'[p] = index[p] /\ work'[p] = work[p]
    PROVE  IInv'
<1>1. /\ run' \in Runs /\ run' # None /\ run'.at = next /\ run'.prev = run.prev
      /\ run'.by = run.by /\ run'.call = run.call /\ run'.todo = run.todo /\ run'.did = run.did
  BY BecomeType DEF IInv, Phases, Recovering
<1>2. \A p \in Path \ run.prev.paths : Untouched(p)'
  BY DEF IInv, TreeDeclared, Untouched
<1> QED
  BY <1>1, <1>2 DEF IInv, TypeOK, PlanDeclared, ClaimHeld, RecoveryLicensed, TreeDeclared,
                    Recovering, Working

LEMMA RecoverResetInv == ASSUME IInv, RecoverReset PROVE IInv'
<1>1. CASE index' = FromHead(index, run.prev.paths) /\ Become("checkout")
  <2>1. index' \in [Path -> Content]
    BY <1>1, FromHeadType DEF IInv, TypeOK
  <2>2. \A p \in Path \ run.prev.paths : index'[p] = index[p]
    BY <1>1 DEF FromHead
  <2> QED BY <1>1, <2>1, <2>2, RecoverInv DEF RecoverReset, At, Recovering, IInv, TypeOK
<1>2. CASE index' = index /\ Become("clearing")
  BY <1>2, EndInv DEF RecoverReset, At, IInv, TypeOK
<1> QED BY <1>1, <1>2 DEF RecoverReset

LEMMA RecoverCheckoutInv == ASSUME IInv, RecoverCheckout PROVE IInv'
<1> DEFINE kept == InHead(run.prev.paths)
<1>1. CASE index' = FromHead(index, kept) /\ work' = FromHead(work, kept) /\ Become("unlink")
  <2>1. index' \in [Path -> Content] /\ work' \in [Path -> Content]
    BY <1>1, FromHeadType DEF IInv, TypeOK
  <2>2. \A p \in Path \ run.prev.paths : index'[p] = index[p] /\ work'[p] = work[p]
    BY <1>1 DEF FromHead, InHead
  <2> QED BY <1>1, <2>1, <2>2, RecoverInv DEF RecoverCheckout, At, Recovering
<1>2. CASE UNCHANGED <<index, work>> /\ Become("clearing")
  BY <1>2, EndInv DEF RecoverCheckout, At, IInv, TypeOK
<1> QED BY <1>1, <1>2 DEF RecoverCheckout

LEMMA RecoverUnlinkInv == ASSUME IInv, RecoverUnlink PROVE IInv'
<1>1. PICK gone \in SUBSET (run.prev.paths \ InHead(run.prev.paths)) : work' = Without(work, gone)
  BY DEF RecoverUnlink
<1>2. work' \in [Path -> Content]
  BY <1>1, WithoutType DEF IInv, TypeOK
<1>3. \A p \in Path \ run.prev.paths : work'[p] = work[p]
  BY <1>1 DEF Without
<1> QED BY <1>2, <1>3, RecoverInv DEF RecoverUnlink, At, Recovering, IInv, TypeOK

LEMMA RecoverVerifyInv == ASSUME IInv, RecoverVerify PROVE IInv'
<1>1. CASE DirtyPaths \cap run.prev.paths = {} /\ EnterBody
  <2>1. \A p \in Path : Untouched(p)
    BY <1>1, CleanIsUntouched DEF RecoverVerify, At, DirtyPaths, IInv, TreeDeclared, Recovering
  <2> QED BY <1>1, <2>1, EnterBodyInv DEF RecoverVerify, At
<1>2. CASE Become("clearing")
  BY <1>2, EndInv DEF RecoverVerify, At, tree, IInv, TypeOK
<1> QED BY <1>1, <1>2 DEF RecoverVerify

-----------------------------------------------------------------------------
(* The bodies and their rollback *)

LEMMA PreflightInv == ASSUME IInv, Preflight PROVE IInv'
<1>1. run \in Runs /\ run # None /\ run.call \in Call
  BY DEF Preflight, At, IInv, TypeOK, Runs
<1>2. RemovalsOf(run.call) \subseteq Footprint(run.call)
  BY <1>1, FootprintType DEF RemovalsOf
<1>3. /\ Transaction(run.call) \subseteq Ops
      /\ \A op \in Transaction(run.call) : OpDeclared(run.call, op)
  BY <1>1, <1>2, FootprintType DEF Transaction, Ops, Op, OpDeclared
<1>4. /\ run' \in Runs /\ run' # None /\ run'.at \in {"applying", "clearing"}
      /\ run'.by = run.by /\ run'.call = run.call /\ run'.did = run.did
      /\ run'.todo \in {run.todo, Transaction(run.call)}
  BY <1>1, <1>3 DEF Preflight, Runs, Phases
<1> QED
  BY <1>1, <1>3, <1>4 DEF Preflight, At, tree, Untouched, IInv, TypeOK, PlanDeclared, ClaimHeld,
     RecoveryLicensed, TreeDeclared, Recovering, Working

\* A step of a body or of its rollback: what it changes, and what is left of its plan, is
\* the call's own.
LEMMA BodyInv ==
    ASSUME IInv, At("applying") \/ At("undoing"), NEW phase \in {"applying", "undoing"},
           NEW todo \in SUBSET Ops, NEW did \in SUBSET Ops,
           run' = [run EXCEPT !.at = phase, !.todo = todo, !.did = did],
           \A op \in todo : OpDeclared(run.call, op),
           \A op \in did : OpDeclared(run.call, op) /\ op.do \in {"rm", "mv", "write"},
           head' = head, claim' = claim,
           index' \in [Path -> Content], work' \in [Path -> Content],
           \A p \in Path \ Footprint(run.call) : index'[p] = index[p] /\ work'[p] = work[p]
    PROVE  IInv'
<1>1. /\ run' \in Runs /\ run' # None /\ run'.at = phase /\ run'.prev = run.prev
      /\ run'.by = run.by /\ run'.call = run.call /\ run'.todo = todo /\ run'.did = did
  BY DEF IInv, TypeOK, Runs, Phases, At
<1>2. \A p \in Path \ Footprint(run.call) : Untouched(p)'
  BY DEF IInv, TreeDeclared, Untouched, Working, At
<1> QED
  BY <1>1, <1>2 DEF IInv, TypeOK, PlanDeclared, ClaimHeld, RecoveryLicensed, TreeDeclared,
                    Recovering, Working, At

\* An operation of the plan and where it reaches.
LEMMA OpReach ==
    ASSUME IInv, run # None, NEW op \in run.todo
    PROVE  /\ run \in Runs /\ run.call \in Call /\ op \in Ops /\ OpDeclared(run.call, op)
           /\ op.do \in {"rm", "mv", "write", "add"} => op.at \in Footprint(run.call) /\ op.at \in Path
           /\ op.do = "mv" => op.from \in Footprint(run.call) /\ op.from \in Path
           /\ run.todo \ {op} \in SUBSET Ops /\ run.did \cup {op} \in SUBSET Ops
<1>1. run \in Runs /\ run.call \in Call /\ op \in Ops /\ OpDeclared(run.call, op)
  BY DEF IInv, TypeOK, Runs, PlanDeclared
<1> QED BY <1>1, FootprintType DEF OpDeclared, Runs

LEMMA RemoveInv == ASSUME IInv, NEW op \in run.todo, Remove(op) PROVE IInv'
<1> USE OpReach DEF Remove, At
<1>1. run' = [run EXCEPT !.at = "applying", !.todo = run.todo \ {op}, !.did = run.did \cup {op}]
  BY DEF Runs
<1>2. index' \in [Path -> Content] /\ work' \in [Path -> Content]
  BY WithoutType DEF IInv, TypeOK
<1>3. \A p \in Path \ Footprint(run.call) : index'[p] = index[p] /\ work'[p] = work[p]
  BY DEF Without
<1>4. /\ \A o \in run.todo \ {op} : OpDeclared(run.call, o)
      /\ \A o \in run.did \cup {op} : OpDeclared(run.call, o) /\ o.do \in {"rm", "mv", "write"}
  BY DEF IInv, PlanDeclared
<1>7. run.todo \ {op} \in SUBSET Ops /\ run.did \cup {op} \in SUBSET Ops /\ run.did \in SUBSET Ops
  BY DEF Runs
<1>8. head' = head /\ claim' = claim /\ IInv /\ At("applying")
  OBVIOUS
<1> HIDE OpReach DEF Remove, At
<1> QED BY <1>7, <1>8, <1>1, <1>2, <1>3, <1>4, BodyInv

LEMMA RenamedType ==
    ASSUME NEW f \in [Path -> Content], NEW from \in Path, NEW to \in Path
    PROVE  /\ Renamed(f, from, to) \in [Path -> Content]
           /\ \A p \in Path \ {from, to} : Renamed(f, from, to)[p] = f[p]
BY DEF Renamed, Content

LEMMA RenameInv == ASSUME IInv, NEW op \in run.todo, Rename(op) PROVE IInv'
<1> USE OpReach DEF Rename, At
<1>1. run' = [run EXCEPT !.at = "applying", !.todo = run.todo \ {op}, !.did = run.did \cup {op}]
  BY DEF Runs
<1>2. index \in [Path -> Content] /\ work \in [Path -> Content]
  BY DEF IInv, TypeOK
<1>3. /\ index' \in [Path -> Content] /\ work' \in [Path -> Content]
      /\ \A p \in Path \ Footprint(run.call) : index'[p] = index[p] /\ work'[p] = work[p]
  <2>1. /\ op.at \in Footprint(run.call) /\ op.at \in Path
        /\ op.from \in Footprint(run.call) /\ op.from \in Path
    OBVIOUS
  <2>2. index' = Renamed(index, op.from, op.at) /\ work' = Renamed(work, op.from, op.at)
    OBVIOUS
  <2> HIDE OpReach DEF Rename, At
  <2>3. /\ index' \in [Path -> Content]
        /\ \A p \in Path \ {op.from, op.at} : index'[p] = index[p]
    BY <1>2, <2>1, <2>2, RenamedType
  <2>4. /\ work' \in [Path -> Content]
        /\ \A p \in Path \ {op.from, op.at} : work'[p] = work[p]
    BY <1>2, <2>1, <2>2, RenamedType
  <2> QED BY <2>1, <2>3, <2>4
<1>4. /\ \A o \in run.todo \ {op} : OpDeclared(run.call, o)
      /\ \A o \in run.did \cup {op} : OpDeclared(run.call, o) /\ o.do \in {"rm", "mv", "write"}
  BY DEF IInv, PlanDeclared
<1>7. run.todo \ {op} \in SUBSET Ops /\ run.did \cup {op} \in SUBSET Ops /\ run.did \in SUBSET Ops
  BY DEF Runs
<1>8. head' = head /\ claim' = claim /\ IInv /\ At("applying")
  OBVIOUS
<1> HIDE OpReach DEF Rename, At
<1> QED BY <1>7, <1>8, <1>1, <1>2, <1>3, <1>4, BodyInv

LEMMA WritePageInv == ASSUME IInv, NEW op \in run.todo, WritePage(op) PROVE IInv'
<1> DEFINE next == (run.todo \ {op}) \cup
                     IF Transactional(run.call) THEN {Op("add", op.at, None)} ELSE {}
<1> USE OpReach DEF WritePage, At
<1>1. run' = [run EXCEPT !.at = "applying", !.todo = next, !.did = run.did \cup {op}]
  BY DEF Runs
<1>2. op.at \in DOMAIN run.call.files /\ run.call.files[op.at] \in Content
  BY FootprintType DEF OpDeclared
<1>3. work' \in [Path -> Content] /\ index' \in [Path -> Content]
  BY <1>2 DEF IInv, TypeOK
<1>4. \A p \in Path \ Footprint(run.call) : index'[p] = index[p] /\ work'[p] = work[p]
  BY DEF IInv, TypeOK
<1>5. next \in SUBSET Ops /\ \A o \in next : OpDeclared(run.call, o)
  BY <1>2 DEF Op, Ops, OpDeclared, IInv, PlanDeclared
<1>6. \A o \in run.did \cup {op} : OpDeclared(run.call, o) /\ o.do \in {"rm", "mv", "write"}
  BY DEF IInv, PlanDeclared
<1> HIDE DEF next
<1>7. run.todo \ {op} \in SUBSET Ops /\ run.did \cup {op} \in SUBSET Ops /\ run.did \in SUBSET Ops
  BY DEF Runs
<1>8. head' = head /\ claim' = claim /\ IInv /\ At("applying")
  OBVIOUS
<1> HIDE OpReach DEF WritePage, At
<1> QED BY <1>7, <1>8, <1>1, <1>3, <1>4, <1>5, <1>6, BodyInv

LEMMA AddPageInv == ASSUME IInv, NEW op \in run.todo, AddPage(op) PROVE IInv'
<1> USE OpReach DEF AddPage, At
<1>1. run' = [run EXCEPT !.at = "applying", !.todo = run.todo \ {op}, !.did = run.did]
  BY DEF Runs
<1>2. index' \in [Path -> Content] /\ work' \in [Path -> Content]
  BY DEF IInv, TypeOK
<1>3. \A p \in Path \ Footprint(run.call) : index'[p] = index[p] /\ work'[p] = work[p]
  BY DEF IInv, TypeOK
<1>4. /\ \A o \in run.todo \ {op} : OpDeclared(run.call, o)
      /\ \A o \in run.did : OpDeclared(run.call, o) /\ o.do \in {"rm", "mv", "write"}
  BY DEF IInv, PlanDeclared
<1>7. run.todo \ {op} \in SUBSET Ops /\ run.did \cup {op} \in SUBSET Ops /\ run.did \in SUBSET Ops
  BY DEF Runs
<1>8. head' = head /\ claim' = claim /\ IInv /\ At("applying")
  OBVIOUS
<1> HIDE OpReach DEF AddPage, At
<1> QED BY <1>7, <1>8, <1>1, <1>2, <1>3, <1>4, BodyInv

LEMMA StageInv == ASSUME IInv, NEW op \in run.todo, Stage(op) PROVE IInv'
<1> USE OpReach DEF Stage, At
<1>1. run' = [run EXCEPT !.at = "applying", !.todo = run.todo \ {op}, !.did = run.did]
  BY DEF Runs
<1>2. index' \in [Path -> Content] /\ work' \in [Path -> Content]
  BY DEF IInv, TypeOK
<1>3. \A p \in Path \ Footprint(run.call) : index'[p] = index[p] /\ work'[p] = work[p]
  BY FootprintType DEF IInv, TypeOK
<1>4. /\ \A o \in run.todo \ {op} : OpDeclared(run.call, o)
      /\ \A o \in run.did : OpDeclared(run.call, o) /\ o.do \in {"rm", "mv", "write"}
  BY DEF IInv, PlanDeclared
<1>7. run.todo \ {op} \in SUBSET Ops /\ run.did \cup {op} \in SUBSET Ops /\ run.did \in SUBSET Ops
  BY DEF Runs
<1>8. head' = head /\ claim' = claim /\ IInv /\ At("applying")
  OBVIOUS
<1> HIDE OpReach DEF Stage, At
<1> QED BY <1>7, <1>8, <1>1, <1>2, <1>3, <1>4, BodyInv

\* What fails ends the call or sends it to its rollback.
LEMMA AbortInv ==
    ASSUME IInv, At("applying"), Abort, UNCHANGED <<head, index, claim>>,
           work' \in [Path -> Content],
           \A p \in Path \ Footprint(run.call) : work'[p] = work[p]
    PROVE  IInv'
<1> USE DEF At
<1>0. run \in Runs /\ index' \in [Path -> Content]
  BY DEF IInv, TypeOK
<1>1. CASE Transactional(run.call)
  <2>1. run' = [run EXCEPT !.at = "undoing", !.todo = run.did, !.did = run.did]
    BY <1>0, <1>1 DEF Abort, Runs
  <2>2. run.did \in SUBSET Ops
        /\ \A o \in run.did : OpDeclared(run.call, o) /\ o.do \in {"rm", "mv", "write"}
    BY <1>0 DEF Runs, IInv, PlanDeclared
  <2> HIDE DEF At
  <2> QED BY <1>0, <2>1, <2>2, BodyInv
<1>2. CASE ~Transactional(run.call)
  BY <1>0, <1>2, EndInv DEF Abort, Become, IInv, TypeOK
<1> QED BY <1>1, <1>2

LEMMA OpFailsInv == ASSUME IInv, NEW op \in run.todo, OpFails(op) PROVE IInv'
<1> USE OpReach DEF OpFails, At
<1>1. work' \in [Path -> Content]
  BY DEF IInv, TypeOK, Content
<1>2. \A p \in Path \ Footprint(run.call) : work'[p] = work[p]
  BY DEF IInv, TypeOK
<1> QED BY <1>1, <1>2, AbortInv

LEMMA CommitInv == ASSUME IInv, Commit \/ NothingToCommit \/ CommitFails PROVE IInv'
<1>1. CASE Commit
  BY <1>1, EndInv DEF Commit, Applied, At, IInv, TypeOK
<1>2. CASE NothingToCommit
  BY <1>2, EndInv DEF NothingToCommit, Applied, At, tree, IInv, TypeOK
<1>3. CASE CommitFails
  BY <1>3, AbortInv DEF CommitFails, Applied, tree, IInv, TypeOK
<1> QED BY <1>1, <1>2, <1>3

\* One inverse step of the rollback.
LEMMA UndoingInv ==
    ASSUME IInv, NEW op \in run.todo, Undoing(op),
           index' \in [Path -> Content], work' \in [Path -> Content],
           \A p \in Path \ Footprint(run.call) : index'[p] = index[p] /\ work'[p] = work[p]
    PROVE  IInv'
<1>1. run \in Runs /\ run.todo \ {op} \in SUBSET Ops /\ run.did \in SUBSET Ops
  BY OpReach DEF Undoing, At, Runs
<1>2. run' = [run EXCEPT !.at = "undoing", !.todo = run.todo \ {op}, !.did = run.did]
  BY <1>1 DEF Undoing, At, Runs
<1>3. /\ \A o \in run.todo \ {op} : OpDeclared(run.call, o)
      /\ \A o \in run.did : OpDeclared(run.call, o) /\ o.do \in {"rm", "mv", "write"}
  BY DEF Undoing, At, IInv, PlanDeclared
<1>4. At("undoing") /\ head' = head /\ claim' = claim
  BY DEF Undoing
<1> QED BY <1>1, <1>2, <1>3, <1>4, BodyInv

\* Only the given paths of a well-formed tree are other than they were.
Touches(f, g, ps) == g \in [Path -> Content] /\ \A p \in Path \ ps : g[p] = f[p]

LEMMA UndoTouches ==
    ASSUME TypeOK, NEW f \in [Path -> Content], NEW ps
    PROVE  Touches(f, FromHead(f, ps), ps) /\ Touches(f, Without(f, ps), ps) /\ Touches(f, f, ps)
BY FromHeadType, WithoutType DEF Touches, FromHead, Without

LEMMA TouchesTwice ==
    ASSUME NEW f, NEW g, NEW h, NEW ps, NEW qs, NEW rs,
           Touches(f, g, ps), Touches(g, h, qs), ps \subseteq rs, qs \subseteq rs
    PROVE  Touches(f, h, rs)
BY DEF Touches

LEMMA UndoneInv ==
    ASSUME IInv, NEW op \in run.todo, Undoing(op), NEW ps \in SUBSET Footprint(run.call),
           Touches(index, index', ps), Touches(work, work', ps)
    PROVE  IInv'
BY UndoingInv DEF Touches

LEMMA UndoWriteInv == ASSUME IInv, NEW op \in run.todo, UndoWrite(op) PROVE IInv'
<1>1. {op.at} \in SUBSET Footprint(run.call)
  BY OpReach DEF UndoWrite, Undoing, At
<1>2. Touches(index, index', {op.at}) /\ Touches(work, work', {op.at})
  BY UndoTouches DEF UndoWrite, IInv, TypeOK
<1> QED BY <1>1, <1>2, UndoneInv DEF UndoWrite

LEMMA UndoRenameInv == ASSUME IInv, NEW op \in run.todo, UndoRename(op) PROVE IInv'
<1>1. {op.at, op.from} \in SUBSET Footprint(run.call) /\ op.at \in Path /\ op.from \in Path
  BY OpReach DEF UndoRename, Undoing, At
<1>2. Touches(index, index', {op.at, op.from})
  BY <1>1, RenamedType DEF UndoRename, Touches, IInv, TypeOK
<1>3. Touches(work, work', {op.at, op.from})
  BY <1>1, RenamedType DEF UndoRename, Touches, IInv, TypeOK
<1> QED BY <1>1, <1>2, <1>3, UndoneInv DEF UndoRename

LEMMA RebuildRenameInv == ASSUME IInv, NEW op \in run.todo, RebuildRename(op) PROVE IInv'
<1> DEFINE ps == {op.at, op.from}
<1>1. ps \in SUBSET Footprint(run.call)
  BY OpReach DEF RebuildRename, Undoing, At
<1>2. PICK unstaged \in {index, FromHead(index, ps)} :
        \/ /\ index' = FromHead(unstaged, {op.from})
           /\ work' \in {FromHead(work, {op.from}), Without(FromHead(work, {op.from}), {op.at})}
        \/ /\ index' = unstaged
           /\ work' \in {work, Without(work, {op.at})}
  BY DEF RebuildRename
<1>3. index \in [Path -> Content] /\ work \in [Path -> Content] /\ TypeOK
  BY DEF IInv, TypeOK
<1>4. Touches(index, unstaged, ps) /\ unstaged \in [Path -> Content]
  BY <1>3, UndoTouches DEF Touches
<1>5. Touches(index, index', ps)
  <2>1. Touches(unstaged, FromHead(unstaged, {op.from}), {op.from})
    BY <1>3, <1>4, UndoTouches
  <2>2. Touches(index, FromHead(unstaged, {op.from}), ps)
    BY <1>4, <2>1, TouchesTwice
  <2> QED BY <1>2, <1>4, <2>2
<1>6. Touches(work, work', ps)
  <2>1. Touches(work, FromHead(work, {op.from}), {op.from})
    BY <1>3, UndoTouches
  <2>2. Touches(FromHead(work, {op.from}), Without(FromHead(work, {op.from}), {op.at}), {op.at})
    BY <1>3, <2>1, UndoTouches DEF Touches
  <2>3. Touches(work, work, {op.at}) /\ Touches(work, Without(work, {op.at}), {op.at})
    BY <1>3, UndoTouches
  <2>4. Touches(work, Without(FromHead(work, {op.from}), {op.at}), ps)
    BY <2>1, <2>2, TouchesTwice
  <2> QED BY <1>2, <2>1, <2>3, <2>4 DEF Touches
<1> QED BY <1>1, <1>5, <1>6, UndoneInv DEF RebuildRename

LEMMA UndoRemoveInv == ASSUME IInv, NEW op \in run.todo, UndoRemove(op) PROVE IInv'
<1>1. {op.at} \in SUBSET Footprint(run.call)
  BY OpReach DEF UndoRemove, Undoing, At
<1>2. Touches(index, index', {op.at}) /\ Touches(work, work', {op.at})
  BY UndoTouches DEF UndoRemove, IInv, TypeOK
<1> QED BY <1>1, <1>2, UndoneInv DEF UndoRemove

LEMMA SettleInv == ASSUME IInv, Settle PROVE IInv'
<1>1. index' \in [Path -> Content]
  BY FromHeadType DEF Settle, IInv, TypeOK
<1> QED BY <1>1, EndInv DEF Settle, At, IInv, TypeOK

-----------------------------------------------------------------------------
(* The end of a call, and the world *)

LEMMA ClearMarkerInv == ASSUME IInv, ClearMarker PROVE IInv'
<1>1. claim \in Claims
  <2>1. run \in Runs /\ claim = ClaimOf(run.by, run.call)
    BY DEF ClearMarker, At, IInv, TypeOK, ClaimHeld
  <2>2. run.by \in Writer /\ Footprint(run.call) \subseteq Path
    BY <2>1, FootprintType DEF Runs
  <2> QED BY <2>1, <2>2 DEF ClaimOf, Claims
<1>2. claim' \in AnyClaim
  BY <1>1 DEF ClearMarker, Claims, AnyClaim
<1> QED
  BY <1>2 DEF ClearMarker, tree, IInv, TypeOK, PlanDeclared, ClaimHeld, RecoveryLicensed,
              TreeDeclared

LEMMA BuryType ==
    ASSUME NEW c \in AnyClaim, NEW w \in Writer
    PROVE  /\ Bury(c, w) \in AnyClaim
           /\ ProvablyGone(c) => Bury(c, w) = c
           /\ c \in Claims => Bury(c, w).paths = c.paths
BY DEF Bury, AnyClaim, Claims, ProvablyGone

LEMMA ProcessEndsInv == ASSUME IInv, NEW w \in Writer, ProcessEnds(w) PROVE IInv'
<1>1. claim' \in AnyClaim
  BY BuryType DEF ProcessEnds, IInv, TypeOK, AnyClaim
<1>2. CASE run' = None
  BY <1>1, <1>2 DEF ProcessEnds, tree, IInv, TypeOK, PlanDeclared, ClaimHeld, RecoveryLicensed,
     TreeDeclared
<1>3. CASE run # None /\ run.by # w
  <2>1. run \in Runs /\ run.prev \in AnyClaim /\ Bury(run.prev, w) \in AnyClaim
    BY <1>3, BuryType DEF IInv, TypeOK, Runs
  <2>2. run' = [run EXCEPT !.prev = Bury(run.prev, w)] /\ claim' = Bury(claim, w)
    BY <1>3 DEF ProcessEnds, At
  <2>3. /\ run' \in Runs /\ run' # None /\ run'.at = run.at /\ run'.prev = Bury(run.prev, w)
        /\ run'.by = run.by /\ run'.call = run.call /\ run'.todo = run.todo /\ run'.did = run.did
    BY <2>1, <2>2 DEF Runs
  <2>4. run.at # "claiming" => claim' = claim
    BY <1>3, <2>2 DEF Bury, IInv, ClaimHeld, ClaimOf
  <2>5. run.at \in Recovering => run'.prev = run.prev
    BY <1>3, <2>1, <2>3, BuryType DEF IInv, RecoveryLicensed
  <2>6. \A p \in Path : Untouched(p)' <=> Untouched(p)
    BY DEF ProcessEnds, tree, Untouched
  <2> QED
    BY <1>1, <1>3, <2>3, <2>4, <2>5, <2>6 DEF ProcessEnds, tree, IInv, TypeOK, PlanDeclared,
       ClaimHeld, RecoveryLicensed, TreeDeclared
<1> QED BY <1>2, <1>3 DEF ProcessEnds

LEMMA HandInv == ASSUME IInv, NEW p \in Path, HandEdit(p) \/ HandStage(p) PROVE IInv'
<1>1. index' \in [Path -> Content] /\ work' \in [Path -> Content]
  BY DEF HandEdit, HandStage, IInv, TypeOK, Content
<1>2. \A q \in Path : Untouched(q) => Untouched(q)'
  BY DEF HandEdit, HandStage, Untouched, IInv, TypeOK
<1> QED
  BY <1>1, <1>2 DEF HandEdit, HandStage, IInv, TypeOK, PlanDeclared, ClaimHeld,
     RecoveryLicensed, TreeDeclared

LEMMA OperatorSettlesInv == ASSUME IInv, OperatorSettles PROVE IInv'
BY DEF OperatorSettles, IInv, TypeOK, PlanDeclared, ClaimHeld, RecoveryLicensed, TreeDeclared

LEMMA CallStepInv == ASSUME IInv, CallStep PROVE IInv'
<1>1. CASE \E w \in Writer, c \in Call : Begin(w, c)
  BY <1>1, BeginInv
<1>2. CASE WriteMarker \/ LookClean \/ LookRecover \/ LookRefuse
  BY <1>2, WriteMarkerInv, LookCleanInv, LookRecoverInv, LookRefuseInv
<1>3. CASE RecoverReset \/ RecoverCheckout \/ RecoverUnlink \/ RecoverVerify
  BY <1>3, RecoverResetInv, RecoverCheckoutInv, RecoverUnlinkInv, RecoverVerifyInv
<1>4. CASE \E op \in (IF run = None THEN {} ELSE run.todo) : OpStep(op)
  <2>1. PICK op \in run.todo : OpStep(op)
    BY <1>4
  <2> QED
    BY <2>1, RemoveInv, RenameInv, WritePageInv, AddPageInv, StageInv, OpFailsInv,
       UndoWriteInv, UndoRenameInv, RebuildRenameInv, UndoRemoveInv DEF OpStep
<1>5. CASE Preflight \/ Commit \/ NothingToCommit \/ CommitFails \/ Settle \/ ClearMarker
  BY <1>5, PreflightInv, CommitInv, SettleInv, ClearMarkerInv
<1> QED BY <1>1, <1>2, <1>3, <1>4, <1>5 DEF CallStep

LEMMA StepInv == IInv /\ [Next]_vars => IInv'
<1> SUFFICES ASSUME IInv, [Next]_vars PROVE IInv'
  OBVIOUS
<1>1. CASE Next
  BY <1>1, CallStepInv, ProcessEndsInv, HandInv, OperatorSettlesInv DEF Next
<1>2. CASE UNCHANGED vars
  BY <1>2 DEF vars, IInv, TypeOK, PlanDeclared, ClaimHeld, RecoveryLicensed, TreeDeclared,
              Untouched
<1> QED BY <1>1, <1>2

LEMMA Invariance == Spec => []IInv
BY InitInv, StepInv, PTL DEF Spec

-----------------------------------------------------------------------------
\* Trees, claims and the running call are always well formed.
THEOREM TypeCorrect == Spec => []TypeOK
<1>1. IInv => TypeOK
  BY DEF IInv
<1> QED BY <1>1, Invariance, PTL

\* At every step of a body and of its rollback the claim on disk declares what the body has
\* changed (_write_marker before the first git command; recovered by _begin_mutation).
THEOREM ResidueIsDeclared == Spec => []DirtIsDeclared
<1>1. IInv => DirtIsDeclared
  BY DEF IInv, ClaimHeld, TreeDeclared, Working, DirtIsDeclared, At, ClaimOf
<1> QED BY <1>1, Invariance, PTL

\* What an operation of a plan, done, failed or undone, leaves alone.
LEMMA OpKeeps ==
    ASSUME IInv, run # None, NEW op \in run.todo, OpStep(op),
           NEW p \in Path, p \notin Footprint(run.call)
    PROVE  index'[p] = index[p] /\ work'[p] = work[p]
<1> USE OpReach
<1>1. index \in [Path -> Content] /\ work \in [Path -> Content] /\ run.call \in Call
  BY DEF IInv, TypeOK
<1>2. CASE Remove(op)
  BY <1>1, <1>2 DEF Remove, Without
<1>3. CASE Rename(op)
  BY <1>1, <1>3 DEF Rename, Renamed
<1>4. CASE WritePage(op) \/ AddPage(op) \/ OpFails(op)
  BY <1>1, <1>4 DEF WritePage, AddPage, OpFails, OpDeclared
<1>5. CASE Stage(op)
  BY <1>1, <1>5, FootprintType DEF Stage
<1>6. CASE UndoWrite(op)
  BY <1>1, <1>6 DEF UndoWrite, FromHead, Without
<1>7. CASE UndoRename(op)
  BY <1>1, <1>7 DEF UndoRename, Renamed
<1>8. CASE RebuildRename(op)
  BY <1>1, <1>8 DEF RebuildRename, FromHead, Without
<1>9. CASE UndoRemove(op)
  BY <1>1, <1>9 DEF UndoRemove, FromHead
<1> QED BY <1>2, <1>3, <1>4, <1>5, <1>6, <1>7, <1>8, <1>9 DEF OpStep

LEMMA CallKeeps ==
    ASSUME IInv, run # None, Next, run' # run, NEW p \in Path, p \notin Licensed
    PROVE  index'[p] = index[p] /\ work'[p] = work[p]
<1>1. p \notin Footprint(run.call)
  BY DEF Licensed
<1>2. CASE RecoverReset \/ RecoverCheckout \/ RecoverUnlink
  <2>1. p \notin run.prev.paths
    BY <1>2 DEF Licensed, RecoverReset, RecoverCheckout, RecoverUnlink, At, IInv,
       RecoveryLicensed, Recovering
  <2> QED
    BY <1>2, <2>1 DEF RecoverReset, RecoverCheckout, RecoverUnlink, FromHead, Without, InHead
<1>3. CASE \E op \in (IF run = None THEN {} ELSE run.todo) : OpStep(op)
  BY <1>1, <1>3, OpKeeps
<1>4. CASE Settle
  <2>1. Reached(run.did) \subseteq Footprint(run.call)
    <3>1. run.call \in Call
      BY DEF IInv, TypeOK, Runs
    <3>2. \A op \in run.did : OpDeclared(run.call, op) /\ op.do \in {"rm", "mv", "write"}
      BY DEF IInv, PlanDeclared
    <3> QED BY <3>1, <3>2, FootprintType DEF Reached, OpDeclared
  <2>2. index \in [Path -> Content]
    BY DEF IInv, TypeOK
  <2> QED BY <1>1, <1>4, <2>1, <2>2 DEF Settle, FromHead
<1>5. CASE \/ WriteMarker \/ LookClean \/ LookRecover \/ LookRefuse \/ RecoverVerify
          \/ Preflight \/ Commit \/ NothingToCommit \/ CommitFails \/ ClearMarker
  BY <1>5 DEF WriteMarker, LookClean, LookRecover, LookRefuse, RecoverVerify, Preflight, Commit,
              NothingToCommit, CommitFails, ClearMarker, tree
<1>6. CASE \E w \in Writer : ProcessEnds(w)
  BY <1>6 DEF ProcessEnds, tree
<1> QED
  BY <1>2, <1>3, <1>4, <1>5, <1>6 DEF Next, CallStep, Begin, HandEdit, HandStage,
     OperatorSettles

\* No step of a call, failing or recovering, reaches a path that neither it nor a process
\* that is gone had declared (_recover_footprint, _rollback and every pathspec).
THEOREM CallsKeepToTheirPaths == Spec => KeepsToItsPaths
<1> DEFINE Keeps == run # None /\ run' # run
                     => \A p \in Path : index'[p] # index[p] \/ work'[p] # work[p] => p \in Licensed
<1>1. IInv /\ [Next]_vars => [Keeps]_vars
  BY CallKeeps DEF vars
<1> QED BY <1>1, Invariance, PTL DEF Spec, KeepsToItsPaths

\* No step of a call but its commit changes what is committed.
LEMMA OnlyCommitCommits == ASSUME Next, run # None, head' # head PROVE Commit
BY DEF Next, CallStep, OpStep, Begin, WriteMarker, LookClean, LookRecover, LookRefuse,
  RecoverReset, RecoverCheckout, RecoverUnlink, RecoverVerify, Preflight, Remove, Rename,
  WritePage, AddPage, Stage, OpFails, UndoWrite, UndoRename, RebuildRename, UndoRemove,
  Undoing, NothingToCommit, CommitFails, Settle, ClearMarker, ProcessEnds, HandEdit,
  HandStage, OperatorSettles, tree

\* `git commit` takes the whole index, and yet commits nothing a crashed or failed call left
\* staged: only the call's own paths and what a person staged meanwhile.
THEOREM CommitsAreTheCallsOwn == Spec => NoStrangersCommitted
<1> DEFINE Own == \A p \in Path : head'[p] # head[p] /\ run # None
                     => p \in Footprint(run.call) \/ head'[p] = Hand
<1>2. ASSUME IInv, Commit, NEW p \in Path \ Footprint(run.call) PROVE head'[p] \in {head[p], Hand}
  BY <1>2 DEF Commit, Applied, At, IInv, TreeDeclared, Working, Untouched
<1>3. IInv /\ [Next]_vars => [Own]_vars
  BY OnlyCommitCommits, <1>2 DEF vars
<1> QED BY <1>3, Invariance, PTL DEF Spec, NoStrangersCommitted

-----------------------------------------------------------------------------
(* How far a plan has come.  What is staged is the plan's result on every   *)
(* path of the call, but for the operations still to do: Carried adds this  *)
(* to IInv.                                                                 *)

Waits(do, p) == \E op \in run.todo : op.do = do /\ op.at = p
Past(dos) == \A op \in run.todo : op.do \notin dos

\* Only moves of the call are made; what a plain patch writes is still to be staged.
PlanShaped ==
    /\ \A op \in run.todo : op.do = "mv" => \E m \in run.call.moves : m.from = op.from /\ m.to = op.at
    /\ Transactional(run.call) \/ Past({"write"}) \/ ~Past({"stage"})

\* A page is written when nothing is left to be removed or renamed, and then staged.
PageCarried(p) ==
    \/ Waits("write", p)
    \/ /\ Past({"rm", "mv"})
       /\ IF Waits("add", p) \/ ~Past({"stage"}) THEN work[p] \in {run.call.files[p], Hand}
          ELSE index[p] \in {run.call.files[p], Hand}

\* A page goes from its path, as committed, to its target, once that has been made free.
MoveCarried(m) ==
    IF Waits("mv", m.to) THEN index[m.from] \in {head[m.from], Hand, None}
    ELSE Past({"rm"}) /\ index[m.to] \in {head[m.from], Hand}

\* A path the call leaves without a page.
LeftEmpty(p) ==
    \/ Waits("rm", p) \/ \E op \in run.todo : op.do = "mv" /\ op.from = p
    \/ index[p] \in {None, Hand}

Emptied(c) == {p \in Footprint(c) : p \notin DOMAIN c.files /\ \A m \in c.moves : m.to # p}

Carried ==
    run # None =>
        /\ run.at = "preflight" => Transactional(run.call) /\ \A p \in Path : Untouched(p)
        /\ run.at = "applying" =>
              /\ PlanShaped
              /\ \A p \in DOMAIN run.call.files : PageCarried(p)
              /\ \A m \in run.call.moves : m.to \notin DOMAIN run.call.files => MoveCarried(m)
              /\ \A p \in Emptied(run.call) : LeftEmpty(p)

LEMMA ElsewhereCarried ==
    ASSUME run' = None \/ run'.at \notin {"preflight", "applying"} PROVE Carried'
BY DEF Carried

\* The tree and the plan as they were, whatever else of the call is other.
LEMMA StillCarried ==
    ASSUME Carried, run # None, UNCHANGED tree,
           run'.at = run.at, run'.call = run.call, run'.todo = run.todo
    PROVE  Carried'
BY DEF Carried, tree, Untouched, PlanShaped, Waits, Past, PageCarried, MoveCarried, LeftEmpty,
       Emptied

\* The plans, operation by operation.
LEMMA Planned ==
    ASSUME NEW c
    PROVE  /\ \A op \in PlainPatch(c) : op.do \in {"write", "stage"}
           /\ \A p \in DOMAIN c.files : \E op \in PlainPatch(c) : op.do = "write" /\ op.at = p
           /\ (\E op \in PlainPatch(c) : op.do = "write") => \E op \in PlainPatch(c) : op.do = "stage"
           /\ \A op \in Transaction(c) :
                 op.do = "mv" => \E m \in c.moves : m.from = op.from /\ m.to = op.at
           /\ \A p \in c.removals : \E op \in Transaction(c) : op.do = "rm" /\ op.at = p
           /\ \A m \in c.moves : \E op \in Transaction(c) : op.do = "mv" /\ op.at = m.to /\ op.from = m.from
           /\ \A p \in DOMAIN c.files : \E op \in Transaction(c) : op.do = "write" /\ op.at = p
<1>1. ASSUME NEW do, NEW at, NEW from
      PROVE  Op(do, at, from).do = do /\ Op(do, at, from).at = at /\ Op(do, at, from).from = from
  BY DEF Op
<1>2. ASSUME NEW p \in DOMAIN c.files
      PROVE  /\ Op("write", p, None) \in PlainPatch(c) /\ Op("stage", None, None) \in PlainPatch(c)
             /\ Op("write", p, None) \in Transaction(c)
  BY DEF PlainPatch, Transaction
<1>3. ASSUME NEW m \in c.moves PROVE Op("mv", m.to, m.from) \in Transaction(c)
  BY DEF Transaction
<1>4. ASSUME NEW p \in c.removals PROVE Op("rm", p, None) \in Transaction(c)
  BY DEF Transaction, RemovalsOf
<1>5. \A op \in PlainPatch(c) : op.do \in {"write", "stage"} /\ \E p : p \in DOMAIN c.files
  BY <1>1 DEF PlainPatch
<1>6. \A op \in Transaction(c) :
         op.do = "mv" => \E m \in c.moves : m.from = op.from /\ m.to = op.at
  BY <1>1 DEF Transaction
<1> QED BY <1>1, <1>2, <1>3, <1>4, <1>5, <1>6

LEMMA EnterBodyCarried ==
    ASSUME IInv, run # None, EnterBody, UNCHANGED <<tree, claim>>, \A p \in Path : Untouched(p)
    PROVE  Carried'
<1> DEFINE c == run.call
<1>1. run \in Runs /\ c \in Call
  BY DEF IInv, TypeOK, Runs
<1>2. CASE run'.at = "preflight"
  BY <1>1, <1>2 DEF EnterBody, Runs, Carried, tree, Untouched, Transactional
<1>3. CASE run'.at = "applying"
  <2>1. Footprint(c) # {} /\ ~Transactional(c) /\ run' = [run EXCEPT !.at = "applying", !.todo = PlainPatch(c)]
    BY <1>1, <1>3 DEF EnterBody, Runs
  <2>2. c.moves = {} /\ c.removals = {}
    BY <1>1, <2>1, CallsAssumption DEF Transactional, Verbs
  <2>3. Footprint(c) = DOMAIN c.files
    BY <2>2 DEF Footprint, Moved
  <2>4. run'.todo = PlainPatch(c) /\ run'.call = c
    BY <1>1, <2>1 DEF Runs
  <2>5. PlanShaped'
    BY <2>4, Planned DEF PlanShaped, Past
  <2>6. \A p \in DOMAIN c.files : PageCarried(p)'
    BY <2>4, Planned DEF PageCarried, Waits
  <2>7. Emptied(c) = {}
    BY <2>3 DEF Emptied
  <2> HIDE DEF c
  <2> QED BY <1>3, <2>2, <2>4, <2>5, <2>6, <2>7 DEF Carried
<1>4. CASE run'.at = "clearing"
  BY <1>4, ElsewhereCarried
<1> QED BY <1>1, <1>2, <1>3, <1>4 DEF EnterBody, Runs

LEMMA PreflightCarried == ASSUME IInv, Carried, Preflight PROVE Carried'
<1> DEFINE c == run.call
           plan == Transaction(c)
<1>1. run \in Runs /\ run # None /\ c \in Call /\ Transactional(c) /\ \A p \in Path : Untouched(p)
  BY DEF Preflight, At, IInv, TypeOK, Runs, Carried
<1>2. CASE run'.at = "applying"
  <2>1. run' = [run EXCEPT !.at = "applying", !.todo = plan]
    BY <1>1, <1>2 DEF Preflight, Runs
  <2>2. run'.todo = plan /\ run'.call = c
    BY <1>1, <2>1 DEF Runs
  <2>3. \A m \in c.moves : m.from \in Path
    BY <1>1, CallsAssumption
  <2>4. PlanShaped'
    BY <1>1, <2>2, Planned DEF PlanShaped, Transactional
  <2>5. \A p \in DOMAIN c.files : PageCarried(p)'
    BY <2>2, Planned DEF PageCarried, Waits
  <2>6. \A m \in c.moves : MoveCarried(m)'
    BY <1>1, <2>2, <2>3, Planned DEF MoveCarried, Waits, Untouched, Preflight, tree
  <2>7. \A p \in Emptied(c) : LeftEmpty(p)'
    BY <2>2, Planned DEF LeftEmpty, Waits, Emptied, Footprint, Moved
  <2> HIDE DEF c
  <2> QED BY <1>2, <2>2, <2>4, <2>5, <2>6, <2>7 DEF Carried, Emptied
<1> QED BY <1>1, <1>2, ElsewhereCarried DEF Preflight, Runs

\* Removals are done before renames, renames before pages are written and added, and all of
\* it before a plain patch is staged.
LEMMA DueOrder ==
    ASSUME run.todo \subseteq Ops, NEW op, Due(op)
    PROVE  /\ op \in run.todo /\ op \in Ops
           /\ op.do = "mv" => Past({"rm"})
           /\ op.do \in {"write", "add", "stage"} => Past({"rm", "mv"})
           /\ op.do = "stage" => Past({"write", "add"})
BY DEF Due, Rank, Ops, Past

\* What a step of a body starts from.
Step(op, todo) ==
    /\ run \in Runs /\ run # None /\ run.at = "applying" /\ run.call \in Call
    /\ op \in run.todo /\ Due(op) /\ OpDeclared(run.call, op)
    /\ run' # None /\ run'.at = "applying" /\ run'.call = run.call /\ run'.todo = todo
    /\ head' = head

\* What a page written leaves to do.
Written(op) ==
    (run.todo \ {op}) \cup IF Transactional(run.call) THEN {Op("add", op.at, None)} ELSE {}

LEMMA StepIsOf ==
    ASSUME IInv, run # None, NEW op \in run.todo
    PROVE  /\ Remove(op) \/ Rename(op) \/ AddPage(op) \/ Stage(op) => Step(op, run.todo \ {op})
           /\ WritePage(op) => Step(op, Written(op))
<1>1. /\ run \in Runs /\ run.call \in Call /\ OpDeclared(run.call, op)
      /\ run.todo \ {op} \in SUBSET Ops /\ run.did \cup {op} \in SUBSET Ops
  BY OpReach
<1>2. ASSUME NEW todo \in SUBSET Ops, NEW did \in SUBSET Ops,
             run' = [run EXCEPT !.todo = todo, !.did = did]
      PROVE  run' # None /\ run'.at = run.at /\ run'.call = run.call /\ run'.todo = todo
  <2>1. run' \in Runs /\ run'.at = run.at /\ run'.call = run.call /\ run'.todo = todo
    BY <1>1, <1>2 DEF Runs
  <2> QED BY <2>1
<1>3. ASSUME Remove(op) \/ Rename(op) PROVE Step(op, run.todo \ {op})
  BY <1>1, <1>2, <1>3 DEF Step, Remove, Rename, At
<1>4. ASSUME AddPage(op) \/ Stage(op) PROVE Step(op, run.todo \ {op})
  <2>1. run' = [run EXCEPT !.todo = run.todo \ {op}, !.did = run.did] /\ run.did \in SUBSET Ops
    BY <1>1, <1>4 DEF AddPage, Stage, Runs
  <2> QED BY <1>1, <1>2, <1>4, <2>1 DEF Step, AddPage, Stage, At
<1>5. ASSUME WritePage(op) PROVE Step(op, Written(op))
  <2>1. op.at \in Path
    BY <1>5, OpReach DEF WritePage
  <2>2. Op("add", op.at, None) \in Ops
    BY <2>1 DEF Op, Ops
  <2>3. Written(op) \in SUBSET Ops
    BY <1>1, <2>2 DEF Written
  <2>4. run' = [run EXCEPT !.todo = Written(op), !.did = run.did \cup {op}]
    BY <1>5 DEF WritePage, Written
  <2> QED BY <1>1, <1>2, <1>5, <2>3, <2>4 DEF Step, WritePage, At
<1> QED BY <1>3, <1>4, <1>5

LEMMA RemoveCarried ==
    ASSUME IInv, Carried, NEW op \in run.todo, run # None, Remove(op) PROVE Carried'
<1> DEFINE c == run.call
<1>1. Step(op, run.todo \ {op}) /\ op.do = "rm" /\ index' = Without(index, {op.at}) /\ op.at \in Path
  BY StepIsOf, OpReach DEF Remove
<1>2. /\ PlanShaped
      /\ \A p \in DOMAIN c.files : PageCarried(p)
      /\ \A m \in c.moves : m.to \notin DOMAIN c.files => MoveCarried(m)
      /\ \A p \in Emptied(c) : LeftEmpty(p)
  BY <1>1 DEF Carried, Step
<1>3. /\ \A p \in Path : index'[p] = IF p = op.at THEN None ELSE index[p]
      /\ op \in run.todo /\ run'.todo = run.todo \ {op} /\ run'.call = c /\ head' = head
  BY <1>1 DEF Without, Step
<1>4. /\ \A m \in c.moves : m.from \in Path /\ m.to \in Path
      /\ Footprint(c) \subseteq Path
  BY <1>1, CallsAssumption, FootprintType DEF Step
<1>5. PlanShaped'
  BY <1>1, <1>2, <1>3 DEF PlanShaped, Past
<1>6. \A p \in DOMAIN c.files : PageCarried(p)'
  BY <1>1, <1>2, <1>3 DEF PageCarried, Past, Waits
<1>7. \A m \in c.moves : m.to \notin DOMAIN c.files => MoveCarried(m)'
  BY <1>1, <1>2, <1>3, <1>4 DEF MoveCarried, Past, Waits
<1>8. \A p \in Emptied(c) : LeftEmpty(p)'
  <2>1. TAKE p \in Emptied(c)
  <2>2. p \in Path
    BY <1>4 DEF Emptied
  <2>3. CASE p = op.at
    BY <1>3, <2>2, <2>3 DEF LeftEmpty
  <2>4. CASE p # op.at
    BY <1>1, <1>2, <1>3, <2>2, <2>4 DEF LeftEmpty, Waits
  <2> QED BY <2>3, <2>4
<1> HIDE DEF c
<1> QED BY <1>1, <1>3, <1>5, <1>6, <1>7, <1>8 DEF Carried, Emptied, Step

LEMMA RenameCarried ==
    ASSUME IInv, Carried, NEW op \in run.todo, run # None, Rename(op) PROVE Carried'
<1> DEFINE c == run.call
<1>1. /\ Step(op, run.todo \ {op}) /\ op.do = "mv" /\ op.at \in Path /\ op.from \in Path
      /\ index' = Renamed(index, op.from, op.at) /\ index[op.from] # None
  BY StepIsOf, OpReach DEF Rename, MayRename
<1>2. /\ PlanShaped
      /\ \A p \in DOMAIN c.files : PageCarried(p)
      /\ \A m \in c.moves : m.to \notin DOMAIN c.files => MoveCarried(m)
      /\ \A p \in Emptied(c) : LeftEmpty(p)
  BY <1>1 DEF Carried, Step
<1>3. PICK own \in c.moves : own.from = op.from /\ own.to = op.at
  BY <1>1, <1>2 DEF PlanShaped
<1>4. /\ \A m \in c.moves : m.from \in Path /\ m.to \in Path /\ own.from # m.to /\ m.from # own.to
      /\ \A m \in c.moves : m # own => m.from # own.from /\ m.to # own.to
      /\ Footprint(c) \subseteq Path
  BY <1>1, CallsAssumption, FootprintType DEF Step
<1>5. /\ \A p \in Path : index'[p] = IF p = op.from THEN None
                                     ELSE IF p = op.at THEN index[op.from] ELSE index[p]
      /\ op \in run.todo /\ run'.todo = run.todo \ {op} /\ run'.call = c /\ head' = head
  <2>1. index \in [Path -> Content] /\ op.from # op.at
    BY <1>3, <1>4 DEF IInv, TypeOK
  <2> QED BY <1>1, <2>1 DEF Renamed, Step
<1>6. Past({"rm"})
  BY <1>1, DueOrder DEF Step, Runs
<1>7. PlanShaped'
  BY <1>1, <1>2, <1>5 DEF PlanShaped, Past
<1>8. \A p \in DOMAIN c.files : PageCarried(p)'
  BY <1>1, <1>2, <1>5 DEF PageCarried, Past, Waits
<1>9. ASSUME NEW m \in c.moves, m.to \notin DOMAIN c.files PROVE MoveCarried(m)'
  <2>1. CASE m = own
    <3>1. index[m.from] \in {head[m.from], Hand}
      BY <1>1, <1>2, <1>3, <1>9, <2>1 DEF MoveCarried, Waits, Step
    <3> QED BY <1>3, <1>4, <1>5, <1>6, <2>1, <3>1 DEF MoveCarried, Past, Waits
  <2>2. CASE m # own
    BY <1>2, <1>3, <1>4, <1>5, <1>9, <2>2 DEF MoveCarried, Past, Waits
  <2> QED BY <2>1, <2>2
<1>10. ASSUME NEW p \in Emptied(c) PROVE LeftEmpty(p)'
  <2>1. p \in Path /\ p # op.at
    BY <1>3, <1>4 DEF Emptied
  <2>2. CASE p = op.from
    BY <1>5, <2>1, <2>2 DEF LeftEmpty
  <2>3. CASE p # op.from
    BY <1>1, <1>2, <1>5, <2>1, <2>3 DEF LeftEmpty, Waits
  <2> QED BY <2>2, <2>3
<1> HIDE DEF c
<1> QED BY <1>1, <1>5, <1>7, <1>8, <1>9, <1>10 DEF Carried, Emptied, Step

LEMMA WritePageCarried ==
    ASSUME IInv, Carried, NEW op \in run.todo, run # None, WritePage(op) PROVE Carried'
<1> DEFINE c == run.call
           next == Written(op)
<1>1. /\ Step(op, next) /\ op.do = "write" /\ op.at \in DOMAIN c.files /\ op.at \in Path
      /\ index' = index /\ work' = [work EXCEPT ![op.at] = c.files[op.at]]
  BY StepIsOf, OpReach DEF WritePage, OpDeclared
<1>2. /\ PlanShaped
      /\ \A p \in DOMAIN c.files : PageCarried(p)
      /\ \A m \in c.moves : m.to \notin DOMAIN c.files => MoveCarried(m)
      /\ \A p \in Emptied(c) : LeftEmpty(p)
  BY <1>1 DEF Carried, Step
<1>3. /\ DOMAIN c.files \subseteq Path
      /\ \A p \in Path : work'[p] = IF p = op.at THEN c.files[op.at] ELSE work[p]
  BY <1>1, CallsAssumption DEF IInv, TypeOK, Step
<1>4. Past({"rm", "mv"})
  BY <1>1, DueOrder DEF Step, Runs
<1>5. /\ \A o \in next : o \in run.todo \/ (Transactional(c) /\ o.do = "add" /\ o.at = op.at)
      /\ \A o \in run.todo : o # op => o \in next
      /\ Transactional(c) => \E o \in next : o.do = "add" /\ o.at = op.at
      /\ run'.todo = next /\ run'.call = c /\ head' = head /\ op \in run.todo
  <2>1. PICK added : added = Op("add", op.at, None)
    OBVIOUS
  <2>2. added.do = "add" /\ added.at = op.at
    BY <2>1 DEF Op
  <2>3. next = (run.todo \ {op}) \cup IF Transactional(c) THEN {added} ELSE {}
    BY <2>1 DEF Written
  <2>4. run'.todo = next /\ run'.call = c /\ head' = head /\ op \in run.todo
    BY <1>1 DEF Step
  <2> HIDE DEF next
  <2> QED BY <2>2, <2>3, <2>4
<1> HIDE DEF next
<1>6. PlanShaped'
  <2>1. \A o \in next : o.do = "mv" => \E m \in c.moves : m.from = o.from /\ m.to = o.at
    BY <1>2, <1>5 DEF PlanShaped
  <2>2. ASSUME ~Transactional(c) PROVE \E o \in next : o.do = "stage"
    BY <1>1, <1>2, <1>5, <2>2 DEF PlanShaped, Past
  <2> QED BY <1>5, <2>1, <2>2 DEF PlanShaped, Past, Transactional
<1>7. \A o \in next : o.do \notin {"rm", "mv"}
  BY <1>4, <1>5 DEF Past
<1>8. ASSUME NEW p \in DOMAIN c.files PROVE PageCarried(p)'
  <2>1. CASE p = op.at
    <3>1. \E o \in next : (o.do = "add" /\ o.at = p) \/ o.do = "stage"
      BY <1>1, <1>2, <1>5, <2>1 DEF PlanShaped, Past
    <3>2. work'[p] = c.files[p]
      BY <1>1, <1>3, <2>1
    <3> QED BY <1>5, <1>7, <3>1, <3>2 DEF PageCarried, Past, Waits
  <2>2. CASE p # op.at
    <3>1. work'[p] = work[p] /\ index'[p] = index[p]
      BY <1>1, <1>3, <2>2
    <3>2. \A o \in next : o.do = "stage" => o \in run.todo
      BY <1>5
    <3>3. \A o \in next : o.at = p => o \in run.todo
      BY <1>5, <2>2
    <3>4. \A o \in run.todo : o.do \in {"stage", "add"} \/ o.at = p => o \in next
      BY <1>1, <1>5, <2>2
    <3> QED BY <1>2, <1>5, <1>7, <3>1, <3>2, <3>3, <3>4 DEF PageCarried, Past, Waits
  <2> QED BY <2>1, <2>2
<1>9. ASSUME NEW m \in c.moves, m.to \notin DOMAIN c.files PROVE MoveCarried(m)'
  BY <1>1, <1>2, <1>4, <1>5, <1>7, <1>9 DEF MoveCarried, Past, Waits
<1>10. ASSUME NEW p \in Emptied(c) PROVE LeftEmpty(p)'
  BY <1>1, <1>2, <1>4, <1>5 DEF LeftEmpty, Past, Waits
<1> HIDE DEF c
<1> QED BY <1>1, <1>5, <1>6, <1>8, <1>9, <1>10 DEF Carried, Emptied, Step

\* A page staged, by its own add or by the patch's: what is staged elsewhere stays.
LEMMA StagedCarried ==
    ASSUME IInv, Carried, NEW op \in run.todo, run # None, AddPage(op) \/ Stage(op) PROVE Carried'
<1> DEFINE c == run.call
           staged == IF op.do = "add" THEN {op.at} ELSE DOMAIN c.files
<1>1. Step(op, run.todo \ {op}) /\ op.do \in {"add", "stage"} /\ work' = work
  BY StepIsOf DEF AddPage, Stage
<1>2. /\ PlanShaped
      /\ \A p \in DOMAIN c.files : PageCarried(p)
      /\ \A m \in c.moves : m.to \notin DOMAIN c.files => MoveCarried(m)
      /\ \A p \in Emptied(c) : LeftEmpty(p)
  BY <1>1 DEF Carried, Step
<1>3. /\ DOMAIN c.files \subseteq Path /\ Footprint(c) \subseteq Path /\ staged \subseteq DOMAIN c.files
      /\ \A m \in c.moves : m.from \in Path /\ m.to \in Path
  BY <1>1, CallsAssumption, FootprintType DEF Step, OpDeclared
<1>4. \A p \in Path : index'[p] = IF p \in staged THEN work[p] ELSE index[p]
  BY <1>3 DEF AddPage, Stage, IInv, TypeOK
<1>5. Past({"rm", "mv"}) /\ (op.do = "stage" => Past({"write", "add"}))
  BY <1>1, DueOrder DEF Step, Runs
<1>6. op \in run.todo /\ run'.todo = run.todo \ {op} /\ run'.call = c /\ head' = head
  BY <1>1 DEF Step
<1>7. PlanShaped'
  BY <1>1, <1>2, <1>5, <1>6 DEF PlanShaped, Past
<1>8. ASSUME NEW p \in DOMAIN c.files PROVE PageCarried(p)'
  <2>1. CASE p \in staged
    <3>1. Waits("write", p) \/ work[p] \in {c.files[p], Hand}
      BY <1>1, <1>2, <1>6, <2>1 DEF PageCarried, Past, Waits
    <3>2. index'[p] = work[p] /\ work'[p] = work[p]
      BY <1>1, <1>3, <1>4, <2>1
    <3> QED BY <1>1, <1>5, <1>6, <3>1, <3>2 DEF PageCarried, Past, Waits
  <2>2. CASE p \notin staged
    <3>1. op.do = "add" /\ p # op.at /\ index'[p] = index[p] /\ work'[p] = work[p]
      BY <1>1, <1>3, <1>4, <2>2
    <3> QED BY <1>2, <1>5, <1>6, <3>1 DEF PageCarried, Past, Waits
  <2> QED BY <2>1, <2>2
<1>9. ASSUME NEW m \in c.moves, m.to \notin DOMAIN c.files PROVE MoveCarried(m)'
  <2>1. index'[m.to] = index[m.to]
    BY <1>3, <1>4, <1>9
  <2> QED BY <1>2, <1>5, <1>6, <1>9, <2>1 DEF MoveCarried, Past, Waits
<1>10. ASSUME NEW p \in Emptied(c) PROVE LeftEmpty(p)'
  <2>1. index'[p] = index[p]
    BY <1>3, <1>4 DEF Emptied
  <2> QED BY <1>1, <1>2, <1>5, <1>6, <2>1 DEF LeftEmpty, Past, Waits
<1> HIDE DEF c
<1> QED BY <1>1, <1>6, <1>7, <1>8, <1>9, <1>10 DEF Carried, Emptied, Step

LEMMA HandCarried ==
    ASSUME IInv, Carried, NEW q \in Path, HandEdit(q) \/ HandStage(q) PROVE Carried'
<1>1. /\ run' = run /\ head' = head
      /\ \A p \in Path : index'[p] \in {index[p], Hand} /\ work'[p] \in {work[p], Hand}
  BY DEF HandEdit, HandStage, IInv, TypeOK
<1>2. CASE run # None
  <2> DEFINE c == run.call
  <2>1. /\ Footprint(c) \subseteq Path /\ DOMAIN c.files \subseteq Path
        /\ \A m \in c.moves : m.from \in Path /\ m.to \in Path
    BY <1>2, CallsAssumption, FootprintType DEF IInv, TypeOK, Runs
  <2>2. \A p \in Path : Untouched(p) => Untouched(p)'
    BY <1>1 DEF Untouched
  <2>3. PlanShaped => PlanShaped'
    BY <1>1 DEF PlanShaped, Past
  <2>4. \A p \in DOMAIN c.files : PageCarried(p) => PageCarried(p)'
    BY <1>1, <2>1 DEF PageCarried, Past, Waits
  <2>5. \A m \in c.moves : MoveCarried(m) => MoveCarried(m)'
    BY <1>1, <2>1 DEF MoveCarried, Past, Waits
  <2>6. \A p \in Emptied(c) : LeftEmpty(p) => LeftEmpty(p)'
    BY <1>1, <2>1 DEF LeftEmpty, Waits, Emptied
  <2> HIDE DEF c
  <2> QED BY <1>1, <2>2, <2>3, <2>4, <2>5, <2>6 DEF Carried, Emptied, c
<1> QED BY <1>1, <1>2, ElsewhereCarried

LEMMA LookCarried ==
    ASSUME IInv, Carried, LookClean \/ RecoverVerify PROVE Carried'
<1>1. CASE LookClean
  <2>1. \A p \in Path : Untouched(p)
    BY <1>1, CleanIsUntouched DEF LookClean, DirtyPaths
  <2> QED BY <1>1, <2>1, EnterBodyCarried DEF LookClean, At
<1>2. CASE RecoverVerify
  <2>1. CASE DirtyPaths \cap run.prev.paths = {} /\ EnterBody
    <3>1. \A p \in Path : Untouched(p)
      BY <1>2, <2>1, CleanIsUntouched DEF RecoverVerify, At, DirtyPaths, IInv, TreeDeclared, Recovering
    <3> QED BY <1>2, <2>1, <3>1, EnterBodyCarried DEF RecoverVerify, At
  <2>2. CASE Become("clearing")
    BY <1>2, <2>2, BecomeType, ElsewhereCarried DEF RecoverVerify, At, IInv, Phases
  <2> QED BY <1>2, <2>1, <2>2 DEF RecoverVerify
<1> QED BY <1>1, <1>2

\* Every other step of a call leads away from its plan.
LEMMA AwayCarried ==
    ASSUME IInv,
           \/ \E w \in Writer, c \in Call : Begin(w, c)
           \/ WriteMarker \/ LookRecover \/ LookRefuse
           \/ RecoverReset \/ RecoverCheckout \/ RecoverUnlink
           \/ \E op \in (IF run = None THEN {} ELSE run.todo) :
                 OpFails(op) \/ UndoWrite(op) \/ UndoRename(op) \/ RebuildRename(op) \/ UndoRemove(op)
           \/ Commit \/ NothingToCommit \/ CommitFails \/ Settle \/ ClearMarker
    PROVE  Carried'
<1>1. run \in Runs \cup {None}
  BY DEF IInv, TypeOK
<1>2. CASE \/ \E w \in Writer, c \in Call : Begin(w, c)
          \/ WriteMarker \/ LookRecover \/ LookRefuse
          \/ RecoverReset \/ RecoverCheckout \/ RecoverUnlink
  BY <1>1, <1>2, ElsewhereCarried DEF Begin, WriteMarker, LookRecover, LookRefuse, RecoverReset,
     RecoverCheckout, RecoverUnlink, Become, At, Runs
<1>3. CASE \E op \in (IF run = None THEN {} ELSE run.todo) : OpFails(op)
  BY <1>1, <1>3, ElsewhereCarried DEF OpFails, Abort, At, Runs
<1>4. CASE \E op \in (IF run = None THEN {} ELSE run.todo) :
              UndoWrite(op) \/ UndoRename(op) \/ RebuildRename(op) \/ UndoRemove(op)
  BY <1>1, <1>4, ElsewhereCarried DEF UndoWrite, UndoRename, RebuildRename, UndoRemove, Undoing,
     At, Runs
<1>5. CASE Commit \/ NothingToCommit \/ CommitFails \/ Settle \/ ClearMarker
  BY <1>1, <1>5, ElsewhereCarried DEF Commit, NothingToCommit, CommitFails, Settle, ClearMarker,
     Applied, Abort, Become, At, Runs
<1> QED BY <1>2, <1>3, <1>4, <1>5

LEMMA StepCarried == ASSUME IInv, Carried, [Next]_vars PROVE Carried'
<1>1. CASE CallStep
  <2>1. CASE \E op \in (IF run = None THEN {} ELSE run.todo) :
               Remove(op) \/ Rename(op) \/ WritePage(op) \/ AddPage(op) \/ Stage(op)
    BY <2>1, RemoveCarried, RenameCarried, WritePageCarried, StagedCarried
  <2>2. CASE LookClean \/ RecoverVerify \/ Preflight
    BY <2>2, LookCarried, PreflightCarried
  <2> QED BY <1>1, <2>1, <2>2, AwayCarried DEF CallStep, OpStep
<1>2. CASE \E w \in Writer : ProcessEnds(w)
  <2>1. CASE run' = None
    BY <2>1, ElsewhereCarried
  <2>2. CASE run' # None
    <3>1. PICK w \in Writer : ProcessEnds(w)
      BY <1>2
    <3>2. run # None /\ run \in Runs /\ run' = [run EXCEPT !.prev = Bury(@, w)] /\ UNCHANGED tree
      BY <2>2, <3>1 DEF ProcessEnds, IInv, TypeOK
    <3>3. run'.at = run.at /\ run'.call = run.call /\ run'.todo = run.todo
      BY <3>2 DEF Runs
    <3> QED BY <3>2, <3>3, StillCarried
  <2> QED BY <2>1, <2>2
<1>3. CASE \E p \in Path : HandEdit(p) \/ HandStage(p)
  BY <1>3, HandCarried
<1>4. CASE OperatorSettles
  BY <1>4, ElsewhereCarried DEF OperatorSettles
<1>5. CASE UNCHANGED vars
  BY <1>5, StillCarried, ElsewhereCarried DEF vars, tree
<1> QED BY <1>1, <1>2, <1>3, <1>4, <1>5 DEF Next

LEMMA CarriedInvariance == Spec => []Carried
<1>1. Init => Carried
  BY DEF Init, Carried
<1>2. IInv /\ Carried /\ [Next]_vars => Carried'
  BY StepCarried
<1> QED BY <1>1, <1>2, Invariance, PTL DEF Spec

LEMMA WholeCommit ==
    ASSUME IInv, Carried, Commit, NEW p \in Footprint(run.call)
    PROVE  head'[p] \in {Result(run.call, p), Hand}
<1> DEFINE c == run.call
<1>1. /\ run # None /\ run.at = "applying" /\ run.todo = {} /\ head' = index
      /\ c \in Call /\ p \in Path
  BY FootprintType DEF Commit, Applied, At, IInv, TypeOK, Runs
<1>2. CASE p \in DOMAIN c.files
  BY <1>1, <1>2 DEF Carried, PageCarried, Waits, Past, Result
<1>3. CASE p \notin DOMAIN c.files /\ Moves(c, p) # {}
  <2>1. (CHOOSE m \in c.moves : m.to = p) \in c.moves /\ (CHOOSE m \in c.moves : m.to = p).to = p
    BY <1>3 DEF Moves
  <2>2. PICK own \in c.moves : own.to = p /\ own = CHOOSE m \in c.moves : m.to = p
    BY <2>1
  <2>3. index[p] \in {head[own.from], Hand}
    BY <1>1, <1>3, <2>2 DEF Carried, MoveCarried, Waits
  <2>4. Result(c, p) = head[own.from]
    BY <1>3, <2>2 DEF Result
  <2> QED BY <1>1, <2>3, <2>4
<1>4. CASE p \notin DOMAIN c.files /\ Moves(c, p) = {}
  <2>1. p \in Emptied(c) /\ Result(c, p) = None
    BY <1>4 DEF Emptied, Moves, Result
  <2> QED BY <1>1, <2>1 DEF Carried, LeftEmpty, Waits
<1> QED BY <1>2, <1>3, <1>4

\* A commit is the whole call, every removal, rename and page of it, or there is no commit
\* (commit_patch, move_documents): only a page edited by hand on the way stands instead.
THEOREM CommitsAreWhole == Spec => CommitIsWhole
<1> DEFINE Whole == run # None /\ head' # head
                     => \A p \in Footprint(run.call) : head'[p] \in {Result(run.call, p), Hand}
<1>1. IInv /\ Carried /\ [Next]_vars => [Whole]_vars
  BY OnlyCommitCommits, WholeCommit DEF vars
<1> QED BY <1>1, Invariance, CarriedInvariance, PTL DEF Spec, CommitIsWhole
=============================================================================
