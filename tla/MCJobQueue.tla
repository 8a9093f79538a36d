----------------------------- MODULE MCJobQueue -----------------------------
(***************************************************************************)
(* Every interleaving of the queue's operations by any clients: two        *)
(* compile rows under one harness launch and one Steward.                  *)
(***************************************************************************)
EXTENDS JobQueue, TLC

CONSTANTS c1, c2

MCJob    == {c1, c2}
MCKindOf == [j \in MCJob |-> "compile"]
MCAbout  == [j \in MCJob |-> {}]
MCSkips  == {{}}

\* A row waits out its schedule before the other is written, and one of them only.
WaitsAlone == \A i, j \in MCJob : i # j =>
    /\ job[i].fails > 0 => job[j].fails = 0
    /\ job[i].wait => Is(j, "absent")

\* The two rows differ in nothing but their names.
RowSymmetry == Permutations(MCJob)
=============================================================================
